-------------------------- MODULE ColumnStoreProofs --------------------------
(***************************************************************************)
(* Proofs about ColumnStore, for any number of workers, columns, rows and  *)
(* crashes, any block size and values of any lengths: what chains of       *)
(* blocks keep when INSERTs and SELECTs interleave.                        *)
(***************************************************************************)
EXTENDS ColumnStore, FiniteSetTheorems, SequenceTheorems, Induction, TLAPS

DataBlock == [values : Seq(Row), used : Nat, next : Nat]

Inserting(k) == stmt[k] \in {"insert", "fill"}

(* An INSERT that is under way has one of the rows begun.                  *)
RowsBegun == \A k \in Client : Inserting(k) => row[k] \in 1 .. rows

(* Links lead to later blocks, at most to the one that comes next, and     *)
(* each column's first block is there.                                     *)
LinksForward ==
  /\ Columns <= Len(data)
  /\ \A i \in 1 .. Len(data) : data[i].next # Null => data[i].next \in i .. Len(data)

(* A block that is being filled comes next in the file.                    *)
FillsAtEnd == \A k \in Client : stmt[k] = "fill" => at[k] = Len(data)

StoreInv == TypeOK /\ RowsBegun /\ LinksForward /\ FillsAtEnd /\ BlocksFit

-----------------------------------------------------------------------------
(* Blocks with other fields.                                               *)
LEMMA NextChanged ==
  ASSUME NEW b \in DataBlock, NEW n \in Nat
  PROVE  [b EXCEPT !.next = n] = [values |-> b.values, used |-> b.used, next |-> n]
BY DEF DataBlock

LEMMA ValuesChanged ==
  ASSUME NEW b \in DataBlock, NEW v \in Seq(Row), NEW u \in Nat
  PROVE  /\ [b EXCEPT !.values = v, !.used = u] \in DataBlock
         /\ [b EXCEPT !.values = v, !.used = u] = [values |-> v, used |-> u, next |-> b.next]
<1> DEFINE c == [b EXCEPT !.values = v, !.used = u]
<1>1. c \in DataBlock /\ c.values = v /\ c.used = u /\ c.next = b.next
  BY DEF DataBlock
<1> HIDE DEF c
<1>2. c = [values |-> c.values, used |-> c.used, next |-> c.next]
  BY <1>1 DEF DataBlock
<1> QED
  BY <1>1, <1>2 DEF c

(* A value put into a block comes first; the block leads where it led.     *)
LEMMA InsertDataProperties ==
  ASSUME NEW b \in DataBlock, NEW r \in Row, NEW size \in Nat
  PROVE  /\ InsertData(b, r, size) \in DataBlock
         /\ InsertData(b, r, size) =
              [values |-> <<r>> \o b.values, used |-> b.used + size, next |-> b.next]
         /\ InsertData(b, r, size).next = b.next
         /\ InsertData(b, r, size).used = b.used + size
         /\ Len(InsertData(b, r, size).values) = Len(b.values) + 1
         /\ InsertData(b, r, size).values[1] = r
         /\ \A i \in 1 .. Len(b.values) : InsertData(b, r, size).values[i + 1] = b.values[i]
<1>1. b.values \in Seq(Row) /\ <<r>> \in Seq(Row) /\ Len(<<r>>) = 1 /\ <<r>>[1] = r
  BY DEF DataBlock
<1>2. /\ <<r>> \o b.values \in Seq(Row)
      /\ Len(<<r>> \o b.values) = 1 + Len(b.values)
      /\ \A i \in 1 .. 1 + Len(b.values) :
           (<<r>> \o b.values)[i] = IF i <= 1 THEN <<r>>[i] ELSE b.values[i - 1]
  BY <1>1, ConcatProperties
<1>3. Len(b.values) \in Nat
  BY <1>1, LenProperties
<1>4. /\ InsertData(b, r, size) \in DataBlock
      /\ InsertData(b, r, size) =
           [values |-> <<r>> \o b.values, used |-> b.used + size, next |-> b.next]
  <2>1. b.used + size \in Nat
    BY DEF DataBlock
  <2> QED
    BY <1>2, <2>1, ValuesChanged DEF InsertData
<1>5. /\ (<<r>> \o b.values)[1] = r
      /\ \A i \in 1 .. Len(b.values) : (<<r>> \o b.values)[i + 1] = b.values[i]
  BY <1>1, <1>2, <1>3
<1> QED
  BY <1>2, <1>3, <1>4, <1>5

(* A join is a sequence of records: its tags have no gaps.                 *)
LEMMA JoinType ==
  ASSUME NEW ls \in [Column -> Seq(Row)]
  PROVE  InnerJoinColumns(ls) \in Seq([Column -> Row])
<1> DEFINE tags == {i \in 1 .. Len(ls[1]) : \A c \in Column : i <= Len(ls[c])}
<1> DEFINE out == {n \in Nat : n + 1 \notin tags}
<1>1. 1 \in Column /\ \A c \in Column : Len(ls[c]) \in Nat
  BY StoreAssumption, LenProperties DEF Column
<1>2. Len(ls[1]) \in out
  BY <1>1
<1>3. PICK m \in out : \A n \in out : m <= n
  BY <1>2, NatLeast, Zenon
<1>4. \A n \in Nat : n < m => n + 1 \in tags
  BY <1>3
<1>5. tags = 1 .. m
  <2>1. ASSUME NEW i \in 1 .. m PROVE i \in tags
    <3>1. i - 1 \in Nat /\ i - 1 < m
      BY <2>1
    <3> HIDE DEF tags
    <3> QED
      BY <3>1, <1>4
  <2>2. ASSUME NEW i \in tags PROVE i \in 1 .. m
    <3>1. m + 1 \notin tags /\ m \in Nat
      BY <1>3
    <3>2. CASE i > m
      <4>1. m + 1 \in 1 .. Len(ls[1]) /\ \A c \in Column : m + 1 <= Len(ls[c])
        BY <1>1, <2>2, <3>1, <3>2
      <4> QED
        BY <3>1, <4>1
    <3> QED
      BY <2>2, <3>1, <3>2
  <2> QED
    BY <2>1, <2>2
<1>6. \A i \in tags : [c \in Column |-> ls[c][i]] \in [Column -> Row]
  BY <1>1, ElementOfSeq
<1>7. InnerJoinColumns(ls) = [i \in 1 .. m |-> [c \in Column |-> ls[c][i]]]
  BY <1>5 DEF InnerJoinColumns
<1>8. m \in Nat
  BY <1>3
<1> HIDE DEF tags, out
<1>9. [i \in 1 .. m |-> [c \in Column |-> ls[c][i]]] \in [1 .. m -> [Column -> Row]]
  BY <1>5, <1>6
<1> QED
  BY <1>7, <1>8, <1>9, SeqDef

(* Where a statement stands after a column.                                *)
LEMMA NextColumnProperties ==
  ASSUME TypeOK, NEW k \in Client, NEW s \in {"insert", "select"}, NextColumn(k, s)
  PROVE  /\ stmt' \in [Client -> {Idle, "insert", "fill", "select"}]
         /\ col' \in [Client -> Column] /\ at' \in [Client -> Nat]
         /\ \A j \in Client \ {k} : stmt'[j] = stmt[j] /\ col'[j] = col[j] /\ at'[j] = at[j]
         /\ \/ stmt'[k] = s /\ col'[k] = col[k] + 1 /\ at'[k] = First(col[k] + 1)
            \/ stmt'[k] = Idle /\ col[k] = Columns
<1>1. col[k] \in Column /\ Columns \in Nat
  BY StoreAssumption DEF TypeOK
<1>2. CASE col[k] < Columns
  <2>1. /\ stmt' = [stmt EXCEPT ![k] = s]
        /\ col' = [col EXCEPT ![k] = @ + 1]
        /\ at' = [at EXCEPT ![k] = First(col[k] + 1)]
    BY <1>2 DEF NextColumn
  <2>2. col[k] + 1 \in Column /\ First(col[k] + 1) \in Nat
    BY <1>1, <1>2 DEF Column, First
  <2> QED
    BY <2>1, <2>2 DEF TypeOK
<1>3. CASE ~(col[k] < Columns)
  <2>1. stmt' = [stmt EXCEPT ![k] = Idle] /\ UNCHANGED <<col, at>> /\ col[k] = Columns
    BY <1>1, <1>3 DEF NextColumn, Column
  <2> QED
    BY <2>1 DEF TypeOK
<1> QED
  BY <1>2, <1>3

(* What a step does to the file.                                           *)
LEMMA DataType ==
  ASSUME TypeOK
  PROVE  /\ data \in Seq(DataBlock) /\ Len(data) \in Nat
         /\ \A i \in 1 .. Len(data) : data[i] \in DataBlock
<1>1. data \in Seq(DataBlock)
  BY DEF TypeOK, DataBlock
<1> QED
  BY <1>1, LenProperties, ElementOfSeq

LEMMA ValueInserted ==
  ASSUME StoreInv, NEW k \in Client, InsertValue(k)
  PROVE  LET r == row[k]
             a == at[k] + 1
             size == Size[col[k]][r]
         IN  /\ r \in Row /\ size \in Nat /\ a \in 1 .. Len(data)
             /\ data[a].next = Null /\ data[a].used + size <= Space
             /\ data' = [data EXCEPT ![a] = InsertData(data[a], r, size)]
             /\ data' \in Seq(DataBlock) /\ Len(data') = Len(data)
             /\ \A i \in 1 .. Len(data) : data'[i] = IF i = a THEN InsertData(data[a], r, size)
                                                    ELSE data[i]
<1> USE DEF StoreInv
<1> DEFINE r == row[k]
           a == at[k] + 1
           size == Size[col[k]][r]
<1>1. r \in Row /\ col[k] \in Column /\ at[k] \in Nat
  BY StoreAssumption DEF RowsBegun, Inserting, InsertValue, Visit, TypeOK, Row
<1>2. size \in Nat
  BY <1>1, SizeAssumption
<1>3. a \in 1 .. Len(data) /\ data[a] \in DataBlock
  BY <1>1, DataType DEF InsertValue, Visit, IsStored
<1>4. /\ data[a].next = Null
      /\ data[a].used + size <= Space
      /\ data' = [data EXCEPT ![a] = InsertData(data[a], r, size)]
  <2>1. Space - data[a].used > size /\ data[a].next = Null
        /\ data' = [data EXCEPT ![a] = InsertData(data[a], r, size)]
    BY DEF InsertValue, HaveSpace, IsLast, Stored
  <2>2. data[a].used \in Nat /\ Space \in Nat
    BY <1>3, StoreAssumption DEF DataBlock
  <2> QED
    BY <1>2, <2>1, <2>2
<1>5. InsertData(data[a], r, size) \in DataBlock
  BY <1>1, <1>2, <1>3, InsertDataProperties
<1> QED
  BY <1>1, <1>2, <1>3, <1>4, <1>5, DataType, ExceptSeq

LEMMA BlockLinked ==
  ASSUME StoreInv, NEW k \in Client, LinkNewBlock(k)
  PROVE  LET a == at[k] + 1
             b == [values |-> data[a].values, used |-> data[a].used, next |-> Len(data)]
         IN  /\ a \in 1 .. Len(data) /\ data[a].next = Null
             /\ data' \in Seq(DataBlock) /\ Len(data') = Len(data)
             /\ \A i \in 1 .. Len(data) : data'[i] = IF i = a THEN b ELSE data[i]
<1> USE DEF StoreInv
<1> DEFINE a == at[k] + 1
           b == [values |-> data[a].values, used |-> data[a].used, next |-> Len(data)]
<1>0. at[k] \in Nat
  BY DEF TypeOK
<1>1. a \in 1 .. Len(data) /\ data[a] \in DataBlock
  BY <1>0, DataType DEF LinkNewBlock, Visit, IsStored
<1>2. b \in DataBlock
  BY <1>1, DataType DEF DataBlock
<1>3. data[a].next = Null
  BY DEF LinkNewBlock, IsLast, Stored
<1>4. data' = [data EXCEPT ![a] = b]
  <2>1. data' = [data EXCEPT ![a] = [data[a] EXCEPT !.next = Len(data)]]
    BY DEF LinkNewBlock, NewBlockAddress
  <2> QED
    BY <1>1, <2>1, DataType, NextChanged
<1> QED
  BY <1>1, <1>2, <1>3, <1>4, DataType, ExceptSeq

LEMMA BlockFilled ==
  ASSUME StoreInv, NEW k \in Client, FillNewBlock(k)
  PROVE  LET size == Size[col[k]][row[k]]
             b == [values |-> <<row[k]>>, used |-> size, next |-> Null]
         IN  /\ row[k] \in Row /\ b \in DataBlock /\ size < Space
             /\ at[k] = Len(data)
             /\ data' = Append(data, b)
             /\ data' \in Seq(DataBlock) /\ Len(data') = Len(data) + 1
             /\ \A i \in 1 .. Len(data) : data'[i] = data[i]
             /\ data'[Len(data) + 1] = b
<1> USE DEF StoreInv
<1> DEFINE size == Size[col[k]][row[k]]
           b == [values |-> <<row[k]>>, used |-> size, next |-> Null]
<1>1. row[k] \in Row /\ col[k] \in Column
  BY StoreAssumption DEF RowsBegun, Inserting, FillNewBlock, TypeOK, Row
<1>2. size \in Nat /\ size < Space
  BY <1>1, SizeAssumption
<1>3. InsertData(EmptyBlock, row[k], size) = b
  <2>1. <<row[k]>> \o <<>> = <<row[k]>>
    BY <1>1, ConcatEmptySeq
  <2>2. EmptyBlock \in DataBlock
    BY EmptySeq DEF EmptyBlock, DataBlock, Null
  <2>3. InsertData(EmptyBlock, row[k], size) =
          [values |-> <<row[k]>> \o EmptyBlock.values, used |-> EmptyBlock.used + size,
           next |-> EmptyBlock.next]
    BY <1>1, <1>2, <2>2, InsertDataProperties
  <2>4. EmptyBlock.values = <<>> /\ EmptyBlock.used + size = size /\ EmptyBlock.next = Null
    BY <1>2 DEF EmptyBlock
  <2> QED
    BY <2>1, <2>3, <2>4
<1>4. b \in DataBlock
  BY <1>1, <1>2 DEF DataBlock, Null
<1>5. at[k] = Len(data)
  BY DEF FillNewBlock, FillsAtEnd
<1>6. data' = Append(data, b)
  BY <1>3, <1>5, DataType DEF FillNewBlock, IsStored
<1> QED
  BY <1>1, <1>2, <1>4, <1>5, <1>6, DataType, AppendProperties

-----------------------------------------------------------------------------
(* Each action keeps types, links and sizes.                               *)
LEMMA StoreInit == Init => StoreInv
<1> SUFFICES ASSUME Init PROVE StoreInv
  OBVIOUS
<1> USE StoreAssumption
<1>1. EmptyBlock \in DataBlock
  BY EmptySeq DEF EmptyBlock, DataBlock, Null
<1>2. data \in Seq(DataBlock) /\ Len(data) = Columns
      /\ \A i \in 1 .. Len(data) : data[i] = EmptyBlock
  <2>1. data \in [1 .. Columns -> DataBlock] /\ Columns \in Nat
    BY <1>1 DEF Init, Column
  <2>2. data \in Seq(DataBlock)
    BY <2>1, SeqDef
  <2>3. DOMAIN data = 1 .. Columns /\ DOMAIN data = 1 .. Len(data) /\ Len(data) \in Nat
    BY <2>1, <2>2, LenProperties
  <2> QED
    BY <2>1, <2>2, <2>3 DEF Init, Column
<1>3. Nothing \in [Column -> Seq(Row)] /\ <<>> \in Seq([Column -> Row])
  BY EmptySeq DEF Nothing
<1>4. 1 \in Column /\ First(1) \in Nat
  BY DEF Column, First
<1>5. TypeOK
  BY <1>2, <1>3, <1>4 DEF Init, TypeOK, DataBlock, Idle
<1>6. RowsBegun /\ FillsAtEnd
  BY DEF Init, RowsBegun, FillsAtEnd, Inserting, Idle
<1>7. LinksForward /\ BlocksFit
  BY <1>2 DEF LinksForward, BlocksFit, EmptyBlock
<1> QED
  BY <1>5, <1>6, <1>7 DEF StoreInv

LEMMA SameFile ==
  ASSUME StoreInv, UNCHANGED data
  PROVE  LinksForward' /\ BlocksFit'
BY DEF StoreInv, LinksForward, BlocksFit

LEMMA StoreBegin ==
  ASSUME StoreInv, NEW k \in Client, Insert(k) \/ Select(k)
  PROVE  StoreInv'
<1> USE DEF StoreInv
<1>1. PICK s \in {"insert", "select"} : Begin(k, s)
  BY DEF Insert, Select
<1>2. /\ 1 \in Column /\ First(1) \in Nat /\ Nothing \in [Column -> Seq(Row)]
      /\ <<>> \in Seq([Column -> Row])
  BY StoreAssumption, EmptySeq DEF Column, First, Nothing
<1>3. /\ rows' \in 0 .. MaxRows /\ rows' >= rows /\ row' \in [Client -> Nat]
      /\ \A j \in Client \ {k} : row'[j] = row[j]
      /\ s = "insert" => row'[k] \in 1 .. rows'
  <2>1. CASE Insert(k)
    BY <2>1, StoreAssumption DEF Insert, TypeOK
  <2>2. CASE Select(k)
    <3>1. s = "select"
      BY <1>1, <2>2 DEF Select, Begin, TypeOK, Idle
    <3> QED
      BY <2>2, <3>1 DEF Select, TypeOK
  <2> QED
    BY <2>1, <2>2
<1>4. TypeOK'
  <2>1. stmt' \in [Client -> {Idle, "insert", "fill", "select"}]
    BY <1>1 DEF Begin, TypeOK
  <2>2. /\ col' \in [Client -> Column] /\ at' \in [Client -> Nat]
        /\ lists' \in [Client -> [Column -> Seq(Row)]]
        /\ answer' \in [Client -> Seq([Column -> Row])]
    BY <1>1, <1>2 DEF Begin, TypeOK
  <2>3. before' \in [Client -> [Column -> SUBSET Row]]
    BY <1>1 DEF Begin, TypeOK
  <2> QED
    BY <1>1, <1>3, <2>1, <2>2, <2>3 DEF Begin, TypeOK
<1>5. stmt'[k] = s /\ \A j \in Client \ {k} : stmt'[j] = stmt[j] /\ at'[j] = at[j]
  BY <1>1 DEF Begin, TypeOK
<1>6. RowsBegun'
  <2>1. rows \in Int /\ rows' \in Int
    BY <1>3 DEF TypeOK
  <2> QED
    BY <1>3, <1>5, <2>1 DEF RowsBegun, Inserting
<1>7. FillsAtEnd'
  BY <1>1, <1>5 DEF FillsAtEnd, Begin
<1>8. UNCHANGED data
  BY <1>1 DEF Begin
<1> QED
  BY <1>4, <1>6, <1>7, <1>8, SameFile

LEMMA StoreFollow ==
  ASSUME StoreInv, NEW k \in Client, FollowLink(k)
  PROVE  StoreInv'
<1> USE DEF StoreInv
<1>0. at[k] \in Nat
  BY DEF TypeOK
<1>1. at[k] + 1 \in 1 .. Len(data) /\ data[at[k] + 1] \in DataBlock
  BY <1>0, DataType DEF FollowLink, Visit, IsStored
<1>2. NextBlock(k) \in Nat
  BY <1>1 DEF NextBlock, Stored, DataBlock
<1>3. TypeOK'
  BY <1>2 DEF FollowLink, TypeOK, history
<1>4. RowsBegun' /\ FillsAtEnd'
  BY DEF FollowLink, Visit, RowsBegun, FillsAtEnd, Inserting, TypeOK
<1> QED
  BY <1>3, <1>4, SameFile DEF FollowLink

(* A value has reached the file in its column.                             *)
LEMMA WrittenType ==
  ASSUME StoreInv, NEW k \in Client, Wrote(k), row[k] \in Row
  PROVE  /\ written' \in [Column -> SUBSET Row]
         /\ col[k] \in Column
         /\ \A c \in Column : written'[c] = IF c = col[k] THEN written[c] \cup {row[k]}
                                            ELSE written[c]
BY DEF StoreInv, TypeOK, Wrote

LEMMA StoreInsertValue ==
  ASSUME StoreInv, NEW k \in Client, InsertValue(k)
  PROVE  StoreInv'
<1> USE DEF StoreInv
<1> DEFINE r == row[k]
           a == at[k] + 1
           size == Size[col[k]][r]
           b == InsertData(data[a], r, size)
<1>1. /\ r \in Row /\ size \in Nat /\ a \in 1 .. Len(data)
      /\ data[a].next = Null /\ data[a].used + size <= Space
      /\ data' \in Seq(DataBlock) /\ Len(data') = Len(data)
      /\ \A i \in 1 .. Len(data) : data'[i] = IF i = a THEN b ELSE data[i]
  BY ValueInserted
<1>2. data[a] \in DataBlock /\ Len(data) \in Nat
  BY <1>1, DataType
<1>3. b.next = Null /\ b.used <= Space
  BY <1>1, <1>2, InsertDataProperties
<1>4. NextColumn(k, "insert") /\ Wrote(k) /\ UNCHANGED <<server, row, lists, answer, rows, crashes, before>>
  BY DEF InsertValue
<1>5. /\ stmt' \in [Client -> {Idle, "insert", "fill", "select"}]
      /\ col' \in [Client -> Column] /\ at' \in [Client -> Nat]
      /\ \A j \in Client \ {k} : stmt'[j] = stmt[j] /\ at'[j] = at[j]
      /\ stmt'[k] \in {"insert", Idle} /\ stmt[k] = "insert"
  BY <1>4, NextColumnProperties DEF InsertValue, Visit
<1>6. TypeOK'
  BY <1>1, <1>4, <1>5, WrittenType DEF TypeOK, DataBlock
<1>7. RowsBegun' /\ FillsAtEnd'
  BY <1>1, <1>4, <1>5 DEF RowsBegun, FillsAtEnd, Inserting, Idle
<1> HIDE DEF b, a
<1>8. LinksForward' /\ BlocksFit'
  <2>1. DOMAIN data' = 1 .. Len(data) /\ DOMAIN data = 1 .. Len(data)
    BY <1>1, DataType, LenProperties
  <2> QED
    BY <1>1, <1>2, <1>3, <2>1 DEF LinksForward, BlocksFit
<1> QED
  BY <1>6, <1>7, <1>8

LEMMA StoreLinkNewBlock ==
  ASSUME StoreInv, NEW k \in Client, LinkNewBlock(k)
  PROVE  StoreInv'
<1> USE DEF StoreInv
<1> DEFINE a == at[k] + 1
           b == [values |-> data[a].values, used |-> data[a].used, next |-> Len(data)]
<1>1. /\ a \in 1 .. Len(data) /\ data[a].next = Null
      /\ data' \in Seq(DataBlock) /\ Len(data') = Len(data)
      /\ \A i \in 1 .. Len(data) : data'[i] = IF i = a THEN b ELSE data[i]
  BY BlockLinked
<1>2. b.next = Len(data) /\ b.used = data[a].used /\ Len(data) \in Nat
  BY DataType
<1>3. /\ at' = [at EXCEPT ![k] = Len(data)] /\ stmt' = [stmt EXCEPT ![k] = "fill"]
      /\ UNCHANGED <<server, row, col, lists, answer, rows, crashes, written, before>>
      /\ stmt[k] = "insert"
  BY DEF LinkNewBlock, NewBlockAddress, history, Visit
<1>4. TypeOK'
  BY <1>1, <1>2, <1>3 DEF TypeOK, DataBlock
<1>5. RowsBegun' /\ FillsAtEnd'
  BY <1>1, <1>3 DEF RowsBegun, FillsAtEnd, Inserting, TypeOK
<1> HIDE DEF b, a
<1>6. LinksForward' /\ BlocksFit'
  <2>1. DOMAIN data' = 1 .. Len(data) /\ DOMAIN data = 1 .. Len(data)
    BY <1>1, DataType, LenProperties
  <2> QED
    BY <1>1, <1>2, <2>1 DEF LinksForward, BlocksFit
<1> QED
  BY <1>4, <1>5, <1>6

(* As the blocks being filled all come next in the file, one that does not *)
(* collide is the only one.                                                *)
LEMMA OnlyFill ==
  ASSUME StoreInv, NEW k \in Client, FillNewBlock(k)
  PROVE  \A j \in Client \ {k} : stmt[j] # "fill"
BY DEF StoreInv, FillNewBlock, Collides, FillsAtEnd

LEMMA StoreFillNewBlock ==
  ASSUME StoreInv, NEW k \in Client, FillNewBlock(k)
  PROVE  StoreInv'
<1> USE DEF StoreInv
<1> DEFINE size == Size[col[k]][row[k]]
           b == [values |-> <<row[k]>>, used |-> size, next |-> Null]
<1>1. /\ row[k] \in Row /\ b \in DataBlock /\ size < Space
      /\ data' \in Seq(DataBlock) /\ Len(data') = Len(data) + 1
      /\ \A i \in 1 .. Len(data) : data'[i] = data[i]
      /\ data'[Len(data) + 1] = b
  BY BlockFilled
<1>2. Len(data) \in Nat /\ b.next = Null /\ b.used < Space /\ b.used \in Nat /\ Space \in Nat
  BY <1>1, DataType, StoreAssumption DEF DataBlock
<1>3. NextColumn(k, "insert") /\ Wrote(k) /\ UNCHANGED <<server, row, lists, answer, rows, crashes, before>>
  BY DEF FillNewBlock
<1>4. /\ stmt' \in [Client -> {Idle, "insert", "fill", "select"}]
      /\ col' \in [Client -> Column] /\ at' \in [Client -> Nat]
      /\ \A j \in Client \ {k} : stmt'[j] = stmt[j] /\ at'[j] = at[j]
      /\ stmt'[k] \in {"insert", Idle} /\ stmt[k] = "fill"
  BY <1>3, NextColumnProperties DEF FillNewBlock
<1>5. TypeOK'
  BY <1>1, <1>3, <1>4, WrittenType DEF TypeOK, DataBlock
<1>6. RowsBegun' /\ FillsAtEnd'
  BY <1>1, <1>3, <1>4, OnlyFill DEF RowsBegun, FillsAtEnd, Inserting, Idle
<1> HIDE DEF b
<1>7. LinksForward' /\ BlocksFit'
  <2>1. DOMAIN data' = 1 .. Len(data) + 1 /\ DOMAIN data = 1 .. Len(data)
    BY <1>1, DataType, LenProperties
  <2>2. \A i \in 1 .. Len(data) + 1 : i \in 1 .. Len(data) \/ i = Len(data) + 1
    BY <1>2
  <2>3. \A i \in 1 .. Len(data) : data[i].next \in Int
    BY DataType DEF DataBlock
  <2>4. LinksForward'
    BY <1>1, <1>2, <2>2, <2>3, StoreAssumption DEF LinksForward
  <2>5. BlocksFit'
    BY <1>1, <1>2, <2>1, <2>2 DEF BlocksFit
  <2> QED
    BY <2>4, <2>5
<1> QED
  BY <1>5, <1>6, <1>7

(* What a SELECT has read of a column, with one block more.                *)
LEMMA ScanListType ==
  ASSUME StoreInv, NEW k \in Client, Visit(k, "select")
  PROVE  /\ at[k] + 1 \in 1 .. Len(data) /\ data[at[k] + 1] \in DataBlock
         /\ lists[k][col[k]] \in Seq(Row) /\ Stored(at[k]).values \in Seq(Row)
         /\ ScanList(k) = lists[k][col[k]] \o Stored(at[k]).values
         /\ ScanList(k) \in Seq(Row)
<1>0. at[k] \in Nat
  BY DEF StoreInv, TypeOK
<1>1. at[k] + 1 \in 1 .. Len(data) /\ data[at[k] + 1] \in DataBlock
  BY <1>0, DataType DEF Visit, IsStored, StoreInv
<1>2. lists[k][col[k]] \in Seq(Row) /\ Stored(at[k]).values \in Seq(Row)
  BY <1>1 DEF StoreInv, TypeOK, Stored, DataBlock
<1> QED
  BY <1>1, <1>2, ConcatProperties DEF ScanList

LEMMA StoreScanBlock ==
  ASSUME StoreInv, NEW k \in Client, ScanBlock(k)
  PROVE  StoreInv'
<1> USE DEF StoreInv
<1>0. ScanList(k) \in Seq(Row) /\ data[at[k] + 1] \in DataBlock
  BY ScanListType DEF ScanBlock
<1>1. ScanList(k) \in Seq(Row) /\ NextBlock(k) \in Nat
  BY <1>0 DEF NextBlock, Stored, DataBlock
<1>2. TypeOK'
  BY <1>1 DEF ScanBlock, TypeOK, history
<1>3. RowsBegun' /\ FillsAtEnd'
  BY DEF ScanBlock, Visit, RowsBegun, FillsAtEnd, Inserting, TypeOK
<1> QED
  BY <1>2, <1>3, SameFile DEF ScanBlock

LEMMA StoreScanLastBlock ==
  ASSUME StoreInv, NEW k \in Client, ScanLastBlock(k)
  PROVE  StoreInv'
<1> USE DEF StoreInv
<1> DEFINE read == [lists[k] EXCEPT ![col[k]] = ScanList(k)]
<1>1. /\ Visit(k, "select") /\ NextColumn(k, "select")
      /\ UNCHANGED <<server, data, row, rows, crashes, written, before>>
  BY DEF ScanLastBlock, history
<1>2. read \in [Column -> Seq(Row)]
  BY <1>1, ScanListType DEF TypeOK
<1>3. InnerJoinColumns(read) \in Seq([Column -> Row])
  BY <1>2, JoinType
<1>4. Nothing \in [Column -> Seq(Row)]
  BY EmptySeq DEF Nothing
<1>5. \/ lists' = [lists EXCEPT ![k] = Nothing]
         /\ answer' = [answer EXCEPT ![k] = InnerJoinColumns(read)]
      \/ lists' = [lists EXCEPT ![k] = read] /\ answer' = answer
  BY DEF ScanLastBlock
<1> HIDE DEF read
<1>6. /\ lists' \in [Client -> [Column -> Seq(Row)]]
      /\ answer' \in [Client -> Seq([Column -> Row])]
  BY <1>2, <1>3, <1>4, <1>5 DEF TypeOK
<1>7. /\ stmt' \in [Client -> {Idle, "insert", "fill", "select"}]
      /\ col' \in [Client -> Column] /\ at' \in [Client -> Nat]
      /\ \A j \in Client \ {k} : stmt'[j] = stmt[j] /\ at'[j] = at[j]
      /\ stmt'[k] \in {"select", Idle} /\ stmt[k] = "select"
  BY <1>1, NextColumnProperties DEF Visit
<1>8. TypeOK'
  BY <1>1, <1>6, <1>7 DEF TypeOK
<1>9. RowsBegun' /\ FillsAtEnd'
  BY <1>1, <1>7 DEF RowsBegun, FillsAtEnd, Inserting, Idle
<1> QED
  BY <1>1, <1>8, <1>9, SameFile

(* Steps that end everything, and the restart.                             *)
LEMMA StoreStop ==
  ASSUME StoreInv,
         \/ \E k \in Client : ReleaseOther(k) \/ Meet(k) \/ ReadBeyondEnd(k)
         \/ UNCHANGED vars
  PROVE  StoreInv'
<1> USE DEF StoreInv
<1>1. /\ UNCHANGED <<data, stmt, row, col, at, lists, answer, rows, crashes, written, before>>
      /\ server' \in {"up", "hung", "undefined"}
  BY DEF ReleaseOther, Meet, ReadBeyondEnd, vars, place, history, TypeOK
<1>2. TypeOK' /\ RowsBegun' /\ FillsAtEnd'
  BY <1>1 DEF TypeOK, RowsBegun, FillsAtEnd, Inserting
<1> QED
  BY <1>1, <1>2, SameFile

LEMMA StoreCrash ==
  ASSUME StoreInv, Crash
  PROVE  StoreInv'
<1> USE DEF StoreInv
<1>1. Nothing \in [Column -> Seq(Row)] /\ <<>> \in Seq([Column -> Row])
  BY EmptySeq DEF Nothing
<1>2. crashes' \in 0 .. MaxCrashes
  BY StoreAssumption DEF Crash, TypeOK
<1>3. TypeOK'
  BY <1>1, <1>2 DEF Crash, TypeOK, place, history, Idle
<1>4. RowsBegun' /\ FillsAtEnd'
  BY DEF Crash, RowsBegun, FillsAtEnd, Inserting, Idle
<1> QED
  BY <1>3, <1>4, SameFile DEF Crash

LEMMA StoreNext ==
  ASSUME StoreInv, [Next]_vars
  PROVE  StoreInv'
<1>1. ASSUME NEW k \in Client,
             \/ Insert(k) \/ Select(k) \/ FollowLink(k) \/ InsertValue(k)
             \/ LinkNewBlock(k) \/ FillNewBlock(k) \/ ScanBlock(k) \/ ScanLastBlock(k)
      PROVE  StoreInv'
  BY <1>1, StoreBegin, StoreFollow, StoreInsertValue, StoreLinkNewBlock, StoreFillNewBlock,
     StoreScanBlock, StoreScanLastBlock
<1> QED
  BY <1>1, StoreStop, StoreCrash DEF Next

LEMMA StoreCorrect == Spec => []StoreInv
<1>1. StoreInv /\ [Next]_vars => StoreInv'
  BY StoreNext
<1> QED
  BY StoreInit, <1>1, PTL DEF Spec

(* Statements, blocks, lists and answers keep their types; a join is a     *)
(* sequence of records whatever has been read.                             *)
THEOREM StoreTypeCorrect == Spec => []TypeOK
<1>1. StoreInv => TypeOK
  BY DEF StoreInv
<1> QED
  BY <1>1, StoreCorrect, PTL

(* No block's values outgrow it, however long they are.                    *)
THEOREM ValuesFit == Spec => []BlocksFit
<1>1. StoreInv => BlocksFit
  BY DEF StoreInv
<1> QED
  BY <1>1, StoreCorrect, PTL

-----------------------------------------------------------------------------
(* Chains: no value is lost, each block is of one column, a SELECT misses  *)
(* and repeats nothing, however the workers interleave.                    *)
Stops(a) == ~IsStored(a) \/ IsLast(a)

(* A set that the links of the file do not leave.                          *)
Closed(S) == \A a \in S : a \in 0 .. Len(data) /\ ~Stops(a) => Stored(a).next \in S

(* The blocks of a column are the least set that has its first block and   *)
(* that links do not leave.                                                *)
BlocksChain ==
  \A c \in Column :
    /\ First(c) \in Blocks(c)
    /\ Blocks(c) \subseteq 0 .. Len(data)
    /\ Closed(Blocks(c))
    /\ \A S : First(c) \in S /\ Closed(S) => Blocks(c) \subseteq S

(* From a block of a chain, a link leads to the next one in the file's     *)
(* order.                                                                  *)
Ordered ==
  \A c \in Column : \A a, b \in Blocks(c) :
    a < b => ~Stops(a) /\ Stored(a).next <= b

(* A statement is at a block of its column, and what was written there is  *)
(* still there.                                                            *)
Reached ==
  \A k \in Client : \A c \in Column : stmt[k] # Idle /\ col[k] = c => at[k] \in Blocks(c)

Kept == \A c \in Column : written[c] \subseteq ValuesOf(c)

KeptInv == StoreInv /\ Reached /\ Kept

-----------------------------------------------------------------------------
(* Two columns meet at most behind the end of the file, and a chain that   *)
(* leads there has an INSERT that is about to fill the new block.          *)
StoredApart ==
  \A c, d \in Column : c # d => Blocks(c) \cap Blocks(d) \subseteq {Len(data)}

Pending ==
  \A c \in Column : Len(data) \in Blocks(c) =>
    \E k \in Client : stmt[k] = "fill" /\ col[k] = c

ApartInv == KeptInv /\ (crashes = 0 => StoredApart /\ Pending)

-----------------------------------------------------------------------------
(* Rows that INSERTs still have to write, and those that are written.      *)
OwnRows ==
  \A j, k \in Client : j # k /\ Inserting(j) /\ Inserting(k) => row[j] # row[k]

ToWrite ==
  \A k \in Client : Inserting(k) =>
    \A c \in Column : col[k] <= c => row[k] \notin written[c]

WrittenBegun == \A c \in Column : written[c] \subseteq 1 .. rows

BeforeWritten == \A k \in Client : \A c \in Column : before[k][c] \subseteq written[c]

RowsInv == OwnRows /\ ToWrite /\ WrittenBegun /\ BeforeWritten

Distinct(s) == \A i, j \in 1 .. Len(s) : s[i] = s[j] => i = j
Elements(s) == {s[i] : i \in 1 .. Len(s)}

(* A column's blocks hold what was written to it, each value once.         *)
OnlyWritten ==
  \A c \in Column : \A a \in Blocks(c) : IsStored(a) => Values(a) \subseteq written[c]

Once ==
  \A c \in Column : \A a \in Blocks(c) : IsStored(a) =>
    /\ Distinct(Stored(a).values)
    /\ \A b \in Blocks(c) : IsStored(b) /\ a # b => Values(a) \cap Values(b) = {}

(* A column that a SELECT has read.                                        *)
HasRead(k, c) == Distinct(lists[k][c]) /\ before[k][c] \subseteq Elements(lists[k][c])

(* The column that it is reading: what it has is of blocks it has visited, *)
(* and what it still has to find is in blocks it will visit.               *)
IsReading(k, c) ==
  /\ Distinct(lists[k][c])
  /\ \A v \in Elements(lists[k][c]) :
       \E a \in Blocks(c) : IsStored(a) /\ a < at[k] /\ v \in Values(a)
  /\ \A v \in before[k][c] :
       \/ v \in Elements(lists[k][c])
       \/ \E a \in Blocks(c) : IsStored(a) /\ a >= at[k] /\ v \in Values(a)

IsScanning(k) ==
  \A c \in Column :
    /\ c < col[k] => HasRead(k, c)
    /\ c = col[k] => IsReading(k, c)
    /\ c > col[k] => lists[k][c] = <<>>

Scans == \A k \in Client : stmt[k] = "select" => IsScanning(k)

ScanInv == ApartInv /\ RowsInv /\ (crashes = 0 => OnlyWritten /\ Once /\ Scans)
-----------------------------------------------------------------------------
(* The walk along a chain: Blocks defines it as a recursive function, and  *)
(* there is one.                                                           *)
IsWalk(nth, c, m) ==
  nth = [n \in 0 .. m |-> IF n = 0 THEN First(c) ELSE Follow(nth[n - 1])]

LEMMA WalkExists ==
  ASSUME NEW c, NEW m \in Nat
  PROVE  \E nth : IsWalk(nth, c, m)
<1> DEFINE T == {n \in Nat : \E nth : IsWalk(nth, c, n)}
<1>1. 0 \in T
  <2>1. IsWalk([n \in 0 .. 0 |-> First(c)], c, 0)
    BY DEF IsWalk
  <2> QED
    BY <2>1
<1>2. ASSUME NEW n \in Nat, n \in T PROVE n + 1 \in T
  <2>1. PICK f : IsWalk(f, c, n)
    BY <1>2
  <2> DEFINE g == [i \in 0 .. n + 1 |-> IF i = n + 1 THEN Follow(f[n]) ELSE f[i]]
  <2>2. \A i \in 0 .. n + 1 : g[i] = IF i = 0 THEN First(c) ELSE Follow(g[i - 1])
    <3>1. \A i \in 0 .. n : f[i] = IF i = 0 THEN First(c) ELSE Follow(f[i - 1])
      BY <2>1 DEF IsWalk
    <3>2. \A i \in 1 .. n + 1 : i - 1 \in 0 .. n /\ g[i - 1] = f[i - 1]
      OBVIOUS
    <3> QED
      BY <3>1, <3>2
  <2>3. g = [i \in 0 .. n + 1 |-> IF i = 0 THEN First(c) ELSE Follow(g[i - 1])]
    <3>1. g = [i \in 0 .. n + 1 |-> g[i]]
      OBVIOUS
    <3> HIDE DEF g
    <3> QED
      BY <2>2, <3>1, Zenon
  <2> HIDE DEF g
  <2>4. IsWalk(g, c, n + 1)
    BY <2>3 DEF IsWalk
  <2> QED
    BY <2>4
<1> HIDE DEF T
<1>3. Nat \subseteq T
  BY <1>1, <1>2, NatInd
<1> QED
  BY <1>3 DEF T

LEMMA BlocksWalk ==
  ASSUME NEW c, Len(data) \in Nat
  PROVE  \E nth : /\ IsWalk(nth, c, Len(data))
                  /\ Blocks(c) = {nth[n] : n \in 0 .. Len(data)} \ {NoBlock}
<1> DEFINE f == CHOOSE nth : IsWalk(nth, c, Len(data))
<1>1. IsWalk(f, c, Len(data))
  BY WalkExists
<1>2. Blocks(c) = {f[n] : n \in 0 .. Len(data)} \ {NoBlock}
  BY DEF Blocks, IsWalk
<1> HIDE DEF f
<1> QED
  BY <1>1, <1>2

(* A link leads to a later block of the file, or just behind its end.      *)
LEMMA LinkLater ==
  ASSUME StoreInv, NEW a \in 0 .. Len(data), ~Stops(a)
  PROVE  /\ Stored(a).next \in a + 1 .. Len(data) /\ a + 1 \in 1 .. Len(data)
         /\ Follow(a) = Stored(a).next
<1>1. Len(data) \in Nat
  BY DataType DEF StoreInv
<1>2. a + 1 \in 1 .. Len(data) /\ data[a + 1].next # Null
  BY <1>1 DEF Stops, IsStored, IsLast, Stored
<1>3. Stored(a).next \in a + 1 .. Len(data)
  BY <1>1, <1>2 DEF StoreInv, LinksForward, Stored
<1>4. Follow(a) = Stored(a).next
  BY <1>1 DEF Follow, Stops, NoBlock
<1> QED
  BY <1>2, <1>3, <1>4

(* After n links the walk is at block n at least: it ends within the file. *)
LEMMA WalkForward ==
  ASSUME StoreInv, NEW c \in Column, NEW nth, IsWalk(nth, c, Len(data))
  PROVE  \A n \in 0 .. Len(data) : nth[n] = NoBlock \/ nth[n] \in n .. Len(data)
<1> DEFINE T == {n \in Nat : n <= Len(data) => nth[n] = NoBlock \/ nth[n] \in n .. Len(data)}
<1>0. Len(data) \in Nat
  BY DataType DEF StoreInv
<1>1. \A n \in 0 .. Len(data) : nth[n] = IF n = 0 THEN First(c) ELSE Follow(nth[n - 1])
  BY DEF IsWalk
<1>2. 0 \in T
  <2>1. First(c) \in 0 .. Len(data)
    BY <1>0, StoreAssumption DEF First, Column, StoreInv, LinksForward
  <2> QED
    BY <1>0, <1>1, <2>1
<1>3. ASSUME NEW n \in Nat, n \in T PROVE n + 1 \in T
  <2>1. SUFFICES ASSUME n + 1 <= Len(data)
                 PROVE  nth[n + 1] = NoBlock \/ nth[n + 1] \in n + 1 .. Len(data)
    OBVIOUS
  <2>2. nth[n + 1] = Follow(nth[n]) /\ (nth[n] = NoBlock \/ nth[n] \in n .. Len(data))
    BY <1>0, <1>1, <1>3, <2>1
  <2>3. CASE nth[n] = NoBlock
    BY <2>2, <2>3 DEF Follow
  <2>4. CASE nth[n] \in n .. Len(data) /\ ~Stops(nth[n])
    BY <1>0, <2>2, <2>4, LinkLater
  <2>5. CASE Stops(nth[n])
    BY <2>2, <2>5 DEF Follow, Stops
  <2> QED
    BY <2>2, <2>3, <2>4, <2>5
<1> HIDE DEF T
<1>4. Nat \subseteq T
  BY <1>2, <1>3, NatInd
<1> QED
  BY <1>0, <1>4 DEF T

(* The blocks of a column, without the walk.                               *)
LEMMA Chained == StoreInv => BlocksChain
<1> SUFFICES ASSUME StoreInv, NEW c \in Column
             PROVE  /\ First(c) \in Blocks(c)
                    /\ Blocks(c) \subseteq 0 .. Len(data)
                    /\ Closed(Blocks(c))
                    /\ \A S : First(c) \in S /\ Closed(S) => Blocks(c) \subseteq S
  BY DEF BlocksChain
<1>0. Len(data) \in Nat
  BY DataType DEF StoreInv
<1>1. PICK nth : /\ IsWalk(nth, c, Len(data))
                 /\ Blocks(c) = {nth[n] : n \in 0 .. Len(data)} \ {NoBlock}
  BY <1>0, BlocksWalk
<1>2. \A n \in 0 .. Len(data) : nth[n] = IF n = 0 THEN First(c) ELSE Follow(nth[n - 1])
  BY <1>1 DEF IsWalk
<1>3. \A n \in 0 .. Len(data) : nth[n] = NoBlock \/ nth[n] \in n .. Len(data)
  BY <1>1, WalkForward
<1>4. First(c) \in Blocks(c)
  <2>1. First(c) # NoBlock
    BY StoreAssumption DEF First, Column, NoBlock
  <2> QED
    BY <1>0, <1>1, <1>2, <2>1
<1>5. Blocks(c) \subseteq 0 .. Len(data)
  BY <1>0, <1>1, <1>3
<1>6. ASSUME NEW a \in Blocks(c), a \in 0 .. Len(data), ~Stops(a)
      PROVE  Stored(a).next \in Blocks(c)
  <2>1. PICK n \in 0 .. Len(data) : a = nth[n]
    BY <1>1, <1>6
  <2>2. n < Len(data)
    BY <1>0, <1>3, <1>6, <2>1 DEF Stops, IsStored, NoBlock
  <2>3. nth[n + 1] = Follow(a)
    BY <1>0, <1>2, <2>1, <2>2
  <2>4. Stored(a).next \in a + 1 .. Len(data) /\ Follow(a) = Stored(a).next
    BY <1>6, LinkLater
  <2>5. n + 1 \in 0 .. Len(data) /\ nth[n + 1] # NoBlock
    BY <1>0, <1>6, <2>2, <2>3, <2>4 DEF NoBlock
  <2>6. nth[n + 1] \in Blocks(c)
    BY <1>1, <2>5
  <2> QED
    BY <2>3, <2>4, <2>6
<1>7. ASSUME NEW S, First(c) \in S, Closed(S)
      PROVE  Blocks(c) \subseteq S
  <2> DEFINE T == {n \in Nat : n <= Len(data) => nth[n] = NoBlock \/ nth[n] \in S}
  <2>1. 0 \in T
    BY <1>0, <1>2, <1>7
  <2>2. ASSUME NEW n \in Nat, n \in T PROVE n + 1 \in T
    <3>1. SUFFICES ASSUME n + 1 <= Len(data) PROVE nth[n + 1] = NoBlock \/ nth[n + 1] \in S
      OBVIOUS
    <3>2. /\ nth[n + 1] = Follow(nth[n])
          /\ nth[n] = NoBlock \/ nth[n] \in S
          /\ nth[n] = NoBlock \/ nth[n] \in 0 .. Len(data)
      BY <1>0, <1>2, <1>3, <2>2, <3>1
    <3>3. CASE nth[n] = NoBlock
      BY <3>2, <3>3 DEF Follow
    <3>4. CASE nth[n] # NoBlock /\ ~Stops(nth[n])
      BY <1>7, <3>2, <3>4, LinkLater DEF Closed
    <3>5. CASE Stops(nth[n])
      BY <3>2, <3>5 DEF Follow, Stops
    <3> QED
      BY <3>3, <3>4, <3>5
  <2> HIDE DEF T
  <2>3. Nat \subseteq T
    BY <2>1, <2>2, NatInd
  <2> QED
    BY <1>0, <1>1, <2>3 DEF T
<1> QED
  BY <1>4, <1>5, <1>6, <1>7 DEF Closed

-----------------------------------------------------------------------------
(* A column's first block is the first one in the file's order, too.       *)
LEMMA FirstLeast ==
  ASSUME StoreInv, NEW c \in Column
  PROVE  \A a \in Blocks(c) : First(c) <= a
<1>1. /\ First(c) \in Blocks(c) /\ First(c) \in Nat
      /\ Blocks(c) \subseteq 0 .. Len(data) /\ Len(data) \in Nat
      /\ Closed(Blocks(c))
      /\ \A S : First(c) \in S /\ Closed(S) => Blocks(c) \subseteq S
  BY Chained, DataType, StoreAssumption DEF BlocksChain, StoreInv, First, Column
<1> DEFINE S == {a \in Blocks(c) : First(c) <= a}
<1>2. First(c) \in S
  BY <1>1
<1>3. Closed(S)
  BY <1>1, LinkLater DEF Closed
<1> HIDE DEF S
<1>4. Blocks(c) \subseteq S
  BY <1>1, <1>2, <1>3
<1> QED
  BY <1>4 DEF S

(* The blocks of a chain are in the file's order.                          *)
LEMMA ChainOrdered == StoreInv => Ordered
<1> SUFFICES ASSUME StoreInv, NEW c \in Column PROVE
               \A a, b \in Blocks(c) : a < b => ~Stops(a) /\ Stored(a).next <= b
  BY DEF Ordered
<1>1. /\ First(c) \in Blocks(c) /\ First(c) \in Nat
      /\ Blocks(c) \subseteq 0 .. Len(data) /\ Len(data) \in Nat
      /\ Closed(Blocks(c))
      /\ \A S : First(c) \in S /\ Closed(S) => Blocks(c) \subseteq S
  BY Chained, DataType, StoreAssumption DEF BlocksChain, StoreInv, First, Column
<1>2. \A a \in Blocks(c) : ~Stops(a) => /\ Stored(a).next \in Blocks(c)
                                        /\ Stored(a).next \in a + 1 .. Len(data)
  BY <1>1, LinkLater DEF Closed
<1>3. \A a \in Blocks(c) : First(c) <= a
  BY FirstLeast
<1> DEFINE Before(b) == \A a \in Blocks(c) : a < b => ~Stops(a) /\ Stored(a).next <= b
<1> DEFINE S == {b \in Blocks(c) : Before(b)}
<1>4. First(c) \in S
  BY <1>1, <1>3
<1>5. ASSUME NEW b \in S, ~Stops(b) PROVE Stored(b).next \in S
  <2>1. b \in Blocks(c) /\ b \in Nat /\ Stored(b).next \in Blocks(c) /\ Stored(b).next \in b + 1 .. Len(data)
    BY <1>1, <1>2, <1>5
  <2> DEFINE B == {a \in Blocks(c) : a <= b \/ Stored(b).next <= a}
  <2>2. First(c) \in B
    BY <1>1, <1>3, <2>1
  <2>3. ASSUME NEW a \in B, ~Stops(a) PROVE Stored(a).next \in B
    <3>1. a \in Blocks(c) /\ a \in Nat /\ Stored(a).next \in Blocks(c) /\ Stored(a).next \in a + 1 .. Len(data)
      BY <1>1, <1>2, <2>3
    <3>2. a < b => Stored(a).next <= b
      BY <1>5, <3>1
    <3>3. a < b \/ a = b \/ Stored(b).next <= a
      BY <2>1, <3>1
    <3> QED
      BY <2>1, <3>1, <3>2, <3>3
  <2>4. Blocks(c) \subseteq B
    <3>1. Closed(B)
      BY <2>3 DEF Closed
    <3> HIDE DEF B
    <3> QED
      BY <1>1, <2>2, <3>1
  <2>5. ASSUME NEW a \in Blocks(c), a < Stored(b).next
        PROVE  ~Stops(a) /\ Stored(a).next <= Stored(b).next
    <3>1. a <= b /\ a \in Nat
      BY <1>1, <2>1, <2>4, <2>5
    <3>2. CASE a = b
      BY <1>5, <2>1, <3>2
    <3>3. CASE a < b
      <4>1. ~Stops(a) /\ Stored(a).next <= b
        BY <1>5, <3>3
      <4>2. Stored(a).next \in a + 1 .. Len(data)
        BY <1>2, <4>1
      <4> QED
        BY <2>1, <4>1, <4>2
    <3> QED
      BY <2>1, <3>1, <3>2, <3>3
  <2> QED
    BY <2>1, <2>5
<1>6. Closed(S)
  BY <1>5 DEF Closed
<1>7. Blocks(c) \subseteq S
  <2> HIDE DEF S
  <2> QED
    BY <1>1, <1>4, <1>6
<1> QED
  BY <1>7

(* How links may change: a block that leads on keeps its link, blocks are  *)
(* never taken from the file.                                              *)
LinksKept ==
  /\ Len(data) <= Len(data')
  /\ \A a \in 0 .. Len(data) : ~Stops(a) => ~Stops(a)' /\ Stored(a).next = Stored(a).next'

(* Then chains only grow ...                                               *)
LEMMA ChainsGrow ==
  ASSUME StoreInv, StoreInv', LinksKept
  PROVE  \A c \in Column : Blocks(c) \subseteq Blocks(c)'
<1> SUFFICES ASSUME NEW c \in Column PROVE Blocks(c) \subseteq Blocks(c)'
  OBVIOUS
<1>1. BlocksChain /\ Len(data) \in Nat
  BY Chained, DataType DEF StoreInv
<1>2. BlocksChain'
  BY Chained, PTL
<1>3. data' \in Seq(DataBlock) /\ Len(data') \in Nat
  <2>1. data' \in Seq(DataBlock)
    BY DEF StoreInv, TypeOK, DataBlock
  <2> QED
    BY <2>1, LenProperties
<1>4. PICK S : S = Blocks(c)'
  OBVIOUS
<1>5. First(c) \in S
  BY <1>2, <1>4 DEF BlocksChain, First
<1>6. Closed(S)
  <2>1. ASSUME NEW a \in S, a \in 0 .. Len(data), ~Stops(a) PROVE Stored(a).next \in S
    <3>1. a \in 0 .. Len(data') /\ ~Stops(a)' /\ Stored(a).next = Stored(a).next'
      BY <1>1, <1>3, <2>1 DEF LinksKept
    <3> QED
      BY <1>2, <1>4, <2>1, <3>1 DEF BlocksChain, Closed
  <2> QED
    BY <2>1 DEF Closed
<1> QED
  BY <1>1, <1>4, <1>5, <1>6 DEF BlocksChain

(* ... and a set that the new links do not leave has all of a chain whose  *)
(* first block it has.                                                     *)
LEMMA ChainWithin ==
  ASSUME StoreInv', NEW c \in Column, NEW S, First(c) \in S,
         \A a \in S : a \in 0 .. Len(data') /\ ~Stops(a)' => Stored(a).next' \in S
  PROVE  Blocks(c)' \subseteq S
<1>1. BlocksChain'
  BY Chained, PTL
<1> QED
  BY <1>1 DEF BlocksChain, Closed, First

-----------------------------------------------------------------------------
(* What the steps do to the blocks, by their addresses.                    *)
LinksSame ==
  /\ Len(data') = Len(data)
  /\ \A a \in 0 .. Len(data) : (~Stops(a)' <=> ~Stops(a)) /\ (~Stops(a) => Stored(a).next' = Stored(a).next)

LEMMA ChainsSame ==
  ASSUME StoreInv, StoreInv', LinksSame
  PROVE  \A c \in Column : Blocks(c)' = Blocks(c)
<1> SUFFICES ASSUME NEW c \in Column PROVE Blocks(c)' = Blocks(c)
  OBVIOUS
<1>1. BlocksChain /\ Len(data) \in Nat
  BY Chained, DataType DEF StoreInv
<1>2. LinksKept
  BY <1>1 DEF LinksSame, LinksKept
<1>3. Blocks(c) \subseteq Blocks(c)'
  BY <1>2, ChainsGrow
<1>4. PICK S : S = Blocks(c)
  OBVIOUS
<1>5. First(c) \in S
  BY <1>1, <1>4 DEF BlocksChain
<1>6. \A a \in S : a \in 0 .. Len(data') /\ ~Stops(a)' => Stored(a).next' \in S
  BY <1>1, <1>4 DEF BlocksChain, Closed, LinksSame
<1>7. Blocks(c)' \subseteq S
  BY <1>5, <1>6, ChainWithin
<1> QED
  BY <1>3, <1>4, <1>7

LEMMA FileSame ==
  ASSUME StoreInv, StoreInv', UNCHANGED data
  PROVE  /\ \A c \in Column : Blocks(c)' = Blocks(c)
         /\ \A a \in Nat : /\ IsStored(a)' <=> IsStored(a)
                           /\ Stored(a)' = Stored(a)
                           /\ Values(a)' = Values(a)
<1>1. LinksSame
  BY DEF LinksSame, Stops, IsStored, IsLast, Stored
<1>2. \A c \in Column : Blocks(c)' = Blocks(c)
  BY <1>1, ChainsSame
<1> QED
  BY <1>2 DEF IsStored, Stored, Values

(* A value inserted into a block.                                          *)
LEMMA InsertValueFile ==
  ASSUME StoreInv, StoreInv', NEW k \in Client, InsertValue(k), NEW a \in Nat, a = at[k]
  PROVE  /\ \A c \in Column : Blocks(c)' = Blocks(c)
         /\ Len(data') = Len(data)
         /\ row[k] \in Row /\ IsStored(a) /\ IsLast(a)
         /\ \A x \in Nat : IsStored(x)' <=> IsStored(x)
         /\ \A x \in Nat : IsStored(x) /\ x # a => Stored(x)' = Stored(x)
         /\ Stored(a)'.values = <<row[k]>> \o Stored(a).values
         /\ Stored(a).values \in Seq(Row)
<1> DEFINE size == Size[col[k]][row[k]]
           b == InsertData(data[a + 1], row[k], size)
<1>1. /\ row[k] \in Row /\ size \in Nat /\ a + 1 \in 1 .. Len(data)
      /\ data[a + 1].next = Null
      /\ Len(data') = Len(data)
      /\ \A i \in 1 .. Len(data) : data'[i] = IF i = a + 1 THEN b ELSE data[i]
  BY ValueInserted
<1>2. data[a + 1] \in DataBlock /\ Len(data) \in Nat
  BY <1>1, DataType DEF StoreInv
<1>3. b = [values |-> <<row[k]>> \o data[a + 1].values, used |-> data[a + 1].used + size,
           next |-> data[a + 1].next]
  BY <1>1, <1>2, InsertDataProperties
<1>4. b.next = Null /\ b.values = <<row[k]>> \o data[a + 1].values
  BY <1>1, <1>3
<1> HIDE DEF b, size
<1>5. \A x \in Nat : IsStored(x)' <=> IsStored(x)
  BY <1>1 DEF IsStored
<1>6. \A x \in Nat : IsStored(x) /\ x # a => Stored(x)' = Stored(x)
  BY <1>1, <1>2 DEF IsStored, Stored
<1>7. /\ Stored(a) = data[a + 1] /\ Stored(a)' = b /\ IsStored(a) /\ IsLast(a) /\ IsLast(a)'
  BY <1>1, <1>2, <1>4 DEF Stored, IsStored, IsLast
<1>8. LinksSame
  <2>1. ASSUME NEW x \in 0 .. Len(data)
        PROVE  (~Stops(x)' <=> ~Stops(x)) /\ (~Stops(x) => Stored(x).next' = Stored(x).next)
    <3>1. CASE x = a
      BY <1>7, <3>1 DEF Stops
    <3>2. CASE x # a
      BY <1>2, <1>5, <1>6, <3>2 DEF Stops, IsLast
    <3> QED
      BY <3>1, <3>2
  <2> QED
    BY <1>1, <2>1 DEF LinksSame
<1>9. \A c \in Column : Blocks(c)' = Blocks(c)
  BY <1>8, ChainsSame
<1>10. Stored(a).values \in Seq(Row)
  BY <1>2, <1>7 DEF DataBlock
<1> QED
  BY <1>1, <1>4, <1>5, <1>6, <1>7, <1>9, <1>10

(* A chain's last block linked to the end of the file.                     *)
LEMMA LinkNewBlockFile ==
  ASSUME StoreInv, StoreInv', NEW k \in Client, LinkNewBlock(k), NEW a \in Nat, a = at[k]
  PROVE  /\ LinksKept
         /\ Len(data') = Len(data)
         /\ IsStored(a) /\ IsLast(a) /\ ~Stops(a)' /\ Stored(a)'.next = Len(data)
         /\ \A x \in Nat : IsStored(x)' <=> IsStored(x)
         /\ \A x \in Nat : IsStored(x) => Values(x)' = Values(x) /\ Stored(x)'.values = Stored(x).values
         /\ \A c \in Column : Blocks(c)' \subseteq Blocks(c) \cup {Len(data)}
         /\ \A c \in Column : a \notin Blocks(c) => Blocks(c)' = Blocks(c)
<1> DEFINE b == [values |-> data[a + 1].values, used |-> data[a + 1].used, next |-> Len(data)]
<1>1. /\ a + 1 \in 1 .. Len(data) /\ data[a + 1].next = Null
      /\ Len(data') = Len(data)
      /\ \A i \in 1 .. Len(data) : data'[i] = IF i = a + 1 THEN b ELSE data[i]
  BY BlockLinked
<1>2. Len(data) \in Nat /\ Len(data) > 0 /\ b.next = Len(data) /\ b.values = data[a + 1].values
  BY <1>1, DataType DEF StoreInv
<1> HIDE DEF b
<1>3. \A x \in Nat : IsStored(x)' <=> IsStored(x)
  BY <1>1 DEF IsStored
<1>4. \A x \in Nat : IsStored(x) /\ x # a => Stored(x)' = Stored(x)
  BY <1>1, <1>2 DEF IsStored, Stored
<1>5. Stored(a) = data[a + 1] /\ Stored(a)' = b /\ IsStored(a) /\ IsLast(a) /\ ~Stops(a)'
  BY <1>1, <1>2 DEF Stored, IsStored, IsLast, Stops, Null
<1>6. \A x \in Nat : IsStored(x) => Stored(x)'.values = Stored(x).values
  BY <1>2, <1>4, <1>5
<1>7. \A x \in Nat : IsStored(x) => Values(x)' = Values(x)
  BY <1>6 DEF Values
<1>8. \A x \in 0 .. Len(data) : x # a => /\ Stops(x)' <=> Stops(x)
                                         /\ ~Stops(x) => Stored(x).next' = Stored(x).next
  BY <1>2, <1>3, <1>4 DEF Stops, IsLast
<1>9. LinksKept
  <2>1. Stops(a)
    BY <1>5 DEF Stops
  <2> QED
    BY <1>1, <1>2, <1>8, <2>1 DEF LinksKept
<1>10. BlocksChain /\ \A c \in Column : Blocks(c) \subseteq Blocks(c)'
  BY <1>9, Chained, ChainsGrow
<1>11. ASSUME NEW c \in Column PROVE Blocks(c)' \subseteq Blocks(c) \cup {Len(data)}
  <2>1. PICK S : S = Blocks(c) \cup {Len(data)}
    OBVIOUS
  <2>2. First(c) \in S
    BY <1>10, <2>1 DEF BlocksChain
  <2>3. ASSUME NEW x \in S, x \in 0 .. Len(data'), ~Stops(x)' PROVE Stored(x).next' \in S
    <3>1. CASE x = a
      BY <1>2, <1>5, <2>1, <3>1
    <3>2. CASE x # a
      <4>1. ~Stops(x) /\ Stored(x).next' = Stored(x).next /\ x \in 0 .. Len(data)
        BY <1>1, <1>8, <2>3, <3>2
      <4>2. x # Len(data)
        BY <4>1, <1>2 DEF Stops, IsStored
      <4> QED
        BY <1>10, <2>1, <2>3, <4>1, <4>2 DEF BlocksChain, Closed
    <3> QED
      BY <3>1, <3>2
  <2>4. Blocks(c)' \subseteq S
    BY <2>2, <2>3, ChainWithin
  <2> QED
    BY <2>1, <2>4
<1>12. ASSUME NEW c \in Column, a \notin Blocks(c) PROVE Blocks(c)' = Blocks(c)
  <2>1. PICK S : S = Blocks(c)
    OBVIOUS
  <2>2. First(c) \in S
    BY <1>10, <2>1 DEF BlocksChain
  <2>3. ASSUME NEW x \in S, x \in 0 .. Len(data'), ~Stops(x)' PROVE Stored(x).next' \in S
    <3>1. ~Stops(x) /\ Stored(x).next' = Stored(x).next /\ x \in 0 .. Len(data)
      BY <1>1, <1>8, <1>12, <2>1, <2>3
    <3> QED
      BY <1>10, <2>1, <2>3, <3>1 DEF BlocksChain, Closed
  <2>4. Blocks(c)' \subseteq S
    BY <2>2, <2>3, ChainWithin
  <2> QED
    BY <1>10, <2>1, <2>4
<1> QED
  BY <1>1, <1>2, <1>3, <1>5, <1>6, <1>7, <1>9, <1>11, <1>12

(* A new block at the end of the file.                                     *)
LEMMA FillNewBlockFile ==
  ASSUME StoreInv, StoreInv', NEW k \in Client, FillNewBlock(k), NEW a \in Nat, a = at[k]
  PROVE  /\ a = Len(data) /\ Len(data') = a + 1
         /\ \A x \in Nat : IsStored(x) => IsStored(x)' /\ Stored(x)' = Stored(x) /\ Values(x)' = Values(x)
         /\ \A x \in Nat : IsStored(x)' <=> IsStored(x) \/ x = a
         /\ Stored(a)'.values = <<row[k]>> /\ Stops(a)'
         /\ \A c \in Column : Blocks(c)' = Blocks(c)
<1> DEFINE b == [values |-> <<row[k]>>, used |-> Size[col[k]][row[k]], next |-> Null]
<1>1. /\ a = Len(data) /\ Len(data') = Len(data) + 1
      /\ \A i \in 1 .. Len(data) : data'[i] = data[i]
      /\ data'[a + 1] = b
  BY BlockFilled
<1>2. Len(data) \in Nat /\ b.next = Null /\ b.values = <<row[k]>>
  BY <1>1, DataType DEF StoreInv
<1> HIDE DEF b
<1>3. \A x \in Nat : IsStored(x) => IsStored(x)' /\ Stored(x)' = Stored(x)
  BY <1>1, <1>2 DEF IsStored, Stored
<1>4. \A x \in Nat : IsStored(x)' <=> IsStored(x) \/ x = a
  BY <1>1, <1>2 DEF IsStored
<1>5. Stored(a)'.values = <<row[k]>> /\ Stops(a)' /\ Stops(a)
  BY <1>1, <1>2 DEF Stops, IsLast, IsStored, Stored
<1>6. \A x \in 0 .. Len(data) : /\ ~Stops(x)' <=> ~Stops(x)
                                /\ ~Stops(x) => Stored(x).next' = Stored(x).next
  <2>1. ASSUME NEW x \in 0 .. Len(data), x # a
        PROVE  (~Stops(x)' <=> ~Stops(x)) /\ Stored(x).next' = Stored(x).next
    <3>1. IsStored(x) /\ IsStored(x)' /\ Stored(x)' = Stored(x)
      BY <1>1, <1>2, <1>3, <2>1 DEF IsStored
    <3> QED
      BY <3>1 DEF Stops, IsLast
  <2> QED
    BY <1>5, <2>1
<1>7. LinksKept
  BY <1>1, <1>2, <1>6 DEF LinksKept
<1>8. BlocksChain /\ \A c \in Column : Blocks(c) \subseteq Blocks(c)'
  BY <1>7, Chained, ChainsGrow
<1>9. ASSUME NEW c \in Column PROVE Blocks(c)' = Blocks(c)
  <2>1. PICK S : S = Blocks(c)
    OBVIOUS
  <2>2. First(c) \in S /\ S \subseteq 0 .. Len(data)
    BY <1>8, <2>1 DEF BlocksChain
  <2>3. ASSUME NEW x \in S, x \in 0 .. Len(data'), ~Stops(x)' PROVE Stored(x).next' \in S
    BY <1>6, <1>8, <2>1, <2>2, <2>3 DEF BlocksChain, Closed
  <2>4. Blocks(c)' \subseteq S
    BY <2>2, <2>3, ChainWithin
  <2> QED
    BY <1>8, <2>1, <2>4
<1> QED
  BY <1>1, <1>2, <1>3, <1>4, <1>5, <1>9 DEF Values

(* The steps that change the file, and those that do not.                  *)
LEMMA FileSteps ==
  ASSUME [Next]_vars
  PROVE  \/ \E k \in Client : InsertValue(k) \/ LinkNewBlock(k) \/ FillNewBlock(k)
         \/ UNCHANGED data
<1>1. ASSUME NEW k \in Client,
             \/ Insert(k) \/ Select(k) \/ FollowLink(k) \/ ReleaseOther(k)
             \/ ScanBlock(k) \/ ScanLastBlock(k) \/ Meet(k) \/ ReadBeyondEnd(k)
      PROVE  UNCHANGED data
  <2>1. CASE Insert(k) \/ Select(k) \/ FollowLink(k) \/ ReleaseOther(k)
    BY <2>1 DEF Insert, Select, Begin, FollowLink, ReleaseOther
  <2>2. CASE ScanBlock(k) \/ ScanLastBlock(k) \/ Meet(k) \/ ReadBeyondEnd(k)
    BY <2>2 DEF ScanBlock, ScanLastBlock, Meet, ReadBeyondEnd
  <2> QED
    BY <1>1, <2>1, <2>2
<1>2. Crash \/ UNCHANGED vars => UNCHANGED data
  BY DEF Crash, vars
<1> QED
  BY <1>1, <1>2 DEF Next

(* The values of a block with one more.                                    *)
LEMMA OneMoreValue ==
  ASSUME StoreInv, StoreInv', NEW k \in Client, InsertValue(k), NEW a \in Nat, a = at[k]
  PROVE  Values(a)' = Values(a) \cup {row[k]}
<1> DEFINE old == Stored(a).values
           new == <<row[k]>> \o old
<1>1. old \in Seq(Row) /\ row[k] \in Row /\ Stored(a)'.values = new
  BY InsertValueFile
<1>2. /\ new \in Seq(Row) /\ Len(new) = 1 + Len(old) /\ Len(old) \in Nat
      /\ \A i \in 1 .. 1 + Len(old) : new[i] = IF i <= 1 THEN <<row[k]>>[i] ELSE old[i - 1]
  BY <1>1, ConcatProperties, LenProperties
<1>3. DOMAIN old = 1 .. Len(old) /\ DOMAIN new = 1 .. Len(old) + 1
  BY <1>1, <1>2, LenProperties
<1>4. Values(a) = {old[i] : i \in 1 .. Len(old)}
  BY <1>3 DEF Values
<1> HIDE DEF new
<1>5. Values(a)' = {new[i] : i \in 1 .. Len(old) + 1}
  <2>1. Values(a)' = {Stored(a)'.values[i] : i \in DOMAIN Stored(a)'.values}
    BY DEF Values
  <2> QED
    BY <1>1, <1>3, <2>1
<1> HIDE DEF old
<1>6. new[1] = row[k] /\ \A i \in 1 .. Len(old) : new[i + 1] = old[i]
  BY <1>1, <1>2
<1>7. \A i \in 1 .. Len(old) + 1 : i = 1 \/ i - 1 \in 1 .. Len(old)
  BY <1>2
<1>8. \A v \in Values(a)' : v \in Values(a) \cup {row[k]}
  <2>1. \A i \in 1 .. Len(old) + 1 :
          new[i] = row[k] \/ (i - 1 \in 1 .. Len(old) /\ new[i] = old[i - 1])
    <3>1. TAKE i \in 1 .. Len(old) + 1
    <3>2. CASE i = 1
      BY <1>6, <3>2
    <3>3. CASE i - 1 \in 1 .. Len(old)
      <4>1. new[(i - 1) + 1] = old[i - 1]
        BY <1>6, <3>3
      <4>2. (i - 1) + 1 = i
        BY <1>2, <3>1
      <4> QED
        BY <3>3, <4>1, <4>2
    <3> QED
      BY <1>7, <3>2, <3>3
  <2>2. \A i \in 1 .. Len(old) : old[i] \in Values(a)
    BY <1>4
  <2> QED
    BY <1>5, <2>1, <2>2
<1>9. \A v \in Values(a) : v \in Values(a)'
  BY <1>2, <1>4, <1>5, <1>6
<1>10. row[k] \in Values(a)'
  BY <1>2, <1>5, <1>6
<1> QED
  BY <1>8, <1>9, <1>10

(* Whatever the step, chains and the values of blocks only grow.           *)
LEMMA NothingGone ==
  ASSUME StoreInv, StoreInv', [Next]_vars
  PROVE  /\ \A c \in Column : Blocks(c) \subseteq Blocks(c)'
         /\ \A a \in Nat : IsStored(a) => IsStored(a)' /\ Values(a) \subseteq Values(a)'
<1>1. CASE UNCHANGED data
  BY <1>1, FileSame
<1>2. ASSUME NEW k \in Client, InsertValue(k)
      PROVE  /\ \A c \in Column : Blocks(c) \subseteq Blocks(c)'
             /\ \A a \in Nat : IsStored(a) => IsStored(a)' /\ Values(a) \subseteq Values(a)'
  <2>1. PICK a \in Nat : a = at[k]
    BY DEF StoreInv, TypeOK
  <2>2. Values(a)' = Values(a) \cup {row[k]}
    BY <1>2, <2>1, OneMoreValue
  <2>3. \A x \in Nat : IsStored(x) /\ x # a => Values(x)' = Values(x)
    BY <1>2, <2>1, InsertValueFile DEF Values
  <2> QED
    BY <1>2, <2>1, <2>2, <2>3, InsertValueFile
<1>3. ASSUME NEW k \in Client, LinkNewBlock(k) \/ FillNewBlock(k)
      PROVE  /\ \A c \in Column : Blocks(c) \subseteq Blocks(c)'
             /\ \A a \in Nat : IsStored(a) => IsStored(a)' /\ Values(a) \subseteq Values(a)'
  <2>1. PICK a \in Nat : a = at[k]
    BY DEF StoreInv, TypeOK
  <2>2. CASE LinkNewBlock(k)
    BY <2>1, <2>2, LinkNewBlockFile, ChainsGrow
  <2>3. CASE FillNewBlock(k)
    BY <2>1, <2>3, FillNewBlockFile
  <2> QED
    BY <1>3, <2>2, <2>3
<1> QED
  BY <1>1, <1>2, <1>3, FileSteps

-----------------------------------------------------------------------------
(* Statements stay on their columns' chains.                               *)
LEMMA ReachedBegin ==
  ASSUME KeptInv, StoreInv', NEW k \in Client, Insert(k) \/ Select(k)
  PROVE  Reached'
<1>1. PICK s : Begin(k, s)
  BY DEF Insert, Select
<1>2. /\ at'[k] = First(1) /\ col'[k] = 1
      /\ \A j \in Client \ {k} : stmt'[j] = stmt[j] /\ at'[j] = at[j] /\ col'[j] = col[j]
      /\ UNCHANGED data
  BY <1>1 DEF Begin, KeptInv, StoreInv, TypeOK
<1>3. BlocksChain'
  BY Chained, PTL
<1>4. First(1) \in Blocks(1)'
  <2>1. 1 \in Column
    BY StoreAssumption DEF Column
  <2> QED
    BY <1>3, <2>1 DEF BlocksChain, First
<1>5. \A c \in Column : Blocks(c)' = Blocks(c)
  BY <1>2, FileSame DEF KeptInv
<1> QED
  BY <1>2, <1>4, <1>5 DEF Reached, KeptInv

LEMMA ReachedFollow ==
  ASSUME KeptInv, StoreInv', NEW k \in Client, FollowLink(k) \/ ScanBlock(k)
  PROVE  /\ Reached'
         /\ \A c \in Column : Blocks(c)' = Blocks(c)
         /\ \A c \in Column : col[k] = c => at'[k] \in Blocks(c)
<1>1. /\ at' = [at EXCEPT ![k] = Stored(at[k]).next]
      /\ ~Stops(at[k]) /\ stmt[k] # Idle /\ UNCHANGED <<data, stmt, col>>
  BY DEF FollowLink, ScanBlock, Visit, Stops, NextBlock, Idle
<1>2. BlocksChain /\ at \in [Client -> Nat] /\ col[k] \in Column
  BY Chained DEF KeptInv, StoreInv, TypeOK
<1>3. \A c \in Column : col[k] = c => Stored(at[k]).next \in Blocks(c)
  BY <1>1, <1>2 DEF KeptInv, Reached, BlocksChain, Closed
<1>4. \A c \in Column : Blocks(c)' = Blocks(c)
  BY <1>1, FileSame DEF KeptInv
<1>5. at'[k] = Stored(at[k]).next /\ \A j \in Client \ {k} : at'[j] = at[j]
  BY <1>1, <1>2
<1>6. Reached'
  <2>1. ASSUME NEW j \in Client, NEW c \in Column, stmt[j] # Idle, col[j] = c
        PROVE  at'[j] \in Blocks(c)
    BY <1>3, <1>5, <2>1 DEF KeptInv, Reached
  <2> QED
    BY <1>1, <1>4, <2>1 DEF Reached
<1> QED
  BY <1>3, <1>4, <1>5, <1>6

LEMMA ReachedNextColumn ==
  ASSUME KeptInv, StoreInv', NEW k \in Client, NEW s \in {"insert", "select"}, NextColumn(k, s),
         \A c \in Column : Blocks(c) \subseteq Blocks(c)'
  PROVE  Reached'
<1>1. /\ \A j \in Client \ {k} : stmt'[j] = stmt[j] /\ col'[j] = col[j] /\ at'[j] = at[j]
      /\ \/ stmt'[k] = s /\ col'[k] = col[k] + 1 /\ at'[k] = First(col[k] + 1)
         \/ stmt'[k] = Idle /\ col[k] = Columns
      /\ col'[k] \in Column
  BY NextColumnProperties DEF KeptInv, StoreInv
<1>2. BlocksChain'
  BY Chained, PTL
<1>3. \A c \in Column : First(c) \in Blocks(c)'
  BY <1>2 DEF BlocksChain, First
<1>4. ASSUME NEW j \in Client, NEW c \in Column, stmt'[j] # Idle, col'[j] = c
      PROVE  at'[j] \in Blocks(c)'
  BY <1>1, <1>3, <1>4 DEF KeptInv, Reached
<1> QED
  BY <1>4 DEF Reached

LEMMA ReachedLink ==
  ASSUME KeptInv, StoreInv', NEW k \in Client, LinkNewBlock(k),
         \A c \in Column : Blocks(c) \subseteq Blocks(c)'
  PROVE  Reached'
<1>1. PICK a \in Nat : a = at[k]
  BY DEF KeptInv, StoreInv, TypeOK
<1>2. ~Stops(a)' /\ Stored(a)'.next = Len(data) /\ Len(data') = Len(data) /\ IsStored(a)
  BY <1>1, LinkNewBlockFile DEF KeptInv
<1>3. /\ at'[k] = Len(data) /\ stmt[k] = "insert" /\ UNCHANGED col
      /\ \A j \in Client \ {k} : stmt'[j] = stmt[j] /\ at'[j] = at[j]
  BY DEF LinkNewBlock, NewBlockAddress, KeptInv, StoreInv, TypeOK, Visit
<1>4. BlocksChain'
  BY Chained, PTL
<1>5. ASSUME NEW c \in Column, col[k] = c PROVE Len(data) \in Blocks(c)'
  <2>1. a \in Blocks(c)'
    BY <1>1, <1>3, <1>5 DEF KeptInv, Reached, Idle
  <2>2. Len(data) \in Nat /\ a \in 0 .. Len(data')
    BY <1>1, <1>2, DataType DEF KeptInv, StoreInv, IsStored
  <2> QED
    BY <1>2, <1>4, <2>1, <2>2 DEF BlocksChain, Closed
<1>6. ASSUME NEW j \in Client, NEW c \in Column, stmt'[j] # Idle, col'[j] = c
      PROVE  at'[j] \in Blocks(c)'
  BY <1>3, <1>5, <1>6 DEF KeptInv, Reached
<1> QED
  BY <1>6 DEF Reached

LEMMA ReachedNext ==
  ASSUME KeptInv, StoreInv', [Next]_vars
  PROVE  Reached'
<1>1. \A c \in Column : Blocks(c) \subseteq Blocks(c)'
  BY NothingGone DEF KeptInv
<1>2. ASSUME NEW k \in Client, \/ Insert(k) \/ Select(k) \/ FollowLink(k) \/ InsertValue(k)
                               \/ LinkNewBlock(k) \/ FillNewBlock(k) \/ ScanBlock(k)
                               \/ ScanLastBlock(k)
      PROVE  Reached'
  <2>1. InsertValue(k) \/ FillNewBlock(k) \/ ScanLastBlock(k)
          => \E s \in {"insert", "select"} : NextColumn(k, s)
    BY DEF InsertValue, FillNewBlock, ScanLastBlock
  <2> QED
    BY <1>1, <1>2, <2>1, ReachedBegin, ReachedFollow, ReachedLink, ReachedNextColumn
<1>3. ASSUME UNCHANGED <<stmt, col, at>> PROVE Reached'
  BY <1>1, <1>3 DEF KeptInv, Reached
<1>4. CASE Crash
  BY <1>4 DEF Crash, Reached
<1>5. (\E k \in Client : ReleaseOther(k) \/ Meet(k) \/ ReadBeyondEnd(k)) \/ UNCHANGED vars
        => UNCHANGED <<stmt, col, at>>
  BY DEF ReleaseOther, Meet, ReadBeyondEnd, vars, place
<1> QED
  BY <1>2, <1>3, <1>4, <1>5 DEF Next

(* What was written is still there.                                        *)
LEMMA ValuesOfMember ==
  ASSUME NEW c \in Column, NEW a \in Blocks(c), IsStored(a)
  PROVE  Values(a) \subseteq ValuesOf(c)
BY DEF ValuesOf

LEMMA ValuesOfGrow ==
  ASSUME StoreInv, StoreInv', [Next]_vars, NEW c \in Column
  PROVE  ValuesOf(c) \subseteq ValuesOf(c)'
<1>1. Blocks(c) \subseteq Blocks(c)' /\ Blocks(c) \subseteq Nat
  <2>1. Len(data) \in Nat /\ BlocksChain
    BY DataType, Chained DEF StoreInv
  <2> QED
    BY <2>1, NothingGone DEF BlocksChain
<1>2. ASSUME NEW v \in ValuesOf(c) PROVE v \in ValuesOf(c)'
  <2>1. PICK a \in Blocks(c) : IsStored(a) /\ v \in Values(a)
    BY DEF ValuesOf
  <2>2. a \in Blocks(c)' /\ IsStored(a)' /\ v \in Values(a)'
    BY <1>1, <2>1, NothingGone
  <2> QED
    BY <2>2 DEF ValuesOf
<1> QED
  BY <1>2

LEMMA KeptNext ==
  ASSUME KeptInv, StoreInv', [Next]_vars
  PROVE  Kept'
<1>1. \A c \in Column : ValuesOf(c) \subseteq ValuesOf(c)'
  BY ValuesOfGrow DEF KeptInv
<1>2. CASE UNCHANGED written
  BY <1>1, <1>2 DEF KeptInv, Kept
<1>3. ASSUME NEW k \in Client, InsertValue(k) \/ FillNewBlock(k)
      PROVE  Kept'
  <2>1. PICK a \in Nat : a = at[k]
    BY DEF KeptInv, StoreInv, TypeOK
  <2>2. Wrote(k) /\ row[k] \in Row /\ stmt[k] # Idle
    BY <1>3, ValueInserted, BlockFilled DEF KeptInv, InsertValue, FillNewBlock, Visit, Idle
  <2>3. PICK d \in Column : d = col[k]
    BY DEF KeptInv, StoreInv, TypeOK
  <2>4. \A c \in Column : written'[c] = IF c = d THEN written[c] \cup {row[k]} ELSE written[c]
    BY <2>2, <2>3, WrittenType DEF KeptInv
  <2>5. a \in Blocks(d)'
    BY <2>1, <2>2, <2>3, NothingGone DEF KeptInv, Reached
  <2>6. IsStored(a)' /\ row[k] \in Values(a)'
    <3>1. CASE InsertValue(k)
      BY <2>1, <3>1, InsertValueFile, OneMoreValue DEF KeptInv
    <3>2. CASE FillNewBlock(k)
      <4>1. IsStored(a)' /\ Stored(a)'.values = <<row[k]>>
        BY <2>1, <3>2, FillNewBlockFile DEF KeptInv
      <4> QED
        BY <4>1 DEF Values
    <3> QED
      BY <1>3, <3>1, <3>2
  <2>7. row[k] \in ValuesOf(d)'
    BY <2>5, <2>6 DEF ValuesOf
  <2> QED
    BY <1>1, <2>4, <2>7 DEF KeptInv, Kept
<1>4. ASSUME NEW k \in Client,
             \/ Insert(k) \/ Select(k) \/ FollowLink(k) \/ LinkNewBlock(k) \/ ReleaseOther(k)
             \/ ScanBlock(k) \/ ScanLastBlock(k) \/ Meet(k) \/ ReadBeyondEnd(k)
      PROVE  UNCHANGED written
  <2>1. CASE Insert(k) \/ Select(k) \/ FollowLink(k) \/ LinkNewBlock(k) \/ ReleaseOther(k)
    BY <2>1 DEF Insert, Select, Begin, FollowLink, LinkNewBlock, ReleaseOther, history
  <2>2. CASE ScanBlock(k) \/ ScanLastBlock(k) \/ Meet(k) \/ ReadBeyondEnd(k)
    BY <2>2 DEF ScanBlock, ScanLastBlock, Meet, ReadBeyondEnd, history
  <2> QED
    BY <1>4, <2>1, <2>2
<1>5. Crash \/ UNCHANGED vars => UNCHANGED written
  BY DEF Crash, vars, history
<1> QED
  BY <1>2, <1>3, <1>4, <1>5 DEF Next

LEMMA KeptInit == Init => KeptInv
<1> SUFFICES ASSUME Init PROVE KeptInv
  OBVIOUS
<1>1. StoreInv
  BY StoreInit
<1>2. Reached /\ Kept
  BY DEF Init, Reached, Kept, Idle
<1> QED
  BY <1>1, <1>2 DEF KeptInv

LEMMA KeptCorrect == Spec => []KeptInv
<1>1. KeptInv /\ [Next]_vars => KeptInv'
  <2> SUFFICES ASSUME KeptInv, [Next]_vars PROVE KeptInv'
    OBVIOUS
  <2>1. StoreInv'
    BY StoreNext DEF KeptInv
  <2> QED
    BY <2>1, ReachedNext, KeptNext DEF KeptInv
<1> QED
  BY KeptInit, <1>1, PTL DEF Spec

(* A value that reached the file stays in its column's chain, whoever else *)
(* appends to the chain and whenever the process ends: for that the        *)
(* property's own condition, that no two new blocks collide, is not even   *)
(* needed.                                                                 *)
THEOREM ValuesKept == Spec => []NoValueLost
<1>1. KeptInv => NoValueLost
  BY DEF KeptInv, Kept, NoValueLost
<1> QED
  BY <1>1, KeptCorrect, PTL

-----------------------------------------------------------------------------
(* A new block waits for its own INSERT, which no other step disturbs.     *)
LEMMA CrashesCount ==
  ASSUME StoreInv, [Next]_vars, crashes' = 0
  PROVE  crashes = 0 /\ ~Crash
<1>1. crashes \in Nat
  BY StoreAssumption DEF StoreInv, TypeOK
<1>2. ~Crash
  BY <1>1 DEF Crash
<1>3. ASSUME NEW k \in Client,
             \/ Insert(k) \/ Select(k) \/ FollowLink(k) \/ InsertValue(k) \/ LinkNewBlock(k)
             \/ FillNewBlock(k) \/ ReleaseOther(k) \/ ScanBlock(k) \/ ScanLastBlock(k)
             \/ Meet(k) \/ ReadBeyondEnd(k)
      PROVE  UNCHANGED crashes
  <2>1. CASE Insert(k) \/ Select(k) \/ FollowLink(k) \/ InsertValue(k) \/ LinkNewBlock(k)
    BY <2>1 DEF Insert, Select, Begin, FollowLink, InsertValue, LinkNewBlock
  <2>2. CASE \/ FillNewBlock(k) \/ ReleaseOther(k) \/ ScanBlock(k) \/ ScanLastBlock(k)
             \/ Meet(k) \/ ReadBeyondEnd(k)
    BY <2>2 DEF FillNewBlock, ReleaseOther, ScanBlock, ScanLastBlock, Meet, ReadBeyondEnd
  <2> QED
    BY <1>3, <2>1, <2>2
<1> QED
  BY <1>2, <1>3 DEF Next, vars

LEMMA FillsStay ==
  ASSUME StoreInv, [Next]_vars, ~Crash, NEW j \in Client, stmt[j] = "fill", ~FillNewBlock(j)
  PROVE  stmt'[j] = "fill" /\ col'[j] = col[j]
<1>1. ASSUME NEW k \in Client, k # j, Insert(k) \/ Select(k)
      PROVE  stmt'[j] = stmt[j] /\ col'[j] = col[j]
  BY <1>1 DEF Insert, Select, Begin, StoreInv, TypeOK
<1>2. ASSUME NEW k \in Client, k # j, FollowLink(k) \/ ScanBlock(k) \/ LinkNewBlock(k)
      PROVE  stmt'[j] = stmt[j] /\ col'[j] = col[j]
  BY <1>2 DEF FollowLink, ScanBlock, LinkNewBlock, StoreInv, TypeOK
<1>3. ASSUME NEW k \in Client, k # j, InsertValue(k) \/ FillNewBlock(k) \/ ScanLastBlock(k)
      PROVE  stmt'[j] = stmt[j] /\ col'[j] = col[j]
  <2>1. \E s \in {"insert", "select"} : NextColumn(k, s)
    BY <1>3 DEF InsertValue, FillNewBlock, ScanLastBlock
  <2> QED
    BY <1>3, <2>1, NextColumnProperties DEF StoreInv
<1>4. ASSUME NEW k \in Client, ReleaseOther(k) \/ Meet(k) \/ ReadBeyondEnd(k)
      PROVE  stmt'[j] = stmt[j] /\ col'[j] = col[j]
  BY <1>4 DEF ReleaseOther, Meet, ReadBeyondEnd, place
<1>5. ~Insert(j) /\ ~Select(j) /\ ~FollowLink(j) /\ ~InsertValue(j) /\ ~LinkNewBlock(j)
      /\ ~ScanBlock(j) /\ ~ScanLastBlock(j)
  BY DEF Insert, Select, Begin, FollowLink, InsertValue, LinkNewBlock, ScanBlock, ScanLastBlock,
         Visit, Idle
<1>6. UNCHANGED vars => stmt'[j] = stmt[j] /\ col'[j] = col[j]
  BY DEF vars, place
<1> QED
  BY <1>1, <1>2, <1>3, <1>4, <1>5, <1>6 DEF Next

LEMMA ApartLink ==
  ASSUME KeptInv, KeptInv', StoredApart, Pending, NEW k \in Client, LinkNewBlock(k)
  PROVE  StoredApart' /\ Pending'
<1>1. PICK a \in Nat : a = at[k]
  BY DEF KeptInv, StoreInv, TypeOK
<1>2. PICK c \in Column : c = col[k]
  BY DEF KeptInv, StoreInv, TypeOK
<1>3. /\ Len(data') = Len(data) /\ IsStored(a) /\ Len(data) \in Nat
      /\ \A d \in Column : Blocks(d)' \subseteq Blocks(d) \cup {Len(data)}
      /\ \A d \in Column : a \notin Blocks(d) => Blocks(d)' = Blocks(d)
  BY <1>1, LinkNewBlockFile, DataType DEF KeptInv, StoreInv
<1>4. a \in Blocks(c) /\ a # Len(data)
  BY <1>1, <1>2, <1>3 DEF KeptInv, Reached, LinkNewBlock, Visit, Idle, IsStored
<1>5. \A d \in Column : d # c => Blocks(d)' = Blocks(d)
  BY <1>3, <1>4 DEF StoredApart
<1>6. StoredApart'
  BY <1>3, <1>5 DEF StoredApart
<1>7. /\ stmt'[k] = "fill" /\ stmt[k] = "insert" /\ UNCHANGED col
      /\ \A j \in Client \ {k} : stmt'[j] = stmt[j]
  BY DEF LinkNewBlock, Visit, KeptInv, StoreInv, TypeOK
<1>8. Pending'
  <2>1. ASSUME NEW d \in Column, Len(data) \in Blocks(d)'
        PROVE  \E j \in Client : stmt'[j] = "fill" /\ col'[j] = d
    <3>1. CASE d = c
      BY <1>2, <1>7, <3>1
    <3>2. CASE d # c
      <4>1. PICK j \in Client : stmt[j] = "fill" /\ col[j] = d
        BY <1>5, <2>1, <3>2 DEF Pending
      <4> QED
        BY <1>7, <4>1
    <3> QED
      BY <3>1, <3>2
  <2> QED
    BY <1>3, <2>1 DEF Pending
<1> QED
  BY <1>6, <1>8

LEMMA ApartFill ==
  ASSUME KeptInv, KeptInv', StoredApart, Pending, NEW k \in Client, FillNewBlock(k)
  PROVE  StoredApart' /\ Pending'
<1>1. PICK a \in Nat : a = at[k]
  BY DEF KeptInv, StoreInv, TypeOK
<1>2. a = Len(data) /\ Len(data') = a + 1 /\ \A c \in Column : Blocks(c)' = Blocks(c)
  BY <1>1, FillNewBlockFile DEF KeptInv
<1>3. \A j \in Client \ {k} : stmt[j] # "fill"
  BY OnlyFill DEF KeptInv
<1>4. \A c \in Column : Len(data) \in Blocks(c) => col[k] = c
  BY <1>3 DEF Pending
<1>5. \A c, d \in Column : c # d => Blocks(c) \cap Blocks(d) = {}
  BY <1>4 DEF StoredApart
<1>6. StoredApart'
  BY <1>2, <1>5 DEF StoredApart
<1>7. \A c \in Column : Blocks(c) \subseteq 0 .. Len(data)
  BY Chained DEF BlocksChain, KeptInv
<1>8. \A c \in Column : Len(data') \notin Blocks(c)
  BY <1>1, <1>2, <1>7
<1>9. Pending'
  BY <1>2, <1>8 DEF Pending
<1> QED
  BY <1>6, <1>9

LEMMA ApartNext ==
  ASSUME ApartInv, KeptInv', [Next]_vars, crashes' = 0
  PROVE  StoredApart' /\ Pending'
<1>1. /\ KeptInv /\ StoreInv /\ StoreInv' /\ StoredApart /\ Pending /\ ~Crash
  BY CrashesCount DEF ApartInv, KeptInv
<1>2. ASSUME Len(data') = Len(data), \A c \in Column : Blocks(c)' = Blocks(c),
             \A k \in Client : ~FillNewBlock(k)
      PROVE  StoredApart' /\ Pending'
  <2>1. StoredApart'
    BY <1>1, <1>2 DEF StoredApart
  <2>2. ASSUME NEW c \in Column, Len(data) \in Blocks(c)
        PROVE  \E k \in Client : stmt'[k] = "fill" /\ col'[k] = c
    <3>1. PICK j \in Client : stmt[j] = "fill" /\ col[j] = c
      BY <1>1, <2>2 DEF Pending
    <3> QED
      BY <1>1, <1>2, <3>1, FillsStay
  <2>3. Pending'
    BY <1>2, <2>2 DEF Pending
  <2> QED
    BY <2>1, <2>3
<1>3. CASE \E k \in Client : FillNewBlock(k)
  BY <1>1, <1>3, ApartFill
<1>4. CASE \E k \in Client : LinkNewBlock(k)
  BY <1>1, <1>4, ApartLink
<1>5. CASE \E k \in Client : InsertValue(k) /\ \A j \in Client : ~FillNewBlock(j)
  <2>1. PICK k \in Client : InsertValue(k) /\ \A j \in Client : ~FillNewBlock(j)
    BY <1>5
  <2>2. PICK a \in Nat : a = at[k]
    BY <1>1 DEF StoreInv, TypeOK
  <2>3. Len(data') = Len(data) /\ \A c \in Column : Blocks(c)' = Blocks(c)
    BY <1>1, <2>1, <2>2, InsertValueFile
  <2> QED
    BY <1>2, <2>1, <2>3
<1>6. CASE UNCHANGED data /\ \A j \in Client : ~FillNewBlock(j)
  <2>1. \A c \in Column : Blocks(c)' = Blocks(c)
    BY <1>1, <1>6, FileSame
  <2> QED
    BY <1>2, <1>6, <2>1
<1> QED
  BY <1>3, <1>4, <1>5, <1>6, FileSteps

(* At first each column has its own block, the file's first ones.          *)
LEMMA InitBlocks ==
  ASSUME Init, NEW c \in Column
  PROVE  Blocks(c) = {First(c)} /\ Len(data) = Columns
         /\ First(c) \in Nat /\ First(c) < Len(data) /\ Stored(First(c)) = EmptyBlock
<1>1. StoreInv
  BY StoreInit
<1>2. Columns \in Nat /\ c \in 1 .. Columns /\ First(c) = c - 1
  BY StoreAssumption DEF Column, First
<1>3. DOMAIN data = 1 .. Columns /\ DOMAIN data = 1 .. Len(data) /\ Len(data) \in Nat
  BY <1>1, DataType, LenProperties DEF Init, Column, StoreInv
<1>4. Len(data) = Columns
  BY <1>2, <1>3
<1>5. Stored(First(c)) = EmptyBlock
  BY <1>2 DEF Stored, Init, Column
<1>6. Stops(First(c))
  BY <1>5 DEF Stops, IsLast, EmptyBlock
<1>7. BlocksChain
  BY <1>1, Chained
<1>8. PICK S : S = {First(c)}
  OBVIOUS
<1>9. Closed(S)
  BY <1>6, <1>8 DEF Closed
<1>10. Blocks(c) \subseteq S
  BY <1>7, <1>8, <1>9 DEF BlocksChain
<1> QED
  BY <1>2, <1>4, <1>5, <1>7, <1>8, <1>10 DEF BlocksChain

LEMMA ApartInit == Init => ApartInv
<1> SUFFICES ASSUME Init PROVE ApartInv
  OBVIOUS
<1>1. KeptInv
  BY KeptInit
<1>2. \A c \in Column : /\ Blocks(c) = {First(c)} /\ First(c) = c - 1
                        /\ First(c) < Len(data) /\ First(c) \in Nat /\ c \in Int
  BY InitBlocks, StoreAssumption DEF First, Column
<1>3. StoredApart
  <2>1. ASSUME NEW c \in Column, NEW d \in Column, c # d PROVE Blocks(c) \cap Blocks(d) = {}
    <3>1. First(c) # First(d)
      BY <1>2, <2>1
    <3> QED
      BY <1>2, <3>1
  <2> QED
    BY <2>1 DEF StoredApart
<1>4. \A c \in Column : Len(data) \notin Blocks(c)
  BY <1>2
<1>5. Pending
  BY <1>4 DEF Pending
<1> QED
  BY <1>1, <1>3, <1>5 DEF ApartInv

LEMMA ApartCorrect == Spec => []ApartInv
<1>1. ApartInv /\ KeptInv' /\ [Next]_vars => ApartInv'
  BY ApartNext DEF ApartInv
<1> QED
  BY ApartInit, KeptCorrect, <1>1, PTL DEF Spec

(* Each block stores the data of one column only, however the workers      *)
(* interleave: two chains that meet, meet behind the end of the file, and  *)
(* there two INSERTs would be about to fill one new block.                 *)
THEOREM ColumnsApart == Spec => []BlocksOfOneColumnUntilCrash
<1>1. ApartInv => BlocksOfOneColumnUntilCrash
  <2> SUFFICES ASSUME ApartInv, crashes = 0, \A k \in Client : ~Collides(k),
                      NEW c \in Column, NEW d \in Column, c # d
               PROVE  Blocks(c) \cap Blocks(d) = {}
    BY DEF BlocksOfOneColumnUntilCrash, BlocksOfOneColumn
  <2>1. SUFFICES ASSUME Len(data) \in Blocks(c), Len(data) \in Blocks(d) PROVE FALSE
    BY DEF ApartInv, StoredApart
  <2>2. PICK j \in Client : stmt[j] = "fill" /\ col[j] = c
    BY <2>1 DEF ApartInv, Pending
  <2>3. PICK k \in Client : stmt[k] = "fill" /\ col[k] = d
    BY <2>1 DEF ApartInv, Pending
  <2>4. at[j] = at[k] /\ j # k
    BY <2>2, <2>3 DEF ApartInv, KeptInv, StoreInv, FillsAtEnd
  <2> QED
    BY <2>2, <2>3, <2>4 DEF Collides
<1> QED
  BY <1>1, ApartCorrect, PTL

-----------------------------------------------------------------------------
(* Sequences without a repetition.                                         *)
LEMMA ConcatDistinct ==
  ASSUME NEW S, NEW s \in Seq(S), NEW t \in Seq(S)
  PROVE  /\ Elements(s \o t) = Elements(s) \cup Elements(t)
         /\ Distinct(s) /\ Distinct(t) /\ Elements(s) \cap Elements(t) = {} => Distinct(s \o t)
<1>1. PICK u : u = s \o t
  OBVIOUS
<1>2. /\ Len(s) \in Nat /\ Len(t) \in Nat /\ Len(u) = Len(s) + Len(t)
      /\ \A i \in 1 .. Len(s) + Len(t) : u[i] = IF i <= Len(s) THEN s[i] ELSE t[i - Len(s)]
  BY <1>1, ConcatProperties, LenProperties
<1>3. /\ \A i \in 1 .. Len(s) : i \in 1 .. Len(u) /\ u[i] = s[i]
      /\ \A i \in 1 .. Len(t) : i + Len(s) \in 1 .. Len(u) /\ u[i + Len(s)] = t[i]
  BY <1>2
<1>4. \A i \in 1 .. Len(u) : \/ i \in 1 .. Len(s) /\ u[i] = s[i]
                             \/ i - Len(s) \in 1 .. Len(t) /\ u[i] = t[i - Len(s)]
  BY <1>2
<1>5. Elements(u) = Elements(s) \cup Elements(t)
  <2>1. ASSUME NEW v \in Elements(u) PROVE v \in Elements(s) \cup Elements(t)
    <3>1. PICK i \in 1 .. Len(u) : v = u[i]
      BY <2>1 DEF Elements
    <3> QED
      BY <1>4, <3>1 DEF Elements
  <2>2. ASSUME NEW v \in Elements(s) PROVE v \in Elements(u)
    BY <1>3, <2>2 DEF Elements
  <2>3. ASSUME NEW v \in Elements(t) PROVE v \in Elements(u)
    BY <1>3, <2>3 DEF Elements
  <2> QED
    BY <2>1, <2>2, <2>3
<1>6. ASSUME Distinct(s), Distinct(t), Elements(s) \cap Elements(t) = {}
      PROVE  Distinct(u)
  <2>1. ASSUME NEW i \in 1 .. Len(u), NEW j \in 1 .. Len(u), u[i] = u[j] PROVE i = j
    <3>1. CASE i \in 1 .. Len(s) /\ u[i] = s[i] /\ j \in 1 .. Len(s) /\ u[j] = s[j]
      BY <1>6, <2>1, <3>1 DEF Distinct
    <3>2. CASE i - Len(s) \in 1 .. Len(t) /\ u[i] = t[i - Len(s)]
               /\ j - Len(s) \in 1 .. Len(t) /\ u[j] = t[j - Len(s)]
      <4>1. i - Len(s) = j - Len(s)
        BY <1>6, <2>1, <3>2 DEF Distinct
      <4> QED
        BY <1>2, <4>1
    <3>3. ~(i \in 1 .. Len(s) /\ u[i] = s[i] /\ j - Len(s) \in 1 .. Len(t) /\ u[j] = t[j - Len(s)])
      BY <1>6, <2>1 DEF Elements
    <3>4. ~(j \in 1 .. Len(s) /\ u[j] = s[j] /\ i - Len(s) \in 1 .. Len(t) /\ u[i] = t[i - Len(s)])
      BY <1>6, <2>1 DEF Elements
    <3> QED
      BY <1>4, <3>1, <3>2, <3>3, <3>4
  <2> QED
    BY <2>1 DEF Distinct
<1> QED
  BY <1>1, <1>5, <1>6

LEMMA OneElement ==
  ASSUME NEW S, NEW r \in S
  PROVE  <<r>> \in Seq(S) /\ Distinct(<<r>>) /\ Elements(<<r>>) = {r}
BY DEF Distinct, Elements

(* ... have as many elements as they are long.                             *)
LEMMA DistinctCardinality ==
  ASSUME NEW S, NEW s \in Seq(S), Distinct(s)
  PROVE  Cardinality(Elements(s)) = Len(s)
<1>1. DOMAIN s = 1 .. Len(s) /\ Len(s) \in Nat /\ s \in [1 .. Len(s) -> Elements(s)]
  BY LenProperties DEF Elements
<1>2. s \in Surjection(1 .. Len(s), Elements(s))
  BY <1>1 DEF Surjection, Elements
<1>3. s \in Injection(1 .. Len(s), Elements(s))
  BY <1>1 DEF Injection, IsInjective, Distinct
<1>4. IsFiniteSet(1 .. Len(s)) /\ Cardinality(1 .. Len(s)) = Len(s)
  BY <1>1, FS_Interval
<1> QED
  BY <1>2, <1>3, <1>4, FS_Surjection

(* The values of a block.                                                  *)
LEMMA BlockValues ==
  ASSUME StoreInv, NEW a \in Nat, IsStored(a)
  PROVE  Stored(a).values \in Seq(Row) /\ Values(a) = Elements(Stored(a).values)
<1>1. a + 1 \in 1 .. Len(data)
  BY DataType DEF IsStored, StoreInv
<1>2. Stored(a).values \in Seq(Row)
  BY <1>1, DataType DEF Stored, DataBlock, StoreInv
<1> QED
  BY <1>2, LenProperties DEF Values, Elements

-----------------------------------------------------------------------------
(* Each INSERT writes its own row, to each column once.                    *)
LEMMA RowsWrote ==
  ASSUME StoreInv, RowsInv, NEW k \in Client, InsertValue(k) \/ FillNewBlock(k)
  PROVE  RowsInv'
<1> USE DEF StoreInv, RowsInv
<1>1. /\ Wrote(k) /\ row[k] \in Row /\ NextColumn(k, "insert") /\ Inserting(k)
      /\ UNCHANGED <<row, rows, before>>
  BY ValueInserted, BlockFilled DEF InsertValue, FillNewBlock, Visit, Inserting
<1>2. /\ col[k] \in Column
      /\ \A c \in Column : written'[c] = IF c = col[k] THEN written[c] \cup {row[k]} ELSE written[c]
  BY <1>1, WrittenType
<1>3. /\ \A j \in Client \ {k} : stmt'[j] = stmt[j] /\ col'[j] = col[j]
      /\ ((stmt'[k] = "insert" /\ col'[k] = col[k] + 1) \/ stmt'[k] = Idle)
  BY <1>1, NextColumnProperties
<1>4. OwnRows'
  BY <1>1, <1>3 DEF OwnRows, Inserting, Idle
<1>5. ToWrite'
  <2>1. ASSUME NEW j \in Client, j # k, Inserting(j)', NEW c \in Column, col'[j] <= c
        PROVE  row'[j] \notin written'[c]
    <3>1. Inserting(j) /\ col[j] <= c /\ row'[j] = row[j] /\ row[j] # row[k]
      BY <1>1, <1>3, <2>1 DEF OwnRows, Inserting
    <3> QED
      BY <1>2, <3>1 DEF ToWrite
  <2>2. ASSUME Inserting(k)', NEW c \in Column, col'[k] <= c
        PROVE  row'[k] \notin written'[c]
    <3>1. col'[k] = col[k] + 1
      BY <1>3, <2>2 DEF Inserting, Idle
    <3>2. c # col[k] /\ col[k] <= c
      BY <1>2, <2>2, <3>1 DEF Column
    <3> QED
      BY <1>1, <1>2, <3>2 DEF ToWrite
  <2> QED
    BY <2>1, <2>2 DEF ToWrite
<1>6. WrittenBegun' /\ BeforeWritten'
  <2>1. row[k] \in 1 .. rows
    BY <1>1 DEF RowsBegun
  <2>2. \A c \in Column : written[c] \subseteq written'[c] /\ written'[c] \subseteq written[c] \cup {row[k]}
    BY <1>2
  <2>3. UNCHANGED <<rows, before>>
    BY <1>1
  <2>4. WrittenBegun'
    BY <2>1, <2>2, <2>3, Zenon DEF WrittenBegun
  <2>5. BeforeWritten'
    BY <2>2, <2>3, Zenon DEF BeforeWritten
  <2> QED
    BY <2>4, <2>5
<1> QED
  BY <1>4, <1>5, <1>6

LEMMA RowsBegin ==
  ASSUME StoreInv, RowsInv, NEW k \in Client, Insert(k) \/ Select(k)
  PROVE  RowsInv'
<1> USE DEF StoreInv, RowsInv
<1>1. PICK s \in {"insert", "select"} : Begin(k, s)
  BY DEF Insert, Select
<1>2. /\ stmt'[k] = s /\ col'[k] = 1 /\ before'[k] = written /\ UNCHANGED written
      /\ \A j \in Client \ {k} : stmt'[j] = stmt[j] /\ col'[j] = col[j] /\ before'[j] = before[j]
  BY <1>1 DEF Begin, TypeOK
<1>3. /\ rows \in Nat /\ rows' \in Nat /\ rows <= rows'
      /\ \A j \in Client \ {k} : row'[j] = row[j]
      /\ s = "insert" => row'[k] = rows + 1
  <2>1. CASE Insert(k)
    BY <2>1, StoreAssumption DEF Insert, TypeOK
  <2>2. CASE Select(k)
    <3>1. s = "select"
      BY <1>2, <2>2 DEF Select, Begin, TypeOK, Idle
    <3> QED
      BY <2>2, <3>1, StoreAssumption DEF Select, TypeOK
  <2> QED
    BY <2>1, <2>2
<1>4. \A j \in Client \ {k} : Inserting(j)' => Inserting(j) /\ row[j] \in 1 .. rows
  BY <1>2 DEF Inserting, RowsBegun
<1>5. OwnRows'
  BY <1>2, <1>3, <1>4 DEF OwnRows, Inserting
<1>6. ToWrite'
  <2>1. s = "insert" => \A c \in Column : row'[k] \notin written'[c]
    BY <1>2, <1>3 DEF WrittenBegun
  <2> QED
    BY <1>2, <1>3, <1>4, <2>1 DEF ToWrite, Inserting
<1>7. WrittenBegun' /\ BeforeWritten'
  BY <1>2, <1>3 DEF WrittenBegun, BeforeWritten
<1> QED
  BY <1>5, <1>6, <1>7

LEMMA RowsNext ==
  ASSUME StoreInv, RowsInv, [Next]_vars
  PROVE  RowsInv'
<1> USE DEF StoreInv, RowsInv
<1>1. ASSUME UNCHANGED <<row, rows, col, written, before>>,
             \A j \in Client : Inserting(j)' => Inserting(j)
      PROVE  RowsInv'
  BY <1>1 DEF OwnRows, ToWrite, WrittenBegun, BeforeWritten
<1>2. ASSUME NEW k \in Client, FollowLink(k) \/ LinkNewBlock(k) \/ ScanBlock(k)
      PROVE  RowsInv'
  <2>1. UNCHANGED <<row, rows, col, written, before>>
    BY <1>2 DEF FollowLink, LinkNewBlock, ScanBlock, history
  <2>2. \A j \in Client : Inserting(j)' => Inserting(j)
    BY <1>2 DEF FollowLink, LinkNewBlock, ScanBlock, Inserting, TypeOK, Visit
  <2> QED
    BY <1>1, <2>1, <2>2
<1>3. ASSUME NEW k \in Client, ScanLastBlock(k)
      PROVE  RowsInv'
  <2>1. NextColumn(k, "select") /\ UNCHANGED <<row, rows, written, before>>
    BY <1>3 DEF ScanLastBlock, history
  <2>2. /\ \A j \in Client \ {k} : stmt'[j] = stmt[j] /\ col'[j] = col[j]
        /\ stmt'[k] \in {"select", Idle}
    BY <2>1, NextColumnProperties
  <2> QED
    BY <2>1, <2>2 DEF OwnRows, ToWrite, WrittenBegun, BeforeWritten, Inserting, Idle
<1>4. (\E k \in Client : ReleaseOther(k) \/ Meet(k) \/ ReadBeyondEnd(k)) \/ UNCHANGED vars
        => RowsInv'
  <2> SUFFICES ASSUME (\E k \in Client : ReleaseOther(k) \/ Meet(k) \/ ReadBeyondEnd(k))
                        \/ UNCHANGED vars
               PROVE  RowsInv'
    OBVIOUS
  <2>1. UNCHANGED <<stmt, row, rows, col, written, before>>
    BY DEF ReleaseOther, Meet, ReadBeyondEnd, vars, place, history
  <2> QED
    BY <1>1, <2>1 DEF Inserting
<1>5. CASE Crash
  <2>1. UNCHANGED <<row, rows, col, written, before>> /\ \A j \in Client : ~Inserting(j)'
    BY <1>5 DEF Crash, place, history, Inserting, Idle
  <2> QED
    BY <1>1, <2>1
<1> QED
  BY <1>2, <1>3, <1>4, <1>5, RowsWrote, RowsBegin DEF Next

-----------------------------------------------------------------------------
(* Until a crash, the blocks of a column hold its values, each once.       *)
OnceInv == ApartInv /\ RowsInv /\ StoredApart /\ Pending /\ OnlyWritten /\ Once

LEMMA ValueAdded ==
  ASSUME OnceInv, StoreInv', NEW k \in Client, InsertValue(k) \/ FillNewBlock(k),
         NEW a \in Nat, a = at[k], NEW d \in Column, d = col[k]
  PROVE  /\ \A c \in Column : Blocks(c)' = Blocks(c)
         /\ \A c \in Column : a \in Blocks(c) <=> c = d
         /\ \A x \in Nat : x # a => (IsStored(x)' <=> IsStored(x))
         /\ \A x \in Nat : x # a /\ IsStored(x) => Stored(x)' = Stored(x) /\ Values(x)' = Values(x)
         /\ IsStored(a)' /\ Distinct(Stored(a)'.values)
         /\ \A v \in Values(a)' : v = row[k] \/ (IsStored(a) /\ v \in Values(a))
         /\ row[k] \notin written[d]
         /\ \A c \in Column : written'[c] = IF c = d THEN written[c] \cup {row[k]} ELSE written[c]
<1> USE DEF OnceInv, ApartInv, KeptInv
<1>1. Wrote(k) /\ row[k] \in Row /\ Inserting(k) /\ stmt[k] # Idle
  BY ValueInserted, BlockFilled DEF InsertValue, FillNewBlock, Visit, Inserting, Idle
<1>2. \A c \in Column : written'[c] = IF c = d THEN written[c] \cup {row[k]} ELSE written[c]
  BY <1>1, WrittenType
<1>3. row[k] \notin written[d]
  <2>1. d \in Int
    BY StoreAssumption DEF Column
  <2> QED
    BY <1>1, <2>1 DEF RowsInv, ToWrite
<1>4. a \in Blocks(d)
  BY <1>1 DEF Reached
<1>5. CASE InsertValue(k)
  <2>1. /\ \A c \in Column : Blocks(c)' = Blocks(c)
        /\ IsStored(a)
        /\ \A x \in Nat : IsStored(x)' <=> IsStored(x)
        /\ \A x \in Nat : IsStored(x) /\ x # a => Stored(x)' = Stored(x)
        /\ Stored(a)'.values = <<row[k]>> \o Stored(a).values
        /\ Stored(a).values \in Seq(Row)
    BY <1>5, InsertValueFile
  <2>2. Values(a)' = Values(a) \cup {row[k]}
    BY <1>5, OneMoreValue
  <2>3. \A x \in Nat : x # a /\ IsStored(x) => Values(x)' = Values(x)
    BY <2>1 DEF Values
  <2>4. row[k] \notin Values(a)
    BY <1>3, <1>4, <2>1 DEF OnlyWritten
  <2>5. Distinct(Stored(a)'.values)
    <3>1. Distinct(Stored(a).values) /\ Values(a) = Elements(Stored(a).values)
      BY <1>4, <2>1, BlockValues DEF Once
    <3>2. /\ <<row[k]>> \in Seq(Row) /\ Distinct(<<row[k]>>)
          /\ Elements(<<row[k]>>) \cap Elements(Stored(a).values) = {}
      BY <1>1, <2>4, <3>1, OneElement
    <3>3. Distinct(<<row[k]>> \o Stored(a).values)
      BY <2>1, <3>1, <3>2, ConcatDistinct
    <3> QED
      BY <2>1, <3>3, Zenon
  <2>6. \A c \in Column : a \in Blocks(c) <=> c = d
    <3>1. a # Len(data)
      BY <2>1, DataType DEF IsStored, StoreInv
    <3> QED
      BY <1>4, <3>1 DEF StoredApart
  <2> QED
    BY <1>2, <1>3, <2>1, <2>2, <2>3, <2>5, <2>6
<1>6. CASE FillNewBlock(k)
  <2>1. /\ a = Len(data)
        /\ \A x \in Nat : IsStored(x) => IsStored(x)' /\ Stored(x)' = Stored(x) /\ Values(x)' = Values(x)
        /\ \A x \in Nat : IsStored(x)' <=> IsStored(x) \/ x = a
        /\ Stored(a)'.values = <<row[k]>>
        /\ \A c \in Column : Blocks(c)' = Blocks(c)
    BY <1>6, FillNewBlockFile
  <2>2. Values(a)' = {row[k]}
    <3>1. Values(a)' = {Stored(a)'.values[i] : i \in DOMAIN Stored(a)'.values}
      BY DEF Values
    <3> QED
      BY <2>1, <3>1
  <2>3. Distinct(Stored(a)'.values)
    BY <1>1, <2>1, OneElement
  <2>4. \A c \in Column : a \in Blocks(c) => c = d
    <3>1. \A j \in Client \ {k} : stmt[j] # "fill"
      BY <1>6, OnlyFill
    <3> QED
      BY <2>1, <3>1 DEF Pending
  <2> QED
    BY <1>2, <1>3, <1>4, <2>1, <2>2, <2>3, <2>4
<1> QED
  BY <1>5, <1>6

LEMMA OnceAdded ==
  ASSUME OnceInv, StoreInv', NEW k \in Client, InsertValue(k) \/ FillNewBlock(k)
  PROVE  OnlyWritten' /\ Once'
<1>1. PICK a \in Nat : a = at[k]
  BY DEF OnceInv, ApartInv, KeptInv, StoreInv, TypeOK
<1>2. PICK d \in Column : d = col[k]
  BY DEF OnceInv, ApartInv, KeptInv, StoreInv, TypeOK
<1>3. /\ \A c \in Column : Blocks(c)' = Blocks(c)
      /\ \A c \in Column : a \in Blocks(c) <=> c = d
      /\ \A x \in Nat : x # a => (IsStored(x)' <=> IsStored(x))
      /\ \A x \in Nat : x # a /\ IsStored(x) => Stored(x)' = Stored(x) /\ Values(x)' = Values(x)
      /\ IsStored(a)' /\ Distinct(Stored(a)'.values)
      /\ \A v \in Values(a)' : v = row[k] \/ (IsStored(a) /\ v \in Values(a))
      /\ row[k] \notin written[d]
      /\ \A c \in Column : written'[c] = IF c = d THEN written[c] \cup {row[k]} ELSE written[c]
  BY <1>1, <1>2, ValueAdded
<1>4. \A c \in Column : Blocks(c) \subseteq Nat
  BY Chained, DataType DEF BlocksChain, OnceInv, ApartInv, KeptInv, StoreInv
<1>5. ASSUME NEW c \in Column, NEW x \in Blocks(c), IsStored(x)', x # a
      PROVE  /\ x \in Nat /\ IsStored(x) /\ Stored(x)' = Stored(x) /\ Values(x)' = Values(x)
             /\ Values(x) \subseteq written[c]
  BY <1>3, <1>4, <1>5 DEF OnceInv, OnlyWritten
<1>6. ASSUME NEW c \in Column, NEW x \in Blocks(c), IsStored(x)'
      PROVE  Values(x)' \subseteq written'[c]
  <2>1. CASE x = a
    <3>1. c = d /\ (IsStored(a) => Values(a) \subseteq written[c])
      BY <1>3, <1>6, <2>1 DEF OnceInv, OnlyWritten
    <3> QED
      BY <1>3, <2>1, <3>1
  <2>2. CASE x # a
    BY <1>3, <1>5, <1>6, <2>2
  <2> QED
    BY <2>1, <2>2
<1>7. OnlyWritten'
  BY <1>3, <1>6 DEF OnlyWritten
<1>8. ASSUME NEW c \in Column, NEW x \in Blocks(c), IsStored(x)',
             NEW y \in Blocks(c), IsStored(y)', x # y
      PROVE  Values(x)' \cap Values(y)' = {}
  <2>1. ASSUME NEW b \in Blocks(c), IsStored(b)', b # a, a \in Blocks(c)
        PROVE  Values(a)' \cap Values(b)' = {}
    <3>1. Values(b)' = Values(b) /\ IsStored(b) /\ c = d /\ row[k] \notin Values(b)
      BY <1>3, <1>5, <2>1
    <3>2. IsStored(a) => Values(a) \cap Values(b) = {}
      BY <2>1, <3>1 DEF OnceInv, Once
    <3> QED
      BY <1>3, <3>1, <3>2
  <2>2. CASE x = a
    BY <1>8, <2>1, <2>2
  <2>3. CASE y = a
    BY <1>8, <2>1, <2>3
  <2>4. CASE x # a /\ y # a
    BY <1>5, <1>8, <2>4 DEF OnceInv, Once
  <2> QED
    BY <2>2, <2>3, <2>4
<1>9. ASSUME NEW c \in Column, NEW x \in Blocks(c), IsStored(x)'
      PROVE  Distinct(Stored(x)'.values)
  <2>1. CASE x = a
    BY <1>3, <2>1
  <2>2. CASE x # a
    BY <1>5, <1>9, <2>2 DEF OnceInv, Once
  <2> QED
    BY <2>1, <2>2
<1>10. Once'
  BY <1>3, <1>8, <1>9 DEF Once
<1> QED
  BY <1>7, <1>10

LEMMA OnceNext ==
  ASSUME OnceInv, StoreInv', [Next]_vars
  PROVE  OnlyWritten' /\ Once'
<1> USE DEF OnceInv, ApartInv, KeptInv
<1>1. \A c \in Column : Blocks(c) \subseteq 0 .. Len(data) /\ Len(data) \in Nat
  BY Chained, DataType DEF BlocksChain, StoreInv
<1>2. CASE \E k \in Client : InsertValue(k) \/ FillNewBlock(k)
  BY <1>2, OnceAdded
<1>3. ASSUME ~\E k \in Client : InsertValue(k) \/ FillNewBlock(k)
      PROVE  UNCHANGED written
  <2>1. ASSUME NEW k \in Client,
               \/ Insert(k) \/ Select(k) \/ FollowLink(k) \/ LinkNewBlock(k) \/ ReleaseOther(k)
        PROVE UNCHANGED written
    BY <2>1 DEF Insert, Select, Begin, FollowLink, LinkNewBlock, ReleaseOther, history
  <2>2. ASSUME NEW k \in Client,
               ScanBlock(k) \/ ScanLastBlock(k) \/ Meet(k) \/ ReadBeyondEnd(k)
        PROVE UNCHANGED written
    BY <2>2 DEF ScanBlock, ScanLastBlock, Meet, ReadBeyondEnd, history
  <2>3. Crash \/ UNCHANGED vars => UNCHANGED written
    BY DEF Crash, vars, history
  <2> QED
    BY <1>3, <2>1, <2>2, <2>3 DEF Next
<1>4. ASSUME UNCHANGED written,
             \A c \in Column : Blocks(c)' \subseteq Blocks(c) \cup {Len(data)},
             Len(data') = Len(data),
             \A x \in Nat : IsStored(x) => Stored(x)'.values = Stored(x).values /\ Values(x)' = Values(x)
      PROVE  OnlyWritten' /\ Once'
  <2>1. \A c \in Column : \A x \in Blocks(c)' : IsStored(x)' =>
          /\ x \in Blocks(c) /\ IsStored(x)
          /\ Stored(x)'.values = Stored(x).values /\ Values(x)' = Values(x)
    BY <1>1, <1>4 DEF IsStored
  <2> QED
    BY <1>4, <2>1 DEF OnlyWritten, Once
<1>5. CASE UNCHANGED data /\ ~\E k \in Client : InsertValue(k) \/ FillNewBlock(k)
  BY <1>3, <1>4, <1>5, FileSame
<1>6. CASE (\E k \in Client : LinkNewBlock(k)) /\ ~\E k \in Client : InsertValue(k) \/ FillNewBlock(k)
  <2>1. PICK k \in Client : LinkNewBlock(k)
    BY <1>6
  <2>2. PICK a \in Nat : a = at[k]
    BY DEF StoreInv, TypeOK
  <2> QED
    BY <1>3, <1>4, <1>6, <2>1, <2>2, LinkNewBlockFile
<1> QED
  BY <1>2, <1>5, <1>6, FileSteps

-----------------------------------------------------------------------------
(* A SELECT's scan is not disturbed by what others do, ...                 *)
LEMMA ScansStay ==
  ASSUME StoreInv, StoreInv', [Next]_vars, NEW j \in Client, IsScanning(j),
         lists'[j] = lists[j], before'[j] = before[j], at'[j] = at[j], col'[j] = col[j]
  PROVE  IsScanning(j)'
<1>1. \A c \in Column : /\ Blocks(c) \subseteq Blocks(c)' /\ Blocks(c) \subseteq Nat
                        /\ \A a \in Blocks(c) : IsStored(a) => IsStored(a)' /\ Values(a) \subseteq Values(a)'
  <2>1. \A c \in Column : Blocks(c) \subseteq Nat
    BY Chained, DataType DEF BlocksChain, StoreInv
  <2> QED
    BY <2>1, NothingGone
<1>2. ASSUME NEW c \in Column, HasRead(j, c) PROVE HasRead(j, c)'
  BY <1>2 DEF HasRead
<1>3. ASSUME NEW c \in Column, IsReading(j, c) PROVE IsReading(j, c)'
  <2>1. ASSUME NEW v \in Elements(lists[j][c])
        PROVE  \E a \in Blocks(c)' : IsStored(a)' /\ a < at[j] /\ v \in Values(a)'
    BY <1>1, <1>3, <2>1 DEF IsReading
  <2>2. ASSUME NEW v \in before[j][c], v \notin Elements(lists[j][c])
        PROVE  \E a \in Blocks(c)' : IsStored(a)' /\ a >= at[j] /\ v \in Values(a)'
    BY <1>1, <1>3, <2>2 DEF IsReading
  <2> QED
    BY <1>3, <2>1, <2>2 DEF IsReading
<1> QED
  BY <1>2, <1>3 DEF IsScanning

(* ... and a block that it visits gives it new values only.                *)
LEMMA ScanMore ==
  ASSUME OnceInv, NEW k \in Client, IsScanning(k), Visit(k, "select"),
         NEW a \in Nat, a = at[k], NEW d \in Column, d = col[k]
  PROVE  /\ a \in Blocks(d) /\ IsStored(a)
         /\ Distinct(ScanList(k))
         /\ Elements(ScanList(k)) = Elements(lists[k][d]) \cup Values(a)
<1> USE DEF OnceInv, ApartInv, KeptInv
<1>1. a \in Blocks(d) /\ IsStored(a)
  BY DEF Visit, Reached, Idle
<1>2. /\ lists[k][d] \in Seq(Row) /\ Stored(a).values \in Seq(Row)
      /\ ScanList(k) = lists[k][d] \o Stored(a).values
  BY ScanListType
<1>3. Values(a) = Elements(Stored(a).values) /\ Distinct(Stored(a).values)
  BY <1>1, BlockValues DEF Once
<1>4. Distinct(lists[k][d]) /\ IsReading(k, d)
  BY DEF IsScanning, IsReading
<1>5. Elements(lists[k][d]) \cap Values(a) = {}
  <2>1. ASSUME NEW v \in Elements(lists[k][d]) PROVE v \notin Values(a)
    <3>1. PICK b \in Blocks(d) : IsStored(b) /\ b < a /\ v \in Values(b)
      BY <1>4, <2>1 DEF IsReading
    <3>2. b # a
      BY <3>1
    <3> QED
      BY <1>1, <3>1, <3>2 DEF Once
  <2> QED
    BY <2>1
<1> QED
  BY <1>1, <1>2, <1>3, <1>4, <1>5, ConcatDistinct

LEMMA ScansBegin ==
  ASSUME OnceInv, StoreInv', NEW k \in Client, Select(k)
  PROVE  IsScanning(k)'
<1> USE DEF OnceInv, ApartInv, KeptInv
<1>1. /\ col'[k] = 1 /\ at'[k] = First(1) /\ lists'[k] = Nothing /\ before'[k] = written
      /\ UNCHANGED data
  BY DEF Select, Begin, StoreInv, TypeOK
<1>2. 1 \in Column /\ \A c \in Column : c \in Int /\ c >= 1
  BY StoreAssumption DEF Column
<1>3. \A c \in Column : lists'[k][c] = <<>>
  BY <1>1 DEF Nothing
<1>4. /\ \A c \in Column : Blocks(c)' = Blocks(c) /\ Blocks(c) \subseteq Nat
      /\ \A a \in Nat : (IsStored(a)' <=> IsStored(a)) /\ Values(a)' = Values(a)
  BY <1>1, FileSame, Chained, DataType DEF BlocksChain, StoreInv
<1>5. IsReading(k, 1)'
  <2>1. Distinct(<<>>) /\ Elements(<<>>) = {}
    BY DEF Distinct, Elements
  <2>2. ASSUME NEW v \in written[1]
        PROVE  \E a \in Blocks(1)' : IsStored(a)' /\ a >= First(1) /\ v \in Values(a)'
    <3>1. PICK a \in Blocks(1) : IsStored(a) /\ v \in Values(a)
      BY <1>2, <2>2 DEF Kept, ValuesOf
    <3>2. a >= First(1)
      BY <1>2, <1>4, FirstLeast DEF First
    <3> QED
      BY <1>2, <1>4, <3>1, <3>2
  <2> QED
    BY <1>1, <1>2, <1>3, <2>1, <2>2 DEF IsReading
<1> QED
  BY <1>1, <1>2, <1>3, <1>5 DEF IsScanning

LEMMA ScansFollow ==
  ASSUME OnceInv, StoreInv', NEW k \in Client, IsScanning(k), ScanBlock(k)
  PROVE  IsScanning(k)'
<1> USE DEF OnceInv, ApartInv, KeptInv
<1>1. PICK a \in Nat : a = at[k]
  BY DEF StoreInv, TypeOK
<1>2. PICK d \in Column : d = col[k]
  BY DEF StoreInv, TypeOK
<1>3. PICK n : n = Stored(a).next
  OBVIOUS
<1>4. PICK N : N = ScanList(k)
  OBVIOUS
<1>5. Visit(k, "select") /\ ~Stops(a) /\ UNCHANGED <<data, col, before>>
  BY <1>1 DEF ScanBlock, Visit, Stops, history
<1>6. at'[k] = n /\ lists'[k][d] = N /\ \A c \in Column \ {d} : lists'[k][c] = lists[k][c]
  BY <1>1, <1>2, <1>3, <1>4 DEF ScanBlock, StoreInv, TypeOK, NextBlock
<1>7. /\ a \in Blocks(d) /\ IsStored(a) /\ Distinct(N)
      /\ Elements(N) = Elements(lists[k][d]) \cup Values(a)
  BY <1>1, <1>2, <1>4, <1>5, ScanMore
<1>8. /\ \A c \in Column : Blocks(c)' = Blocks(c) /\ Blocks(c) \subseteq 0 .. Len(data)
      /\ Len(data) \in Nat
      /\ \A x \in Nat : (IsStored(x)' <=> IsStored(x)) /\ Values(x)' = Values(x)
  BY <1>5, FileSame, Chained, DataType DEF BlocksChain, StoreInv
<1>9. n \in Nat /\ a < n
  BY <1>1, <1>3, <1>5, <1>7, <1>8, LinkLater
<1>10. IsReading(k, d)
  BY <1>2 DEF IsScanning
<1>11. ASSUME NEW v \in Elements(N)
       PROVE  \E b \in Blocks(d) : IsStored(b) /\ b < n /\ v \in Values(b)
  <2>1. CASE v \in Values(a)
    BY <1>7, <1>9, <2>1
  <2>2. CASE v \in Elements(lists[k][d])
    <3>1. PICK b \in Blocks(d) : IsStored(b) /\ b < a /\ v \in Values(b)
      BY <1>1, <1>10, <2>2 DEF IsReading
    <3>2. b \in Nat
      BY <1>8
    <3> QED
      BY <1>9, <3>1, <3>2
  <2> QED
    BY <1>7, <1>11, <2>1, <2>2
<1>12. ASSUME NEW v \in before[k][d], v \notin Elements(N)
       PROVE  \E b \in Blocks(d) : IsStored(b) /\ b >= n /\ v \in Values(b)
  <2>1. PICK b \in Blocks(d) : IsStored(b) /\ b >= a /\ v \in Values(b)
    BY <1>1, <1>7, <1>10, <1>12 DEF IsReading
  <2>2. b # a /\ b \in Nat
    BY <1>7, <1>8, <1>12, <2>1
  <2>3. n <= b
    BY <1>3, <1>7, <2>1, <2>2, ChainOrdered DEF Ordered
  <2> QED
    BY <1>9, <2>1, <2>2, <2>3
<1>13. IsReading(k, d)'
  <2>1. \A x \in Blocks(d) : x \in Nat
    BY <1>8
  <2>2. \A v \in Elements(N) : \E b \in Blocks(d)' : IsStored(b)' /\ b < n /\ v \in Values(b)'
    BY <1>8, <1>11, <2>1
  <2>3. \A v \in before[k][d] :
          v \in Elements(N) \/ \E b \in Blocks(d)' : IsStored(b)' /\ b >= n /\ v \in Values(b)'
    BY <1>8, <1>12, <2>1
  <2> QED
    BY <1>5, <1>6, <1>7, <2>2, <2>3 DEF IsReading
<1>0. \A c \in Column : c \in Int
  BY StoreAssumption DEF Column
<1>14. \A c \in Column : c < d => HasRead(k, c)'
  <2>1. \A c \in Column : c < d => HasRead(k, c) /\ lists'[k][c] = lists[k][c]
    BY <1>0, <1>2, <1>6 DEF IsScanning
  <2> QED
    BY <1>5, <2>1 DEF HasRead
<1>15. \A c \in Column : c > d => lists'[k][c] = <<>>
  BY <1>0, <1>2, <1>6 DEF IsScanning
<1> QED
  BY <1>2, <1>5, <1>13, <1>14, <1>15 DEF IsScanning

LEMMA ScansNextColumn ==
  ASSUME OnceInv, StoreInv', NEW k \in Client, IsScanning(k), ScanLastBlock(k), stmt'[k] = "select"
  PROVE  IsScanning(k)'
<1> USE DEF OnceInv, ApartInv, KeptInv
<1>1. PICK a \in Nat : a = at[k]
  BY DEF StoreInv, TypeOK
<1>2. PICK d \in Column : d = col[k]
  BY DEF StoreInv, TypeOK
<1>3. PICK N : N = ScanList(k)
  OBVIOUS
<1>4. /\ Visit(k, "select") /\ Stops(a) /\ UNCHANGED <<data, before>>
      /\ NextColumn(k, "select")
  BY <1>1 DEF ScanLastBlock, Visit, Stops, history
<1>5. lists'[k][d] = N /\ \A c \in Column \ {d} : lists'[k][c] = lists[k][c]
  <2>1. lists' = [lists EXCEPT ![k] = [lists[k] EXCEPT ![col[k]] = ScanList(k)]]
    BY DEF ScanLastBlock, Idle
  <2> QED
    BY <1>2, <1>3, <2>1 DEF StoreInv, TypeOK
<1>6. col'[k] = d + 1 /\ at'[k] = First(d + 1) /\ d + 1 \in Column
  BY <1>2, <1>4, NextColumnProperties DEF Idle, StoreInv
<1>7. /\ a \in Blocks(d) /\ IsStored(a) /\ Distinct(N)
      /\ Elements(N) = Elements(lists[k][d]) \cup Values(a)
  BY <1>1, <1>2, <1>3, <1>4, ScanMore
<1>8. /\ \A c \in Column : Blocks(c)' = Blocks(c) /\ Blocks(c) \subseteq Nat
      /\ \A x \in Nat : (IsStored(x)' <=> IsStored(x)) /\ Values(x)' = Values(x)
  BY <1>4, FileSame, Chained, DataType DEF BlocksChain, StoreInv
<1>9. HasRead(k, d)'
  <2>1. ASSUME NEW v \in before[k][d], v \notin Elements(N) PROVE FALSE
    <3>1. PICK b \in Blocks(d) : IsStored(b) /\ b >= a /\ v \in Values(b)
      BY <1>1, <1>2, <1>7, <2>1 DEF IsScanning, IsReading
    <3>2. b # a /\ b \in Nat
      BY <1>7, <1>8, <2>1, <3>1
    <3> QED
      BY <1>4, <1>7, <3>1, <3>2, ChainOrdered DEF Ordered
  <2> QED
    BY <1>4, <1>5, <1>7, <2>1 DEF HasRead
<1>10. PICK e \in Column : e = d + 1
  BY <1>6
<1>11. d \in Nat
  BY StoreAssumption DEF Column
<1>12. IsReading(k, e)'
  <2>1. lists'[k][e] = <<>>
    BY <1>2, <1>5, <1>10, <1>11 DEF IsScanning
  <2>2. Distinct(<<>>) /\ Elements(<<>>) = {}
    BY DEF Distinct, Elements
  <2>3. ASSUME NEW v \in before[k][e]
        PROVE  \E b \in Blocks(e)' : IsStored(b)' /\ b >= First(e) /\ v \in Values(b)'
    <3>1. v \in written[e]
      BY <2>3 DEF RowsInv, BeforeWritten
    <3>2. PICK b \in Blocks(e) : IsStored(b) /\ v \in Values(b)
      BY <3>1 DEF Kept, ValuesOf
    <3>3. b >= First(e)
      BY <1>8, <1>10, <1>11, FirstLeast DEF First
    <3> QED
      BY <1>8, <3>2, <3>3
  <2> QED
    BY <1>4, <1>6, <1>10, <2>1, <2>2, <2>3 DEF IsReading
<1>13. \A c \in Column : c < d => HasRead(k, c)'
  <2>1. \A c \in Column : c < d => c # d
    BY StoreAssumption DEF Column
  <2>2. \A c \in Column : c < d => HasRead(k, c) /\ lists'[k][c] = lists[k][c]
    BY <1>2, <1>5, <2>1 DEF IsScanning
  <2> QED
    BY <1>4, <2>2 DEF HasRead
<1>14. \A c \in Column : c > e => lists'[k][c] = <<>>
  BY <1>2, <1>5, <1>10, <1>11, StoreAssumption DEF IsScanning, Column
<1>15. \A c \in Column : c < e => c = d \/ c < d
  BY <1>10, <1>11, StoreAssumption DEF Column
<1> QED
  BY <1>6, <1>9, <1>10, <1>12, <1>13, <1>14, <1>15 DEF IsScanning

(* What a step of one worker leaves to the others.                         *)
ScanSame(j) ==
  /\ stmt'[j] = stmt[j] /\ lists'[j] = lists[j] /\ before'[j] = before[j]
  /\ at'[j] = at[j] /\ col'[j] = col[j]

LEMMA OthersScan ==
  ASSUME StoreInv, NEW k \in Client,
         \/ Insert(k) \/ Select(k) \/ FollowLink(k) \/ InsertValue(k) \/ LinkNewBlock(k)
         \/ FillNewBlock(k) \/ ScanBlock(k) \/ ScanLastBlock(k)
  PROVE  \A j \in Client \ {k} : ScanSame(j)
<1>1. CASE Insert(k) \/ Select(k)
  BY <1>1 DEF Insert, Select, Begin, StoreInv, TypeOK, ScanSame
<1>2. CASE FollowLink(k) \/ LinkNewBlock(k)
  BY <1>2 DEF FollowLink, LinkNewBlock, history, StoreInv, TypeOK, ScanSame
<1>3. CASE ScanBlock(k)
  BY <1>3 DEF ScanBlock, history, StoreInv, TypeOK, ScanSame
<1>4. CASE InsertValue(k) \/ FillNewBlock(k)
  BY <1>4, NextColumnProperties DEF InsertValue, FillNewBlock, StoreInv, ScanSame
<1>5. CASE ScanLastBlock(k)
  <2>1. NextColumn(k, "select") /\ UNCHANGED before
    BY <1>5 DEF ScanLastBlock, history
  <2>2. \E l : lists' = [lists EXCEPT ![k] = l]
    BY <1>5 DEF ScanLastBlock
  <2>3. \A j \in Client \ {k} : lists'[j] = lists[j]
    BY <2>2 DEF StoreInv, TypeOK
  <2> QED
    BY <2>1, <2>3, NextColumnProperties DEF StoreInv, ScanSame
<1> QED
  BY <1>1, <1>2, <1>3, <1>4, <1>5

LEMMA ScansNext ==
  ASSUME OnceInv, Scans, StoreInv', [Next]_vars, ~Crash
  PROVE  Scans'
<1>0. StoreInv
  BY DEF OnceInv, ApartInv, KeptInv
<1>1. ASSUME NEW j \in Client, ScanSame(j), stmt'[j] = "select"
      PROVE  IsScanning(j)'
  BY <1>0, <1>1, ScansStay DEF ScanSame, Scans
<1>2. ASSUME NEW k \in Client, stmt'[k] = "select" => IsScanning(k)',
             \/ Insert(k) \/ Select(k) \/ FollowLink(k) \/ InsertValue(k) \/ LinkNewBlock(k)
             \/ FillNewBlock(k) \/ ScanBlock(k) \/ ScanLastBlock(k)
      PROVE  Scans'
  BY <1>0, <1>1, <1>2, OthersScan DEF Scans
<1>3. ASSUME NEW k \in Client, Insert(k) \/ FollowLink(k) \/ LinkNewBlock(k) \/ InsertValue(k) \/ FillNewBlock(k)
      PROVE  stmt'[k] # "select"
  <2>1. CASE Insert(k) \/ FollowLink(k) \/ LinkNewBlock(k)
    BY <1>0, <2>1 DEF Insert, Begin, FollowLink, LinkNewBlock, Visit, StoreInv, TypeOK
  <2>2. CASE InsertValue(k) \/ FillNewBlock(k)
    BY <1>0, <2>2, NextColumnProperties DEF InsertValue, FillNewBlock, StoreInv, Idle
  <2> QED
    BY <1>3, <2>1, <2>2
<1>4. ASSUME NEW k \in Client, Select(k) \/ ScanBlock(k) \/ ScanLastBlock(k), stmt'[k] = "select"
      PROVE  IsScanning(k)'
  <2>1. ScanBlock(k) \/ ScanLastBlock(k) => IsScanning(k)
    BY DEF Scans, ScanBlock, ScanLastBlock, Visit
  <2> QED
    BY <1>4, <2>1, ScansBegin, ScansFollow, ScansNextColumn
<1>5. (\E k \in Client : ReleaseOther(k) \/ Meet(k) \/ ReadBeyondEnd(k)) \/ UNCHANGED vars
        => \A j \in Client : ScanSame(j)
  BY DEF ReleaseOther, Meet, ReadBeyondEnd, vars, place, history, ScanSame
<1>6. (\A j \in Client : ScanSame(j)) => Scans'
  BY <1>1 DEF Scans
<1> QED
  BY <1>2, <1>3, <1>4, <1>5, <1>6 DEF Next

LEMMA ScanInit == Init => ScanInv
<1> SUFFICES ASSUME Init PROVE ScanInv
  OBVIOUS
<1>1. ApartInv
  BY ApartInit
<1>2. RowsInv
  BY DEF Init, RowsInv, OwnRows, ToWrite, WrittenBegun, BeforeWritten, Inserting, Idle
<1>3. Scans
  BY DEF Init, Scans, Idle
<1>4. ASSUME NEW c \in Column, NEW a \in Blocks(c)
      PROVE  Stored(a).values = <<>> /\ Values(a) = {} /\ \A b \in Blocks(c) : b = a
  <2>1. Stored(a) = EmptyBlock /\ \A b \in Blocks(c) : b = a
    BY InitBlocks
  <2>2. Stored(a).values = <<>>
    BY <2>1 DEF EmptyBlock
  <2> QED
    BY <2>1, <2>2 DEF Values
<1>5. Distinct(<<>>)
  BY DEF Distinct
<1>6. OnlyWritten /\ Once
  BY <1>4, <1>5 DEF OnlyWritten, Once
<1> QED
  BY <1>1, <1>2, <1>3, <1>6 DEF ScanInv

LEMMA ScanCorrect == Spec => []ScanInv
<1>1. ASSUME ScanInv, ApartInv', [Next]_vars PROVE ScanInv'
  <2>1. StoreInv /\ StoreInv' /\ RowsInv
    BY <1>1 DEF ScanInv, ApartInv, KeptInv
  <2>2. RowsInv'
    BY <1>1, <2>1, RowsNext
  <2>3. ASSUME crashes' = 0 PROVE OnlyWritten' /\ Once' /\ Scans'
    <3>1. crashes = 0 /\ ~Crash
      BY <1>1, <2>1, <2>3, CrashesCount
    <3>2. OnceInv /\ Scans
      BY <1>1, <3>1 DEF ScanInv, ApartInv, OnceInv
    <3> QED
      BY <1>1, <2>1, <3>1, <3>2, OnceNext, ScansNext
  <2> QED
    BY <1>1, <2>2, <2>3 DEF ScanInv
<1> QED
  BY ScanInit, ApartCorrect, <1>1, PTL DEF Spec

(* A SELECT that reads a column while others append to it gets every value *)
(* that was there when it began, and none twice, until a crash.            *)
THEOREM ScansGetAll == Spec => []ScansComplete
<1>1. ScanInv => ScansComplete
  <2> SUFFICES ASSUME ScanInv, crashes = 0, NEW k \in Client, stmt[k] = "select",
                      NEW c \in 1 .. col[k] - 1
               PROVE  /\ before[k][c] \subseteq {lists[k][c][i] : i \in DOMAIN lists[k][c]}
                      /\ Cardinality({lists[k][c][i] : i \in DOMAIN lists[k][c]}) = Len(lists[k][c])
    BY DEF ScansComplete
  <2>1. StoreInv /\ IsScanning(k)
    BY DEF ScanInv, ApartInv, KeptInv, Scans
  <2>2. c \in Column /\ c < col[k]
    BY <2>1, StoreAssumption DEF StoreInv, TypeOK, Column
  <2>3. HasRead(k, c)
    BY <2>1, <2>2 DEF IsScanning
  <2>4. lists[k][c] \in Seq(Row)
    BY <2>1, <2>2 DEF StoreInv, TypeOK
  <2>5. Elements(lists[k][c]) = {lists[k][c][i] : i \in DOMAIN lists[k][c]}
    BY <2>4, LenProperties DEF Elements
  <2> QED
    BY <2>3, <2>4, <2>5, DistinctCardinality DEF HasRead
<1> QED
  BY <1>1, ScanCorrect, PTL

-----------------------------------------------------------------------------
(* ColumnStore where statements come one at a time, no process ends in     *)
(* one, and a row's values are equally long: there all columns have their  *)
(* rows in the same order in blocks of the same size, joining by position  *)
(* puts together what belongs together, and the store is a Table.          *)
OneAtATime ==
  /\ Alone
  /\ MaxCrashes = 0
  /\ \A c \in Column, r \in Row : Size[c][r] = Size[1][r]

(* What a block holds, without its link.                                   *)
Page == [values : Seq(Row), used : Nat]

(* A column's pages s are in blocks at the addresses a, each linked to the *)
(* next, and the last one to n.                                            *)
IsColumn(c, s, a, n) ==
  /\ Len(a) = Len(s)
  /\ a[1] = First(c)
  /\ \A i \in 1 .. Len(s) :
       /\ IsStored(a[i])
       /\ Stored(a[i]).values = s[i].values
       /\ Stored(a[i]).used = s[i].used
       /\ Stored(a[i]).next = IF i < Len(s) THEN a[i + 1] ELSE n

(* The pages of a column after one more row.                               *)
NewPage(r) == [values |-> <<r>>, used |-> Size[1][r]]

FullerPage(p, r) == [values |-> <<r>> \o p.values, used |-> p.used + Size[1][r]]

More(s, r) ==
  IF HaveSpace(s[Len(s)], Size[1][r]) THEN [s EXCEPT ![Len(s)] = FullerPage(s[Len(s)], r)]
  ELSE Append(s, NewPage(r))

(* Columns before c have row r already, column c leads to n.               *)
Reaches(s, adr, r, c, n) ==
  \A d \in Column :
    IsColumn(d, IF d < c THEN More(s, r) ELSE s, adr[d], IF d = c THEN n ELSE Null)

(* No two blocks of columns are at one address.                            *)
AddressesApart(adr) ==
  \A c, d \in Column : \A i \in 1 .. Len(adr[c]), j \in 1 .. Len(adr[d]) :
    adr[c][i] = adr[d][j] => c = d /\ i = j

(* What a SELECT has of a column after each of its first n pages.          *)
IsRead(pre, s, n) ==
  /\ pre \in [0 .. n -> Seq(Row)]
  /\ pre[0] = <<>>
  /\ \A i \in 1 .. n : pre[i] = pre[i - 1] \o s[i].values

InsertStands(k, s, adr) ==
  \E r \in Row, c \in Column :
    /\ r = row[k] /\ c = col[k]
    /\ Reaches(s, adr, r, c, Null)
    /\ \E i \in 1 .. Len(s) : at[k] = adr[c][i]

FillStands(k, s, adr) ==
  \E r \in Row, c \in Column, n \in Nat :
    /\ r = row[k] /\ c = col[k] /\ n = at[k] /\ n = Len(data)
    /\ Reaches(s, adr, r, c, n)
    /\ ~HaveSpace(s[Len(s)], Size[1][r])

ReadsAt(k, s, adr, c, pre, i) ==
  /\ c = col[k] /\ IsRead(pre, s, Len(s))
  /\ at[k] = adr[c][i] /\ lists[k][c] = pre[i - 1]
  /\ \A d \in Column : /\ d < c => lists[k][d] = pre[Len(s)]
                       /\ d > c => lists[k][d] = <<>>

SelectStands(k, s, adr) ==
  \E c \in Column, pre \in [0 .. Len(s) -> Seq(Row)], i \in 1 .. Len(s) :
    ReadsAt(k, s, adr, c, pre, i)

Quiet == \A k \in Client : ~Inserting(k)

(* All columns have the same pages, but for the INSERT under way.          *)
Laid(s, adr) ==
  /\ AddressesApart(adr)
  /\ Quiet => \A c \in Column : IsColumn(c, s, adr[c], Null)
  /\ \A k \in Client :
       /\ stmt[k] = "insert" => InsertStands(k, s, adr)
       /\ stmt[k] = "fill" => FillStands(k, s, adr)
       /\ stmt[k] = "select" => SelectStands(k, s, adr)

Layout ==
  \E s \in Seq(Page), adr \in [Column -> Seq(Nat)] : Len(s) > 0 /\ Laid(s, adr)

-----------------------------------------------------------------------------
(* One statement is under way at most, ...                                 *)
OneStatement == \A j, k \in Client : stmt[j] # Idle /\ stmt[k] # Idle => j = k

(* ... which has no answer yet, and a SELECT sees all that is written.     *)
NoAnswerYet ==
  \A k \in Client : /\ stmt[k] # Idle => answer[k] = <<>>
                    /\ stmt[k] = "select" => before[k] = written

(* The columns have the same rows, but for the INSERT under way.           *)
WrittenTo(W) ==
  /\ Quiet => \A c \in Column : written[c] = W
  /\ \A k \in Client : Inserting(k) =>
       \E r \in Row : r = row[k] /\ \A c \in Column :
         written[c] = IF c < col[k] THEN W \cup {r} ELSE W

AllWritten == \E W \in SUBSET Row : WrittenTo(W)

TableInv == ScanInv /\ OneStatement /\ NoAnswerYet /\ AllWritten /\ Layout /\ RecordsWhole
-----------------------------------------------------------------------------
(* A column whose blocks are not touched keeps its pages.                  *)
LEMMA ColumnKept ==
  ASSUME NEW c, NEW s, NEW a, NEW n, IsColumn(c, s, a, n),
         \A i \in 1 .. Len(s) : IsStored(a[i])' /\ Stored(a[i])' = Stored(a[i])
  PROVE  IsColumn(c, s, a, n)'
BY DEF IsColumn, First

LEMMA FileKept ==
  ASSUME UNCHANGED data, NEW c, NEW s, NEW a, NEW n
  PROVE  IsColumn(c, s, a, n) => IsColumn(c, s, a, n)'
BY DEF IsColumn, First, IsStored, Stored

LEMMA PagesTyped ==
  ASSUME NEW s \in Seq(Page)
  PROVE  /\ Len(s) \in Nat /\ DOMAIN s = 1 .. Len(s)
         /\ \A i \in 1 .. Len(s) : /\ s[i] \in Page
                                   /\ s[i].values \in Seq(Row) /\ s[i].used \in Nat
<1>1. Len(s) \in Nat /\ DOMAIN s = 1 .. Len(s) /\ \A i \in 1 .. Len(s) : s[i] \in Page
  BY LenProperties, ElementOfSeq
<1> QED
  BY <1>1 DEF Page

LEMMA SizesTyped ==
  ASSUME NEW r \in Row
  PROVE  1 \in Column /\ Size[1][r] \in Nat /\ Size[1][r] > 0 /\ Size[1][r] < Space /\ Space \in Nat
BY StoreAssumption, SizeAssumption DEF Column

(* One more row: into the last page, or on a new one.                      *)
LEMMA MoreFits ==
  ASSUME NEW s \in Seq(Page), Len(s) > 0, NEW r \in Row, HaveSpace(s[Len(s)], Size[1][r])
  PROVE  /\ More(s, r) \in Seq(Page) /\ Len(More(s, r)) = Len(s)
         /\ \A i \in 1 .. Len(s) : i # Len(s) => More(s, r)[i] = s[i]
         /\ More(s, r)[Len(s)] = FullerPage(s[Len(s)], r)
<1>1. Len(s) \in Nat /\ Len(s) \in 1 .. Len(s) /\ s[Len(s)].values \in Seq(Row) /\ s[Len(s)].used \in Nat
  BY PagesTyped
<1>2. FullerPage(s[Len(s)], r) \in Page
  <2>1. <<r>> \o s[Len(s)].values \in Seq(Row)
    BY <1>1, ConcatProperties
  <2> QED
    BY <1>1, <2>1, SizesTyped DEF FullerPage, Page
<1>3. More(s, r) = [s EXCEPT ![Len(s)] = FullerPage(s[Len(s)], r)]
  BY DEF More
<1> QED
  BY <1>1, <1>2, <1>3, ExceptSeq

LEMMA MoreLinks ==
  ASSUME NEW s \in Seq(Page), Len(s) > 0, NEW r \in Row, ~HaveSpace(s[Len(s)], Size[1][r])
  PROVE  /\ More(s, r) \in Seq(Page) /\ Len(More(s, r)) = Len(s) + 1
         /\ \A i \in 1 .. Len(s) : More(s, r)[i] = s[i]
         /\ More(s, r)[Len(s) + 1] = NewPage(r)
<1>1. NewPage(r) \in Page
  <2>1. <<r>> \in Seq(Row)
    OBVIOUS
  <2> QED
    BY <2>1, SizesTyped DEF NewPage, Page
<1>2. More(s, r) = Append(s, NewPage(r))
  BY DEF More
<1> QED
  BY <1>1, <1>2, AppendProperties

LEMMA MorePages ==
  ASSUME NEW s \in Seq(Page), Len(s) > 0, NEW r \in Row
  PROVE  More(s, r) \in Seq(Page) /\ Len(More(s, r)) > 0
<1>1. Len(s) \in Nat
  BY PagesTyped
<1> QED
  BY <1>1, MoreFits, MoreLinks

(* A SELECT finds something after each page.                               *)
LEMMA ReadExists ==
  ASSUME NEW s \in Seq(Page)
  PROVE  \E pre : IsRead(pre, s, Len(s))
<1>0. Len(s) \in Nat /\ \A i \in 1 .. Len(s) : s[i].values \in Seq(Row)
  BY PagesTyped
<1> DEFINE T == {n \in Nat : n <= Len(s) => \E pre : IsRead(pre, s, n)}
<1>1. 0 \in T
  <2>1. IsRead([i \in 0 .. 0 |-> <<>>], s, 0)
    BY DEF IsRead
  <2> QED
    BY <2>1
<1>2. ASSUME NEW n \in Nat, n \in T PROVE n + 1 \in T
  <2>1. SUFFICES ASSUME n + 1 <= Len(s) PROVE \E pre : IsRead(pre, s, n + 1)
    BY <1>2
  <2>2. PICK p : IsRead(p, s, n)
    BY <1>0, <1>2, <2>1
  <2>3. PICK v : v = p[n] \o s[n + 1].values
    OBVIOUS
  <2>4. v \in Seq(Row)
    <3>1. p[n] \in Seq(Row) /\ s[n + 1].values \in Seq(Row)
      BY <1>0, <2>1, <2>2 DEF IsRead
    <3> QED
      BY <2>3, <3>1, ConcatProperties
  <2> DEFINE q == [i \in 0 .. n + 1 |-> IF i = n + 1 THEN v ELSE p[i]]
  <2>5. q \in [0 .. n + 1 -> Seq(Row)] /\ q[0] = <<>>
    BY <2>2, <2>4, SMTT(30) DEF IsRead
  <2>6. q[n + 1] = q[n] \o s[n + 1].values
    <3>1. q[n + 1] = v /\ q[n] = p[n]
      OBVIOUS
    <3> QED
      BY <2>3, <3>1
  <2>7. ASSUME NEW i \in 1 .. n PROVE q[i] = q[i - 1] \o s[i].values
    <3>1. q[i] = p[i] /\ q[i - 1] = p[i - 1]
      OBVIOUS
    <3> QED
      BY <2>2, <3>1 DEF IsRead
  <2> HIDE DEF q
  <2>8. \A i \in 1 .. n + 1 : q[i] = q[i - 1] \o s[i].values
    <3>1. \A i \in 1 .. n + 1 : i = n + 1 \/ i \in 1 .. n
      OBVIOUS
    <3>2. (n + 1) - 1 = n
      OBVIOUS
    <3> QED
      BY <2>6, <2>7, <3>1, <3>2
  <2> QED
    BY <2>5, <2>8 DEF IsRead
<1> HIDE DEF T
<1>3. Nat \subseteq T
  BY <1>1, <1>2, NatInd
<1>4. Len(s) \in T
  BY <1>0, <1>3
<1> QED
  BY <1>0, <1>4 DEF T
-----------------------------------------------------------------------------
(* A column's pages end where its links do: the first block of all is the  *)
(* first column's, so no link is mistaken for the end.                     *)
LEMMA LastPage ==
  ASSUME NEW s \in Seq(Page), NEW adr \in [Column -> Seq(Nat)], AddressesApart(adr),
         Len(adr[1]) > 0, adr[1][1] = 0,
         NEW c \in Column, IsColumn(c, s, adr[c], Null), NEW i \in 1 .. Len(s)
  PROVE  /\ IsLast(adr[c][i]) <=> i = Len(s)
         /\ i # Len(s) => i + 1 \in 1 .. Len(s) /\ Stored(adr[c][i]).next = adr[c][i + 1]
<1>1. Len(s) \in Nat /\ Len(adr[c]) = Len(s) /\ 1 \in Column
  BY PagesTyped, StoreAssumption DEF IsColumn, Column
<1>2. Stored(adr[c][i]).next = IF i < Len(s) THEN adr[c][i + 1] ELSE Null
  BY DEF IsColumn
<1>3. i < Len(s) => adr[c][i + 1] # 0
  <2>1. ASSUME i < Len(s), adr[c][i + 1] = 0 PROVE FALSE
    <3>1. 1 \in 1 .. Len(adr[1]) /\ i + 1 \in 1 .. Len(adr[c])
      <4>1. Len(adr[1]) \in Nat
        BY <1>1, LenProperties
      <4> QED
        BY <1>1, <2>1, <4>1
    <3>2. adr[c][i + 1] = adr[1][1]
      BY <2>1
    <3>3. i + 1 = 1
      BY <1>1, <3>1, <3>2 DEF AddressesApart
    <3> QED
      BY <1>1, <3>3
  <2> QED
    BY <2>1
<1> QED
  BY <1>1, <1>2, <1>3 DEF IsLast, Null

LEMMA FirstAddress ==
  ASSUME NEW s \in Seq(Page), Len(s) > 0, NEW adr, NEW r \in Row, NEW c, NEW n,
         Reaches(s, adr, r, c, n)
  PROVE  Len(adr[1]) > 0 /\ adr[1][1] = 0
<1>1. 1 \in Column /\ First(1) = 0
  BY StoreAssumption DEF Column, First
<1>2. \E t : Len(t) > 0 /\ \E m : IsColumn(1, t, adr[1], m)
  BY <1>1, MorePages DEF Reaches
<1> QED
  BY <1>1, <1>2 DEF IsColumn

(* The columns of an INSERT, one by one.                                   *)
ReachesParts ==
  \A s, adr, r, n : \A c \in Column :
    Reaches(s, adr, r, c, n) <=>
      /\ IsColumn(c, s, adr[c], n)
      /\ \A d \in Column : d < c => IsColumn(d, More(s, r), adr[d], Null)
      /\ \A d \in Column : d > c => IsColumn(d, s, adr[d], Null)

LEMMA ReachesColumns == ReachesParts
<1>1. SUFFICES ASSUME NEW s, NEW adr, NEW r, NEW n, NEW c \in Column
               PROVE  Reaches(s, adr, r, c, n) <=>
                        /\ IsColumn(c, s, adr[c], n)
                        /\ \A d \in Column : d < c => IsColumn(d, More(s, r), adr[d], Null)
                        /\ \A d \in Column : d > c => IsColumn(d, s, adr[d], Null)
  BY DEF ReachesParts
<1>2. ASSUME NEW d \in Column
      PROVE  /\ d < c => /\ (IF d < c THEN More(s, r) ELSE s) = More(s, r)
                         /\ (IF d = c THEN n ELSE Null) = Null
             /\ d = c => /\ (IF d < c THEN More(s, r) ELSE s) = s
                         /\ (IF d = c THEN n ELSE Null) = n
             /\ d > c => /\ (IF d < c THEN More(s, r) ELSE s) = s
                         /\ (IF d = c THEN n ELSE Null) = Null
             /\ d < c \/ d = c \/ d > c
  BY DEF Column
<1> QED
  BY <1>2, Zenon DEF Reaches

LEMMA ReachesNext == ReachesParts'
BY ReachesColumns, PTL

(* A step that changes one block leaves the other pages of its column, and *)
(* the other columns, as they are.                                         *)
ChangesOnly(a) ==
  \A x \in Nat : x # a /\ IsStored(x) => IsStored(x)' /\ Stored(x)' = Stored(x)

(* Pages t are s, but for the last one, which has values v in u bytes.     *)
Becomes(s, t, v, u) ==
  /\ Len(t) = Len(s)
  /\ \A j \in 1 .. Len(s) : j # Len(s) => t[j] = s[j]
  /\ t[Len(s)].values = v /\ t[Len(s)].used = u

LEMMA OthersKept ==
  ASSUME NEW adr \in [Column -> Seq(Nat)], AddressesApart(adr),
         NEW c \in Column, NEW i \in 1 .. Len(adr[c]), NEW a \in Nat, a = adr[c][i],
         ChangesOnly(a)
  PROVE  /\ \A d \in Column : \A t, n :
              d # c /\ IsColumn(d, t, adr[d], n) => IsColumn(d, t, adr[d], n)'
         /\ \A j \in 1 .. Len(adr[c]) : j # i /\ IsStored(adr[c][j]) =>
              IsStored(adr[c][j])' /\ Stored(adr[c][j])' = Stored(adr[c][j])
<1>1. ASSUME NEW d \in Column, NEW j \in 1 .. Len(adr[d]), ~(d = c /\ j = i), IsStored(adr[d][j])
      PROVE  IsStored(adr[d][j])' /\ Stored(adr[d][j])' = Stored(adr[d][j])
  <2>1. adr[d][j] \in Nat
    <3>1. adr[d] \in Seq(Nat)
      OBVIOUS
    <3> QED
      BY <3>1, ElementOfSeq
  <2>2. adr[d][j] # a
    BY <1>1 DEF AddressesApart
  <2> QED
    BY <1>1, <2>1, <2>2 DEF ChangesOnly
<1>2. ASSUME NEW d \in Column, NEW t, NEW n, d # c, IsColumn(d, t, adr[d], n)
      PROVE  IsColumn(d, t, adr[d], n)'
  <2>1. \A j \in 1 .. Len(t) : IsStored(adr[d][j]) /\ j \in 1 .. Len(adr[d])
    BY <1>2 DEF IsColumn
  <2> QED
    BY <1>1, <1>2, <2>1, ColumnKept
<1> QED
  BY <1>1, <1>2

(* An INSERT changes the last page of a column.                            *)
LEMMA ChangesLast ==
  ASSUME StoreInv, NEW s \in Seq(Page), Len(s) > 0,
         NEW adr \in [Column -> Seq(Nat)], AddressesApart(adr), NEW r \in Row, NEW c \in Column,
         Reaches(s, adr, r, c, Null), NEW i \in 1 .. Len(s), NEW a \in Nat, a = adr[c][i], IsLast(a),
         ChangesOnly(a), IsStored(a)', NEW n, Stored(a)'.next = n,
         NEW t, Becomes(s, t, Stored(a)'.values, Stored(a)'.used)
  PROVE  /\ i = Len(s)
         /\ IsColumn(c, t, adr[c], n)'
         /\ \A d \in Column : d < c => IsColumn(d, More(s, r), adr[d], Null)'
         /\ \A d \in Column : d > c => IsColumn(d, s, adr[d], Null)'
<1>0. Len(s) \in Nat /\ Len(s) \in 1 .. Len(s)
  BY PagesTyped
<1>1. /\ IsColumn(c, s, adr[c], Null)
      /\ \A d \in Column : d < c => IsColumn(d, More(s, r), adr[d], Null)
      /\ \A d \in Column : d > c => IsColumn(d, s, adr[d], Null)
  BY ReachesColumns DEF ReachesParts
<1>2. i = Len(s) /\ Len(adr[c]) = Len(s)
  <2>1. Len(adr[1]) > 0 /\ adr[1][1] = 0
    BY FirstAddress
  <2> QED
    BY <1>1, <2>1, LastPage DEF IsColumn
<1>3. /\ \A d \in Column : \A u, m : d # c /\ IsColumn(d, u, adr[d], m) => IsColumn(d, u, adr[d], m)'
      /\ \A j \in 1 .. Len(s) : j # i /\ IsStored(adr[c][j]) =>
           IsStored(adr[c][j])' /\ Stored(adr[c][j])' = Stored(adr[c][j])
  <2>1. i \in 1 .. Len(adr[c])
    BY <1>2
  <2>2. /\ \A d \in Column : \A u, m :
             d # c /\ IsColumn(d, u, adr[d], m) => IsColumn(d, u, adr[d], m)'
        /\ \A j \in 1 .. Len(adr[c]) : j # i /\ IsStored(adr[c][j]) =>
             IsStored(adr[c][j])' /\ Stored(adr[c][j])' = Stored(adr[c][j])
    BY <2>1, OthersKept
  <2> QED
    BY <1>2, <2>2
<1>5. ASSUME NEW j \in 1 .. Len(s)
      PROVE  /\ IsStored(adr[c][j])'
             /\ Stored(adr[c][j])'.values = t[j].values
             /\ Stored(adr[c][j])'.used = t[j].used
             /\ Stored(adr[c][j])'.next = IF j < Len(s) THEN adr[c][j + 1] ELSE n
  <2>1. /\ IsStored(adr[c][j]) /\ Stored(adr[c][j]).values = s[j].values
        /\ Stored(adr[c][j]).used = s[j].used
        /\ Stored(adr[c][j]).next = IF j < Len(s) THEN adr[c][j + 1] ELSE Null
    BY <1>1 DEF IsColumn
  <2>2. CASE j = Len(s)
    BY <1>0, <1>2, <2>2 DEF Becomes
  <2>3. CASE j # Len(s)
    BY <1>0, <1>2, <1>3, <2>1, <2>3 DEF Becomes
  <2> QED
    BY <2>2, <2>3
<1>6. IsColumn(c, t, adr[c], n)'
  BY <1>1, <1>5 DEF IsColumn, First, Becomes
<1>7. \A d \in Column : (d < c \/ d > c) => d # c
  BY DEF Column
<1> QED
  BY <1>1, <1>2, <1>3, <1>6, <1>7

(* A value goes into the last page of its column.                          *)
LEMMA ValueLaid ==
  ASSUME OneAtATime, StoreInv, NEW s \in Seq(Page), Len(s) > 0,
         NEW adr \in [Column -> Seq(Nat)], AddressesApart(adr),
         NEW k \in Client, InsertValue(k), NEW r \in Row, NEW c \in Column, r = row[k], c = col[k],
         Reaches(s, adr, r, c, Null), NEW i \in 1 .. Len(s), at[k] = adr[c][i]
  PROVE  /\ IsColumn(c, More(s, r), adr[c], Null)'
         /\ \A d \in Column : d < c => IsColumn(d, More(s, r), adr[d], Null)'
         /\ \A d \in Column : d > c => IsColumn(d, s, adr[d], Null)'
<1>1. PICK a \in Nat : a = at[k]
  BY DEF StoreInv, TypeOK
<1>2. Size[c][r] = Size[1][r] /\ Size[1][r] \in Nat
  BY SizesTyped DEF OneAtATime
<1>3. /\ Len(data') = Len(data) /\ a + 1 \in 1 .. Len(data) /\ Len(data) \in Nat
      /\ \A j \in 1 .. Len(data) : data'[j] = IF j = a + 1 THEN InsertData(data[a + 1], r, Size[1][r])
                                              ELSE data[j]
      /\ data[a + 1] \in DataBlock
  BY <1>1, <1>2, ValueInserted, DataType DEF StoreInv
<1>4. /\ \A x \in Nat : x # a /\ IsStored(x) => IsStored(x)' /\ Stored(x)' = Stored(x)
      /\ IsStored(a)'
  <2>1. ASSUME NEW x \in Nat, x # a, IsStored(x) PROVE IsStored(x)' /\ Stored(x)' = Stored(x)
    <3>1. x + 1 \in 1 .. Len(data) /\ x + 1 # a + 1
      BY <1>3, <2>1 DEF IsStored
    <3>2. data'[x + 1] = data[x + 1] /\ x < Len(data')
      BY <1>3, <3>1
    <3> QED
      BY <3>2 DEF IsStored, Stored
  <2>2. IsStored(a)'
    BY <1>3 DEF IsStored
  <2> QED
    BY <2>1, <2>2
<1>5. Stored(a) \in DataBlock /\ Stored(a)' = InsertData(Stored(a), r, Size[1][r])
  BY <1>3 DEF Stored
<1>6. IsLast(a) /\ HaveSpace(Stored(a), Size[1][r])
  BY <1>1, <1>2 DEF InsertValue
<1>7. /\ Stored(a)'.values = <<r>> \o Stored(a).values
      /\ Stored(a)'.used = Stored(a).used + Size[1][r]
      /\ Stored(a)'.next = Null
  <2>1. PICK b \in DataBlock : b = Stored(a)
    BY <1>5
  <2>2. InsertData(b, r, Size[1][r]) = [values |-> <<r>> \o b.values, used |-> b.used + Size[1][r],
                                        next |-> b.next]
    BY <1>2, InsertDataProperties, ZenonT(30)
  <2> QED
    BY <1>5, <1>6, <2>1, <2>2, SMTT(30) DEF IsLast
<1>8. i = Len(s) /\ Stored(a).values = s[Len(s)].values /\ Stored(a).used = s[Len(s)].used
  <2>1. IsColumn(c, s, adr[c], Null)
    BY ReachesColumns DEF ReachesParts
  <2>2. Len(adr[1]) > 0 /\ adr[1][1] = 0
    BY FirstAddress
  <2>3. i = Len(s)
    BY <1>1, <1>6, <2>1, <2>2, LastPage, ZenonT(30)
  <2> QED
    BY <1>1, <2>1, <2>3 DEF IsColumn
<1>9. HaveSpace(s[Len(s)], Size[1][r])
  BY <1>6, <1>8 DEF HaveSpace
<1>10. PICK t : t = More(s, r)
  OBVIOUS
<1>11. /\ Len(t) = Len(s) /\ \A j \in 1 .. Len(s) : j # Len(s) => t[j] = s[j]
       /\ t[Len(s)] = FullerPage(s[Len(s)], r)
  BY <1>9, <1>10, MoreFits
<1>12. Stored(a)'.values = t[Len(s)].values /\ Stored(a)'.used = t[Len(s)].used
  BY <1>7, <1>8, <1>11 DEF FullerPage
<1>13. a = adr[c][i]
  BY <1>1
<1>14. ChangesOnly(a) /\ Becomes(s, t, Stored(a)'.values, Stored(a)'.used)
  BY <1>4, <1>11, <1>12 DEF ChangesOnly, Becomes
<1>15. /\ IsColumn(c, t, adr[c], Null)'
       /\ \A d \in Column : d < c => IsColumn(d, More(s, r), adr[d], Null)'
       /\ \A d \in Column : d > c => IsColumn(d, s, adr[d], Null)'
  BY <1>4, <1>6, <1>7, <1>13, <1>14, ChangesLast
<1> QED
  BY <1>10, <1>15

(* The last page of a column gets its link.                                *)
LEMMA LinkLaid ==
  ASSUME OneAtATime, StoreInv, NEW s \in Seq(Page), Len(s) > 0,
         NEW adr \in [Column -> Seq(Nat)], AddressesApart(adr),
         NEW k \in Client, LinkNewBlock(k), NEW r \in Row, NEW c \in Column, r = row[k], c = col[k],
         Reaches(s, adr, r, c, Null), NEW i \in 1 .. Len(s), at[k] = adr[c][i],
         NEW n \in Nat, n = Len(data)
  PROVE  Reaches(s, adr, r, c, n)' /\ Len(data') = n /\ ~HaveSpace(s[Len(s)], Size[1][r])
<1>1. PICK a \in Nat : a = at[k]
  BY DEF StoreInv, TypeOK
<1>2. Size[c][r] = Size[1][r]
  BY DEF OneAtATime
<1>3. /\ Len(data') = Len(data) /\ a + 1 \in 1 .. Len(data)
      /\ \A j \in 1 .. Len(data) :
           data'[j] = IF j = a + 1 THEN [values |-> data[a + 1].values, used |-> data[a + 1].used, next |-> n]
                      ELSE data[j]
  BY <1>1, BlockLinked
<1>3a. Len(data) \in Nat
  OBVIOUS
<1>4. /\ \A x \in Nat : x # a /\ IsStored(x) => IsStored(x)' /\ Stored(x)' = Stored(x)
      /\ IsStored(a)'
  <2>1. ASSUME NEW x \in Nat, x # a, IsStored(x) PROVE IsStored(x)' /\ Stored(x)' = Stored(x)
    <3>1. x + 1 \in 1 .. Len(data) /\ x + 1 # a + 1
      BY <1>3, <1>3a, <2>1, SMTT(30) DEF IsStored
    <3>2. data'[x + 1] = data[x + 1] /\ x < Len(data')
      BY <1>3, <1>3a, <3>1
    <3> QED
      BY <3>2 DEF IsStored, Stored
  <2>2. IsStored(a)'
    BY <1>3, <1>3a DEF IsStored
  <2> QED
    BY <2>1, <2>2
<1>5. /\ Stored(a)'.values = Stored(a).values
      /\ Stored(a)'.used = Stored(a).used
      /\ Stored(a)'.next = n
  BY <1>3 DEF Stored
<1>6. IsLast(a) /\ ~HaveSpace(Stored(a), Size[1][r])
  BY <1>1, <1>2 DEF LinkNewBlock
<1>7. i = Len(s) /\ Stored(a).values = s[Len(s)].values /\ Stored(a).used = s[Len(s)].used
  <2>1. IsColumn(c, s, adr[c], Null)
    BY ReachesColumns DEF ReachesParts
  <2>2. Len(adr[1]) > 0 /\ adr[1][1] = 0
    BY FirstAddress
  <2>3. i = Len(s)
    BY <1>1, <1>6, <2>1, <2>2, LastPage, ZenonT(30)
  <2> QED
    BY <1>1, <2>1, <2>3 DEF IsColumn
<1>8. ~HaveSpace(s[Len(s)], Size[1][r])
  BY <1>6, <1>7 DEF HaveSpace
<1>9. a = adr[c][i]
  BY <1>1
<1>10. Stored(a)'.values = s[Len(s)].values /\ Stored(a)'.used = s[Len(s)].used
  BY <1>5, <1>7
<1>11. ChangesOnly(a) /\ Becomes(s, s, Stored(a)'.values, Stored(a)'.used)
  BY <1>4, <1>10 DEF ChangesOnly, Becomes
<1>12. /\ IsColumn(c, s, adr[c], n)'
       /\ \A d \in Column : d < c => IsColumn(d, More(s, r), adr[d], Null)'
       /\ \A d \in Column : d > c => IsColumn(d, s, adr[d], Null)'
  BY <1>4, <1>5, <1>6, <1>9, <1>11, ChangesLast
<1>13. Reaches(s, adr, r, c, n)'
  BY <1>12, ReachesNext DEF ReachesParts
<1> QED
  BY <1>3, <1>8, <1>13

Longer(adr, c, n) == [adr EXCEPT ![c] = Append(adr[c], n)]

(* The new block gets the row: its column has one more page.               *)
LEMMA FillLaid ==
  ASSUME OneAtATime, StoreInv, NEW s \in Seq(Page), Len(s) > 0,
         NEW adr \in [Column -> Seq(Nat)], AddressesApart(adr),
         NEW k \in Client, FillNewBlock(k), NEW r \in Row, NEW c \in Column, r = row[k], c = col[k],
         NEW n \in Nat, n = Len(data), Reaches(s, adr, r, c, n), ~HaveSpace(s[Len(s)], Size[1][r]),
         NEW new, new = Longer(adr, c, n)
  PROVE  /\ new \in [Column -> Seq(Nat)] /\ AddressesApart(new)
         /\ IsColumn(c, More(s, r), new[c], Null)'
         /\ \A d \in Column : d < c => IsColumn(d, More(s, r), new[d], Null)'
         /\ \A d \in Column : d > c => IsColumn(d, s, new[d], Null)'
<1>0. Len(s) \in Nat /\ \A d \in Column : d \in Int
  BY PagesTyped DEF Column
<1>0a. new = [adr EXCEPT ![c] = Append(adr[c], n)]
  BY DEF Longer
<1>1. /\ IsColumn(c, s, adr[c], n)
      /\ \A d \in Column : d < c => IsColumn(d, More(s, r), adr[d], Null)
      /\ \A d \in Column : d > c => IsColumn(d, s, adr[d], Null)
  BY ReachesColumns DEF ReachesParts
<1>2. /\ new \in [Column -> Seq(Nat)] /\ \A d \in Column : d # c => new[d] = adr[d]
      /\ Len(new[c]) = Len(adr[c]) + 1 /\ Len(adr[c]) \in Nat
      /\ \A i \in 1 .. Len(adr[c]) : new[c][i] = adr[c][i]
      /\ new[c][Len(adr[c]) + 1] = n
  <2>1. adr[c] \in Seq(Nat) /\ new[c] = Append(adr[c], n)
    BY DEF Longer
  <2>2. /\ Append(adr[c], n) \in Seq(Nat) /\ Len(adr[c]) \in Nat
        /\ Len(Append(adr[c], n)) = Len(adr[c]) + 1
        /\ \A i \in 1 .. Len(adr[c]) : Append(adr[c], n)[i] = adr[c][i]
        /\ Append(adr[c], n)[Len(adr[c]) + 1] = n
    BY <2>1, AppendProperties, LenProperties
  <2>3. new \in [Column -> Seq(Nat)] /\ \A d \in Column : d # c => new[d] = adr[d]
    BY <2>2 DEF Longer
  <2> QED
    BY <2>1, <2>2, <2>3
<1>3. ASSUME NEW d \in Column, NEW j \in 1 .. Len(adr[d]) PROVE adr[d][j] \in Nat /\ adr[d][j] < n
  <2>1. adr[d][j] \in Nat
    <3>1. adr[d] \in Seq(Nat)
      OBVIOUS
    <3> QED
      BY <3>1, ElementOfSeq
  <2>2. \E t, m : IsColumn(d, t, adr[d], m)
    <3>1. d < c \/ d = c \/ d > c
      BY <1>0
    <3> QED
      BY <1>1, <3>1
  <2>3. IsStored(adr[d][j])
    BY <2>2 DEF IsColumn
  <2> QED
    BY <2>1, <2>3 DEF IsStored
<1>4. AddressesApart(new)
  <2>1. ASSUME NEW d \in Column, NEW e \in Column,
               NEW i \in 1 .. Len(new[d]), NEW j \in 1 .. Len(new[e]), new[d][i] = new[e][j]
        PROVE  d = e /\ i = j
    <3>1. (i \in 1 .. Len(adr[d]) /\ new[d][i] = adr[d][i])
            \/ (d = c /\ i = Len(adr[c]) + 1 /\ new[d][i] = n)
      <4>1. CASE d = c
        BY <1>0a, <1>2, <2>1, <4>1
      <4>2. CASE d # c
        BY <1>2, <2>1, <4>2
      <4> QED
        BY <4>1, <4>2
    <3>2. (j \in 1 .. Len(adr[e]) /\ new[e][j] = adr[e][j])
            \/ (e = c /\ j = Len(adr[c]) + 1 /\ new[e][j] = n)
      <4>1. CASE e = c
        BY <1>0a, <1>2, <2>1, <4>1
      <4>2. CASE e # c
        BY <1>2, <2>1, <4>2
      <4> QED
        BY <4>1, <4>2
    <3>3. ~(n < n)
      OBVIOUS
    <3>4. i \in 1 .. Len(adr[d]) /\ j \in 1 .. Len(adr[e]) => d = e /\ i = j
      BY <2>1, <3>1, <3>2, <3>3, <1>3, SMTT(30) DEF AddressesApart
    <3> QED
      BY <1>3, <2>1, <3>1, <3>2, <3>3, <3>4
  <2> QED
    BY <2>1 DEF AddressesApart
<1>5. Size[c][r] = Size[1][r]
  BY DEF OneAtATime
<1>6. /\ Len(data') = n + 1 /\ data'[n + 1] = [values |-> <<r>>, used |-> Size[1][r], next |-> Null]
      /\ \A j \in 1 .. n : data'[j] = data[j]
  BY <1>5, BlockFilled
<1>7. /\ \A x \in Nat : IsStored(x) => IsStored(x)' /\ Stored(x)' = Stored(x)
      /\ IsStored(n)' /\ Stored(n)' = [values |-> <<r>>, used |-> Size[1][r], next |-> Null]
  <2>1. ASSUME NEW x \in Nat, IsStored(x) PROVE IsStored(x)' /\ Stored(x)' = Stored(x)
    <3>1. x + 1 \in 1 .. n /\ x < Len(data')
      BY <1>6, <2>1 DEF IsStored
    <3> QED
      BY <1>6, <3>1 DEF IsStored, Stored
  <2>2. IsStored(n)'
    BY <1>6 DEF IsStored
  <2>3. Stored(n)' = [values |-> <<r>>, used |-> Size[1][r], next |-> Null]
    BY <1>6 DEF Stored
  <2> QED
    BY <2>1, <2>2, <2>3
<1>8. ASSUME NEW d \in Column, NEW t, NEW m, d # c, IsColumn(d, t, adr[d], m)
      PROVE  IsColumn(d, t, new[d], m)'
  <2>1. \A i \in 1 .. Len(t) : IsStored(adr[d][i])' /\ Stored(adr[d][i])' = Stored(adr[d][i])
    BY <1>3, <1>7, <1>8 DEF IsColumn
  <2> QED
    BY <1>2, <1>8, <2>1, ColumnKept
<1>9. PICK t : t = More(s, r)
  OBVIOUS
<1>10. /\ Len(t) = Len(s) + 1 /\ \A i \in 1 .. Len(s) : t[i] = s[i]
       /\ t[Len(s) + 1] = NewPage(r)
  BY <1>9, MoreLinks
<1>11. IsColumn(c, t, new[c], Null)'
  <2>1. Len(adr[c]) = Len(s) /\ new[c][1] = First(c)
    <3>1. Len(adr[c]) = Len(s) /\ adr[c][1] = First(c)
      BY <1>1 DEF IsColumn
    <3>2. 1 \in 1 .. Len(adr[c])
      BY <1>0, <3>1
    <3> QED
      BY <1>2, <3>1, <3>2
  <2>2. ASSUME NEW i \in 1 .. Len(t)
        PROVE  /\ IsStored(new[c][i])'
               /\ Stored(new[c][i])'.values = t[i].values
               /\ Stored(new[c][i])'.used = t[i].used
               /\ Stored(new[c][i])'.next = IF i < Len(t) THEN new[c][i + 1] ELSE Null
    <3>1. CASE i = Len(s) + 1
      <4>1. new[c][i] = n /\ t[i] = NewPage(r) /\ ~(i < Len(t))
        BY <1>0, <1>2, <1>10, <2>1, <3>1
      <4>2. /\ Stored(n)'.values = <<r>> /\ Stored(n)'.used = Size[1][r] /\ Stored(n)'.next = Null
            /\ NewPage(r).values = <<r>> /\ NewPage(r).used = Size[1][r]
        BY <1>7 DEF NewPage
      <4> QED
        BY <1>7, <4>1, <4>2
    <3>2. CASE i # Len(s) + 1
      <4>0. i \in 1 .. Len(s) /\ i < Len(t)
        BY <1>0, <1>10, <3>2
      <4>1. i \in 1 .. Len(s) /\ i < Len(t) /\ new[c][i] = adr[c][i] /\ t[i] = s[i]
        BY <1>2, <1>10, <2>1, <4>0
      <4>2. IsStored(adr[c][i])' /\ Stored(adr[c][i])' = Stored(adr[c][i])
        BY <1>1, <1>3, <1>7, <2>1, <4>1 DEF IsColumn
      <4>3. /\ Stored(adr[c][i]).values = s[i].values /\ Stored(adr[c][i]).used = s[i].used
            /\ Stored(adr[c][i]).next = IF i < Len(s) THEN adr[c][i + 1] ELSE n
        BY <1>1, <4>1 DEF IsColumn
      <4>4. Stored(adr[c][i]).next = new[c][i + 1]
        <5>1. CASE i < Len(s)
          <6>1. i + 1 \in 1 .. Len(adr[c])
            BY <1>0, <2>1, <4>1, <5>1
          <6> QED
            BY <1>2, <4>3, <5>1, <6>1
        <5>2. CASE ~(i < Len(s))
          <6>1. i = Len(adr[c])
            BY <1>0, <2>1, <4>1, <5>2
          <6> QED
            BY <1>2, <4>3, <5>2, <6>1
        <5> QED
          BY <5>1, <5>2
      <4> QED
        BY <4>1, <4>2, <4>3, <4>4
    <3> QED
      BY <3>1, <3>2
  <2> QED
    BY <1>0, <1>2, <1>10, <2>1, <2>2 DEF IsColumn, First
<1>12. \A d \in Column : (d < c \/ d > c) => d # c
  BY <1>0
<1> QED
  BY <1>1, <1>2, <1>4, <1>8, <1>9, <1>11, <1>12
-----------------------------------------------------------------------------
(* Statements come one at a time.                                          *)
LEMMA OthersIdle ==
  ASSUME OneStatement, NEW k \in Client, stmt[k] # Idle
  PROVE  \A j \in Client : j # k => stmt[j] = Idle
BY DEF OneStatement

LEMMA StatementsNext ==
  ASSUME OneAtATime, StoreInv, OneStatement, [Next]_vars
  PROVE  OneStatement'
<1> USE DEF StoreInv, TypeOK
<1>1. ASSUME NEW k \in Client, Insert(k) \/ Select(k) PROVE OneStatement'
  <2>1. /\ \A j \in Client : stmt[j] = Idle
        /\ \A j \in Client : j # k => stmt'[j] = stmt[j]
    BY <1>1 DEF Insert, Select, Begin, OneAtATime
  <2> QED
    BY <2>1 DEF OneStatement
<1>2. ASSUME \A j \in Client : stmt'[j] # Idle => stmt[j] # Idle PROVE OneStatement'
  BY <1>2 DEF OneStatement
<1>3. ASSUME NEW k \in Client, FollowLink(k) \/ LinkNewBlock(k) \/ ScanBlock(k)
      PROVE  \A j \in Client : stmt'[j] # Idle => stmt[j] # Idle
  BY <1>3 DEF FollowLink, LinkNewBlock, ScanBlock, Visit, Idle
<1>4. ASSUME NEW k \in Client, InsertValue(k) \/ FillNewBlock(k) \/ ScanLastBlock(k)
      PROVE  \A j \in Client : stmt'[j] # Idle => stmt[j] # Idle
  <2>1. \E s \in {"insert", "select"} : NextColumn(k, s) /\ stmt[k] # Idle
    BY <1>4 DEF InsertValue, FillNewBlock, ScanLastBlock, Visit, Idle
  <2> QED
    BY <2>1, NextColumnProperties
<1>5. ASSUME \/ \E k \in Client : ReleaseOther(k) \/ Meet(k) \/ ReadBeyondEnd(k)
             \/ Crash \/ UNCHANGED vars
      PROVE  \A j \in Client : stmt'[j] # Idle => stmt[j] # Idle
  BY <1>5 DEF ReleaseOther, Meet, ReadBeyondEnd, Crash, vars
<1> QED
  BY <1>1, <1>2, <1>3, <1>4, <1>5 DEF Next

(* Where the only statement stands is all there is to say of a layout.     *)
LEMMA LaidByOne ==
  ASSUME NEW k \in Client, \A j \in Client : j # k => stmt'[j] = Idle,
         NEW s, NEW adr, AddressesApart(adr),
         ~Inserting(k)' => \A c \in Column : IsColumn(c, s, adr[c], Null)',
         stmt'[k] = "insert" => InsertStands(k, s, adr)',
         stmt'[k] = "fill" => FillStands(k, s, adr)',
         stmt'[k] = "select" => SelectStands(k, s, adr)'
  PROVE  Laid(s, adr)'
<1>1. AddressesApart(adr)'
  BY DEF AddressesApart
<1>2. Quiet' => ~Inserting(k)'
  BY DEF Quiet
<1>3. ASSUME NEW j \in Client
      PROVE  /\ stmt'[j] = "insert" => InsertStands(j, s, adr)'
             /\ stmt'[j] = "fill" => FillStands(j, s, adr)'
             /\ stmt'[j] = "select" => SelectStands(j, s, adr)'
  BY DEF Idle
<1> QED
  BY <1>1, <1>2, <1>3 DEF Laid

LEMMA LayoutBegin ==
  ASSUME OneAtATime, StoreInv, Layout, NEW k \in Client, Insert(k) \/ Select(k)
  PROVE  Layout'
<1>1. PICK q \in {"insert", "select"} : Begin(k, q) /\ (q = "insert" => Insert(k)) /\ (q = "select" => Select(k))
  BY DEF Insert, Select
<1>2. PICK s \in Seq(Page), adr \in [Column -> Seq(Nat)] : Len(s) > 0 /\ Laid(s, adr)
  BY DEF Layout
<1>3. /\ \A j \in Client : stmt[j] = Idle
      /\ \A j \in Client : j # k => stmt'[j] = Idle
      /\ stmt'[k] = q /\ col'[k] = 1 /\ at'[k] = First(1) /\ lists'[k] = Nothing /\ UNCHANGED data
  BY <1>1 DEF Begin, OneAtATime, StoreInv, TypeOK
<1>4. AddressesApart(adr) /\ \A c \in Column : IsColumn(c, s, adr[c], Null)
  BY <1>2, <1>3 DEF Laid, Quiet, Inserting, Idle
<1>5. \A c \in Column : IsColumn(c, s, adr[c], Null)'
  BY <1>3, <1>4, FileKept
<1>6. Len(s) \in Nat /\ 1 \in 1 .. Len(s) /\ 1 \in Column /\ adr[1][1] = First(1)
  BY <1>2, <1>4, PagesTyped, StoreAssumption DEF Column, IsColumn
<1>7. ASSUME q = "insert" PROVE InsertStands(k, s, adr)'
  <2>1. PICK r : r = row'[k]
    OBVIOUS
  <2>2. r \in Row
    <3>1. StoreInv'
      BY <1>7, <1>1, StoreBegin
    <3>2. rows' \in 0 .. MaxRows /\ row'[k] \in 1 .. rows'
      BY <1>3, <1>7, <3>1 DEF StoreInv, RowsBegun, Inserting, TypeOK
    <3> QED
      BY <2>1, <3>2, StoreAssumption DEF Row
  <2>3. Reaches(s, adr, r, 1, Null)'
    <3>1. \A d \in Column : ~(d < 1)
      BY DEF Column
    <3> QED
      BY <1>5, <1>6, <3>1, ReachesNext DEF ReachesParts
  <2> QED
    BY <1>3, <1>6, <2>1, <2>2, <2>3 DEF InsertStands
<1>8. ASSUME q = "select" PROVE SelectStands(k, s, adr)'
  <2>1. PICK pre \in [0 .. Len(s) -> Seq(Row)] : IsRead(pre, s, Len(s))
    BY ReadExists DEF IsRead
  <2>2. pre[0] = <<>> /\ \A d \in Column : ~(d < 1) /\ lists'[k][d] = <<>>
    BY <1>3, <2>1 DEF Column, Nothing, IsRead
  <2>3. IsRead(pre, s, Len(s))'
    BY <2>1 DEF IsRead
  <2>4. at'[k] = adr[1][1] /\ lists'[k][1] = pre[1 - 1]
    BY <1>3, <1>6, <2>2
  <2>5. \A d \in Column : (d < 1 => lists'[k][d] = pre[Len(s)]) /\ (d > 1 => lists'[k][d] = <<>>)
    BY <2>2
  <2> QED
    BY <1>3, <1>6, <2>3, <2>4, <2>5 DEF SelectStands, ReadsAt
<1>9. Laid(s, adr)'
  BY <1>3, <1>4, <1>5, <1>7, <1>8, LaidByOne
<1> QED
  BY <1>2, <1>9 DEF Layout

(* To the next block of the column, with what the last one had.            *)
LEMMA LayoutFollow ==
  ASSUME StoreInv, OneStatement, Layout, NEW k \in Client, FollowLink(k)
  PROVE  Layout'
<1>1. PICK s \in Seq(Page), adr \in [Column -> Seq(Nat)] : Len(s) > 0 /\ Laid(s, adr)
  BY DEF Layout
<1>2. /\ stmt[k] = "insert" /\ ~IsLast(at[k]) /\ at'[k] = Stored(at[k]).next
      /\ UNCHANGED <<data, stmt, row, col>>
  BY DEF FollowLink, Visit, NextBlock, StoreInv, TypeOK
<1>3. \A j \in Client : j # k => stmt'[j] = Idle
  BY <1>2, OthersIdle DEF Idle
<1>4. PICK r \in Row, c \in Column, i \in 1 .. Len(s) :
        r = row[k] /\ c = col[k] /\ Reaches(s, adr, r, c, Null) /\ at[k] = adr[c][i]
  BY <1>1, <1>2 DEF Laid, InsertStands
<1>5. i + 1 \in 1 .. Len(s) /\ at'[k] = adr[c][i + 1]
  <2>1. IsColumn(c, s, adr[c], Null)
    BY <1>4, ReachesColumns DEF ReachesParts
  <2>2. Len(adr[1]) > 0 /\ adr[1][1] = 0
    BY <1>1, <1>4, FirstAddress
  <2>3. AddressesApart(adr)
    BY <1>1 DEF Laid
  <2>4. /\ IsLast(adr[c][i]) <=> i = Len(s)
        /\ i # Len(s) => i + 1 \in 1 .. Len(s) /\ Stored(adr[c][i]).next = adr[c][i + 1]
    BY <2>1, <2>2, <2>3, LastPage
  <2>5. ~IsLast(adr[c][i]) /\ at'[k] = Stored(adr[c][i]).next
    BY <1>2, <1>4
  <2> QED
    BY <2>4, <2>5
<1>6. Reaches(s, adr, r, c, Null)'
  BY <1>2, <1>4, FileKept DEF Reaches
<1>7. InsertStands(k, s, adr)'
  BY <1>2, <1>4, <1>5, <1>6 DEF InsertStands
<1>8. Laid(s, adr)'
  BY <1>1, <1>2, <1>3, <1>7, LaidByOne DEF Laid, Inserting
<1> QED
  BY <1>1, <1>8 DEF Layout

LEMMA LayoutLink ==
  ASSUME OneAtATime, StoreInv, OneStatement, Layout, NEW k \in Client, LinkNewBlock(k)
  PROVE  Layout'
<1>1. PICK s \in Seq(Page), adr \in [Column -> Seq(Nat)] : Len(s) > 0 /\ Laid(s, adr)
  BY DEF Layout
<1>2. /\ stmt[k] = "insert" /\ stmt'[k] = "fill" /\ at'[k] = Len(data)
      /\ \A j \in Client : j # k => stmt'[j] = stmt[j]
      /\ UNCHANGED <<row, col>>
  BY DEF LinkNewBlock, Visit, NewBlockAddress, StoreInv, TypeOK
<1>3. \A j \in Client : j # k => stmt'[j] = Idle
  BY <1>2, OthersIdle DEF Idle
<1>4. PICK r \in Row, c \in Column, i \in 1 .. Len(s) :
        r = row[k] /\ c = col[k] /\ Reaches(s, adr, r, c, Null) /\ at[k] = adr[c][i]
  BY <1>1, <1>2 DEF Laid, InsertStands
<1>5. PICK n \in Nat : n = Len(data)
  BY DataType DEF StoreInv
<1>6. AddressesApart(adr)
  BY <1>1 DEF Laid
<1>7. Reaches(s, adr, r, c, n)' /\ Len(data') = n /\ ~HaveSpace(s[Len(s)], Size[1][r])
  BY <1>1, <1>4, <1>5, <1>6, LinkLaid, ZenonT(30)
<1>8. FillStands(k, s, adr)'
  <2>1. r = row'[k] /\ c = col'[k] /\ n = at'[k] /\ n = Len(data')
    BY <1>2, <1>4, <1>5, <1>7
  <2>2. (~HaveSpace(s[Len(s)], Size[1][r]))'
    BY <1>7 DEF HaveSpace
  <2> QED
    BY <1>7, <2>1, <2>2 DEF FillStands
<1>9. Laid(s, adr)'
  BY <1>2, <1>3, <1>6, <1>8, LaidByOne DEF Inserting
<1> QED
  BY <1>1, <1>9 DEF Layout

(* A column has its new row: the INSERT goes on to the next column, or all *)
(* columns have it.                                                        *)
LEMMA ColumnDone ==
  ASSUME StoreInv, OneStatement, NEW k \in Client, stmt[k] # Idle, NextColumn(k, "insert"),
         NEW s \in Seq(Page), Len(s) > 0, NEW adr \in [Column -> Seq(Nat)], AddressesApart(adr),
         NEW r \in Row, NEW c \in Column, r = row[k], c = col[k], row' = row,
         IsColumn(c, More(s, r), adr[c], Null)',
         \A d \in Column : d < c => IsColumn(d, More(s, r), adr[d], Null)',
         \A d \in Column : d > c => IsColumn(d, s, adr[d], Null)'
  PROVE  Layout'
<1>0. \A d \in Column : d \in Int /\ d >= 1 /\ d <= Columns
  BY StoreAssumption DEF Column
<1>1. /\ \A j \in Client \ {k} : stmt'[j] = stmt[j]
      /\ col'[k] \in Column
      /\ \/ stmt'[k] = "insert" /\ col'[k] = c + 1 /\ at'[k] = First(c + 1)
         \/ stmt'[k] = Idle /\ c = Columns
  BY NextColumnProperties DEF StoreInv
<1>2. \A j \in Client : j # k => stmt'[j] = Idle
  BY <1>1, OthersIdle
<1>3. CASE stmt'[k] = "insert" /\ col'[k] = c + 1 /\ at'[k] = First(c + 1)
  <2>1. PICK e \in Column : e = c + 1
    BY <1>1, <1>3
  <2>2. IsColumn(e, s, adr[e], Null)'
    BY <1>0, <2>1
  <2>3. \A d \in Column : d < e => IsColumn(d, More(s, r), adr[d], Null)'
    <3>1. \A d \in Column : d < e => d < c \/ d = c
      BY <1>0, <2>1
    <3> QED
      BY <3>1
  <2>4. \A d \in Column : d > e => IsColumn(d, s, adr[d], Null)'
    <3>1. \A d \in Column : d > e => d > c
      BY <1>0, <2>1
    <3> QED
      BY <3>1
  <2>5. Reaches(s, adr, r, e, Null)'
    BY <2>2, <2>3, <2>4, ReachesNext DEF ReachesParts
  <2>6. 1 \in 1 .. Len(s) /\ at'[k] = adr[e][1]
    BY <1>3, <2>1, <2>2, PagesTyped DEF IsColumn, First
  <2>7. InsertStands(k, s, adr)'
    BY <1>3, <2>1, <2>5, <2>6 DEF InsertStands
  <2>8. Laid(s, adr)'
    BY <1>2, <1>3, <2>7, LaidByOne DEF Inserting
  <2> QED
    BY <2>8 DEF Layout
<1>4. CASE stmt'[k] = Idle /\ c = Columns
  <2>1. PICK t \in Seq(Page) : t = More(s, r) /\ Len(t) > 0
    BY MorePages
  <2>2. \A d \in Column : d < c \/ d = c
    BY <1>0, <1>4
  <2>3. \A d \in Column : IsColumn(d, More(s, r), adr[d], Null)'
    BY <2>2
  <2>4. \A d \in Column : IsColumn(d, t, adr[d], Null)'
    BY <2>1, <2>3
  <2>5. Laid(t, adr)'
    BY <1>2, <1>4, <2>4, LaidByOne DEF Idle
  <2> QED
    BY <2>1, <2>5 DEF Layout
<1> QED
  BY <1>1, <1>3, <1>4

LEMMA LayoutValue ==
  ASSUME OneAtATime, StoreInv, OneStatement, Layout, NEW k \in Client, InsertValue(k)
  PROVE  Layout'
<1>1. PICK s \in Seq(Page), adr \in [Column -> Seq(Nat)] : Len(s) > 0 /\ Laid(s, adr)
  BY DEF Layout
<1>2. stmt[k] = "insert" /\ stmt[k] # Idle /\ NextColumn(k, "insert") /\ row' = row
  BY DEF InsertValue, Visit, Idle
<1>3. PICK r \in Row, c \in Column, i \in 1 .. Len(s) :
        r = row[k] /\ c = col[k] /\ Reaches(s, adr, r, c, Null) /\ at[k] = adr[c][i]
  BY <1>1, <1>2 DEF Laid, InsertStands
<1>4. AddressesApart(adr)
  BY <1>1 DEF Laid
<1>5. /\ IsColumn(c, More(s, r), adr[c], Null)'
      /\ \A d \in Column : d < c => IsColumn(d, More(s, r), adr[d], Null)'
      /\ \A d \in Column : d > c => IsColumn(d, s, adr[d], Null)'
  BY <1>1, <1>3, <1>4, ValueLaid
<1> QED
  BY <1>1, <1>2, <1>3, <1>4, <1>5, ColumnDone

LEMMA LayoutFill ==
  ASSUME OneAtATime, StoreInv, OneStatement, Layout, NEW k \in Client, FillNewBlock(k)
  PROVE  Layout'
<1>1. PICK s \in Seq(Page), adr \in [Column -> Seq(Nat)] : Len(s) > 0 /\ Laid(s, adr)
  BY DEF Layout
<1>2. stmt[k] = "fill" /\ stmt[k] # Idle /\ NextColumn(k, "insert") /\ row' = row
  BY DEF FillNewBlock, Idle
<1>3. PICK r \in Row, c \in Column, n \in Nat :
        /\ r = row[k] /\ c = col[k] /\ n = Len(data) /\ Reaches(s, adr, r, c, n)
        /\ ~HaveSpace(s[Len(s)], Size[1][r])
  BY <1>1, <1>2 DEF Laid, FillStands
<1>4. AddressesApart(adr)
  BY <1>1 DEF Laid
<1>5. PICK new : new = Longer(adr, c, n)
  OBVIOUS
<1>6. /\ new \in [Column -> Seq(Nat)] /\ AddressesApart(new)
      /\ IsColumn(c, More(s, r), new[c], Null)'
      /\ \A d \in Column : d < c => IsColumn(d, More(s, r), new[d], Null)'
      /\ \A d \in Column : d > c => IsColumn(d, s, new[d], Null)'
  BY <1>1, <1>3, <1>4, <1>5, FillLaid
<1> QED
  BY <1>1, <1>2, <1>3, <1>6, ColumnDone

-----------------------------------------------------------------------------

(* A SELECT's list after a block is what it has of its column up to there. *)
LEMMA ColumnRead ==
  ASSUME StoreInv, OneStatement, NEW s \in Seq(Page), Len(s) > 0,
         NEW adr \in [Column -> Seq(Nat)], Laid(s, adr),
         NEW k \in Client, stmt[k] = "select",
         NEW c \in Column, NEW pre, NEW i \in 1 .. Len(s), ReadsAt(k, s, adr, c, pre, i)
  PROVE  /\ \A d \in Column : IsColumn(d, s, adr[d], Null)
         /\ ScanList(k) = pre[i]
         /\ IsLast(at[k]) <=> i = Len(s)
         /\ i # Len(s) => i + 1 \in 1 .. Len(s) /\ Stored(at[k]).next = adr[c][i + 1]
<1>1. Quiet
  BY DEF Quiet, Inserting, OneStatement, Idle
<1>2. AddressesApart(adr) /\ \A d \in Column : IsColumn(d, s, adr[d], Null)
  BY <1>1 DEF Laid
<1>3. PICK a : a = adr[c][i]
  OBVIOUS
<1>4. Stored(a).values = s[i].values
  BY <1>2, <1>3 DEF IsColumn
<1>5. ScanList(k) = pre[i]
  <2>1. ScanList(k) = pre[i - 1] \o Stored(a).values
    BY <1>3 DEF ScanList, ReadsAt
  <2>2. pre[i] = pre[i - 1] \o s[i].values
    BY DEF IsRead, ReadsAt
  <2> QED
    BY <1>4, <2>1, <2>2
<1>6. Len(adr[1]) > 0 /\ adr[1][1] = 0
  <2>1. 1 \in Column /\ First(1) = 0
    BY StoreAssumption DEF Column, First
  <2>2. IsColumn(1, s, adr[1], Null)
    BY <1>2, <2>1
  <2> QED
    BY <2>1, <2>2 DEF IsColumn
<1>7. IsColumn(c, s, adr[c], Null)
  BY <1>2
<1>8. /\ IsLast(adr[c][i]) <=> i = Len(s)
      /\ i # Len(s) => i + 1 \in 1 .. Len(s) /\ Stored(adr[c][i]).next = adr[c][i + 1]
  BY <1>2, <1>6, <1>7, LastPage, ZenonT(30)
<1> QED
  BY <1>2, <1>5, <1>8 DEF ReadsAt

LEMMA LayoutScan ==
  ASSUME StoreInv, OneStatement, Layout, NEW k \in Client, ScanBlock(k)
  PROVE  Layout'
<1>1. PICK s \in Seq(Page), adr \in [Column -> Seq(Nat)] : Len(s) > 0 /\ Laid(s, adr)
  BY DEF Layout
<1>2. /\ stmt[k] = "select" /\ ~IsLast(at[k]) /\ at'[k] = Stored(at[k]).next
      /\ UNCHANGED <<data, stmt, col>>
  BY DEF ScanBlock, Visit, NextBlock, StoreInv, TypeOK
<1>3. \A j \in Client : j # k => stmt'[j] = Idle
  BY <1>2, OthersIdle DEF Idle
<1>4. PICK c \in Column, pre \in [0 .. Len(s) -> Seq(Row)], i \in 1 .. Len(s) :
        ReadsAt(k, s, adr, c, pre, i)
  BY <1>1, <1>2 DEF Laid, SelectStands
<1>5. /\ \A d \in Column : IsColumn(d, s, adr[d], Null)
      /\ ScanList(k) = pre[i]
      /\ IsLast(at[k]) <=> i = Len(s)
      /\ i # Len(s) => i + 1 \in 1 .. Len(s) /\ Stored(at[k]).next = adr[c][i + 1]
  BY <1>1, <1>2, <1>4, ColumnRead
<1>6. PICK j \in 1 .. Len(s) : j = i + 1 /\ at'[k] = adr[c][j]
  BY <1>2, <1>5
<1>7. lists'[k][c] = pre[j - 1] /\ \A d \in Column : d # c => lists'[k][d] = lists[k][d]
  <2>1. lists' = [lists EXCEPT ![k][c] = ScanList(k)]
    BY <1>4 DEF ScanBlock, ReadsAt
  <2>2. lists'[k][c] = pre[i] /\ \A d \in Column : d # c => lists'[k][d] = lists[k][d]
    BY <1>5, <2>1 DEF StoreInv, TypeOK
  <2>3. j - 1 = i
    BY <1>6
  <2> QED
    BY <2>2, <2>3
<1>8. \A d \in Column : /\ d < c => lists'[k][d] = pre[Len(s)]
                        /\ d > c => lists'[k][d] = <<>>
  <2>1. \A d \in Column : (d < c => d # c) /\ (d > c => d # c)
    BY DEF Column
  <2> QED
    BY <1>4, <1>7, <2>1 DEF ReadsAt
<1>9. SelectStands(k, s, adr)'
  <2>1. IsRead(pre, s, Len(s))'
    BY <1>4 DEF ReadsAt, IsRead
  <2> QED
    BY <1>2, <1>4, <1>6, <1>7, <1>8, <2>1 DEF SelectStands, ReadsAt
<1>10. \A d \in Column : IsColumn(d, s, adr[d], Null)'
  BY <1>2, <1>5, FileKept
<1>11. Laid(s, adr)'
  BY <1>1, <1>2, <1>3, <1>9, <1>10, LaidByOne DEF Laid
<1> QED
  BY <1>1, <1>11 DEF Layout

(* A SELECT has read a column: all of them up to it give the same list.    *)
LEMMA ScanColumn ==
  ASSUME StoreInv, OneStatement, NEW s \in Seq(Page), Len(s) > 0,
         NEW adr \in [Column -> Seq(Nat)], Laid(s, adr), NEW k \in Client, ScanLastBlock(k)
  PROVE  /\ \A j \in Client : j # k => stmt'[j] = Idle
         /\ \A d \in Column : IsColumn(d, s, adr[d], Null)'
         /\ \E c \in Column, pre \in [0 .. Len(s) -> Seq(Row)] :
              /\ c = col[k] /\ IsRead(pre, s, Len(s)) /\ ScanList(k) = pre[Len(s)]
              /\ \A d \in Column : /\ d < c => lists[k][d] = pre[Len(s)]
                                   /\ d > c => lists[k][d] = <<>>
<1>1. /\ stmt[k] = "select" /\ IsLast(at[k]) /\ UNCHANGED data
      /\ NextColumn(k, "select")
  BY DEF ScanLastBlock, Visit
<1>2. \A j \in Client : j # k => stmt'[j] = Idle
  <2>1. \A j \in Client : j # k => stmt'[j] = stmt[j]
    BY <1>1, NextColumnProperties DEF StoreInv
  <2> QED
    BY <1>1, <2>1, OthersIdle DEF Idle
<1>3. PICK c \in Column, pre \in [0 .. Len(s) -> Seq(Row)], i \in 1 .. Len(s) :
        ReadsAt(k, s, adr, c, pre, i)
  BY <1>1 DEF Laid, SelectStands
<1>4. /\ \A d \in Column : IsColumn(d, s, adr[d], Null)
      /\ ScanList(k) = pre[i]
      /\ IsLast(at[k]) <=> i = Len(s)
      /\ i # Len(s) => i + 1 \in 1 .. Len(s) /\ Stored(at[k]).next = adr[c][i + 1]
  <2>1. stmt[k] = "select"
    BY <1>1
  <2> QED
    BY <1>3, <2>1, ColumnRead, ZenonT(30)
<1>5. ScanList(k) = pre[Len(s)]
  BY <1>1, <1>4
<1>6. \A d \in Column : IsColumn(d, s, adr[d], Null)'
  BY <1>1, <1>4, FileKept
<1> QED
  BY <1>2, <1>3, <1>5, <1>6 DEF ReadsAt

LEMMA LayoutScanLast ==
  ASSUME StoreInv, OneStatement, Layout, NEW k \in Client, ScanLastBlock(k)
  PROVE  Layout'
<1>0. \A d \in Column : d \in Int /\ d >= 1
  BY StoreAssumption DEF Column
<1>1. PICK s \in Seq(Page), adr \in [Column -> Seq(Nat)] : Len(s) > 0 /\ Laid(s, adr)
  BY DEF Layout
<1>2. /\ \A j \in Client : j # k => stmt'[j] = Idle
      /\ \A d \in Column : IsColumn(d, s, adr[d], Null)'
  BY <1>1, ScanColumn
<1>3. PICK c \in Column, pre \in [0 .. Len(s) -> Seq(Row)] :
        /\ c = col[k] /\ IsRead(pre, s, Len(s)) /\ ScanList(k) = pre[Len(s)]
        /\ \A d \in Column : /\ d < c => lists[k][d] = pre[Len(s)]
                             /\ d > c => lists[k][d] = <<>>
  BY <1>1, ScanColumn
<1>4. /\ col'[k] \in Column
      /\ \/ stmt'[k] = "select" /\ col'[k] = c + 1 /\ at'[k] = First(c + 1)
         \/ stmt'[k] = Idle
  <2>1. NextColumn(k, "select")
    BY DEF ScanLastBlock
  <2> QED
    BY <1>3, <2>1, NextColumnProperties DEF StoreInv
<1>5. ASSUME stmt'[k] = "select" PROVE SelectStands(k, s, adr)'
  <2>1. PICK e \in Column : e = c + 1 /\ e = col'[k] /\ at'[k] = First(e)
    BY <1>4, <1>5 DEF Idle
  <2>2. lists'[k][c] = ScanList(k) /\ \A d \in Column : d # c => lists'[k][d] = lists[k][d]
    <3>1. lists' = [lists EXCEPT ![k] = [lists[k] EXCEPT ![c] = ScanList(k)]]
      BY <1>3, <1>5 DEF ScanLastBlock, Idle
    <3> QED
      BY <3>1 DEF StoreInv, TypeOK
  <2>3. pre[0] = <<>> /\ 1 - 1 = 0
    BY <1>3 DEF IsRead
  <2>4. lists'[k][e] = pre[1 - 1]
    <3>1. e > c /\ e # c
      BY <1>0, <2>1
    <3>2. lists'[k][e] = <<>>
      BY <1>3, <2>2, <3>1
    <3> QED
      BY <2>3, <3>2
  <2>5. \A d \in Column : /\ d < e => lists'[k][d] = pre[Len(s)]
                          /\ d > e => lists'[k][d] = <<>>
    <3>1. \A d \in Column : /\ d < e => d = c \/ (d < c /\ d # c)
                            /\ d > e => d > c /\ d # c
      BY <1>0, <2>1, SMTT(30)
    <3> QED
      BY <1>3, <2>2, <3>1
  <2>6. 1 \in 1 .. Len(s) /\ at'[k] = adr[e][1]
    BY <1>1, <1>2, <2>1, PagesTyped DEF IsColumn, First
  <2>7. IsRead(pre, s, Len(s))'
    BY <1>3 DEF IsRead
  <2> QED
    BY <2>1, <2>4, <2>5, <2>6, <2>7 DEF SelectStands, ReadsAt
<1>6. Laid(s, adr)'
  BY <1>1, <1>2, <1>4, <1>5, LaidByOne DEF Laid, Idle
<1> QED
  BY <1>1, <1>6 DEF Layout

(* Nothing else changes what a layout is about.                            *)
LEMMA LayoutSame ==
  ASSUME Layout, UNCHANGED <<data, stmt, row, col, at, lists>>
  PROVE  Layout'
<1>1. PICK s \in Seq(Page), adr \in [Column -> Seq(Nat)] : Len(s) > 0 /\ Laid(s, adr)
  BY DEF Layout
<1>2. \A c, t, a, n : IsColumn(c, t, a, n) => IsColumn(c, t, a, n)'
  BY FileKept
<1>3. \A r, c, n : Reaches(s, adr, r, c, n) => Reaches(s, adr, r, c, n)'
  BY <1>2 DEF Reaches
<1>4. AddressesApart(adr)' /\ (Quiet' => \A c \in Column : IsColumn(c, s, adr[c], Null)')
  BY <1>1, <1>2 DEF Laid, Quiet, Inserting, AddressesApart
<1>5. ASSUME NEW k \in Client
      PROVE  /\ stmt'[k] = "insert" => InsertStands(k, s, adr)'
             /\ stmt'[k] = "fill" => FillStands(k, s, adr)'
             /\ stmt'[k] = "select" => SelectStands(k, s, adr)'
  <2>1. ASSUME stmt'[k] = "insert" PROVE InsertStands(k, s, adr)'
    <3>1. InsertStands(k, s, adr)
      BY <1>1, <2>1 DEF Laid
    <3> QED
      BY <1>3, <3>1 DEF InsertStands
  <2>2. ASSUME stmt'[k] = "fill" PROVE FillStands(k, s, adr)'
    <3>1. FillStands(k, s, adr)
      BY <1>1, <2>2 DEF Laid
    <3>2. \A p, z : HaveSpace(p, z) <=> HaveSpace(p, z)'
      BY DEF HaveSpace
    <3> QED
      BY <1>3, <3>1, <3>2 DEF FillStands
  <2>3. ASSUME stmt'[k] = "select" PROVE SelectStands(k, s, adr)'
    <3>1. SelectStands(k, s, adr)
      BY <1>1, <2>3 DEF Laid
    <3> QED
      BY <3>1 DEF SelectStands, ReadsAt, IsRead
  <2> QED
    BY <2>1, <2>2, <2>3
<1>6. Laid(s, adr)'
  BY <1>4, <1>5 DEF Laid
<1> QED
  BY <1>1, <1>6 DEF Layout

LEMMA LayoutNext ==
  ASSUME OneAtATime, StoreInv, OneStatement, Layout, [Next]_vars
  PROVE  Layout'
<1>1. ~Crash
  BY StoreAssumption DEF OneAtATime, Crash, StoreInv, TypeOK
<1>2. ASSUME NEW k \in Client, Insert(k) \/ Select(k) \/ FollowLink(k) \/ InsertValue(k) \/ LinkNewBlock(k)
      PROVE  Layout'
  BY <1>2, LayoutBegin, LayoutFollow, LayoutValue, LayoutLink
<1>3. ASSUME NEW k \in Client, FillNewBlock(k) \/ ScanBlock(k) \/ ScanLastBlock(k)
      PROVE  Layout'
  BY <1>3, LayoutFill, LayoutScan, LayoutScanLast
<1>4. (\E k \in Client : ReleaseOther(k) \/ Meet(k) \/ ReadBeyondEnd(k)) \/ UNCHANGED vars => Layout'
  BY LayoutSame DEF ReleaseOther, Meet, ReadBeyondEnd, vars, place
<1> QED
  BY <1>1, <1>2, <1>3, <1>4 DEF Next

-----------------------------------------------------------------------------

(* The rows that are written: the only statement under way says which.     *)
LEMMA WrittenByOne ==
  ASSUME NEW k \in Client, \A j \in Client : j # k => stmt'[j] = Idle, NEW W \in SUBSET Row,
         ~Inserting(k)' => \A c \in Column : written'[c] = W,
         Inserting(k)' => \E r \in Row : r = row'[k] /\ \A c \in Column :
           written'[c] = IF c < col'[k] THEN W \cup {r} ELSE W
  PROVE  AllWritten'
<1>1. \A j \in Client : j # k => ~Inserting(j)'
  BY DEF Inserting, Idle
<1>2. Quiet' => \A c \in Column : written'[c] = W
  BY DEF Quiet
<1>3. WrittenTo(W)'
  BY <1>1, <1>2 DEF WrittenTo
<1> QED
  BY <1>3 DEF AllWritten

LEMMA WrittenBegin ==
  ASSUME OneAtATime, StoreInv, StoreInv', AllWritten, NEW k \in Client, Insert(k) \/ Select(k)
  PROVE  AllWritten'
<1>1. PICK W \in SUBSET Row : WrittenTo(W)
  BY DEF AllWritten
<1>2. /\ \A j \in Client : stmt[j] = Idle
      /\ \A j \in Client : j # k => stmt'[j] = Idle
      /\ col'[k] = 1 /\ UNCHANGED written
  BY DEF Insert, Select, Begin, OneAtATime, StoreInv, TypeOK
<1>3. \A c \in Column : written'[c] = W
  <2>1. Quiet
    BY <1>2 DEF Quiet, Inserting, Idle
  <2> QED
    BY <1>1, <1>2, <2>1 DEF WrittenTo
<1>4. ASSUME Inserting(k)' PROVE row'[k] \in Row
  BY <1>4, StoreAssumption DEF StoreInv, RowsBegun, TypeOK, Row
<1>5. \A c \in Column : ~(c < col'[k])
  BY <1>2 DEF Column
<1> QED
  BY <1>2, <1>3, <1>4, <1>5, WrittenByOne

LEMMA WrittenStep ==
  ASSUME StoreInv, OneStatement, AllWritten, NEW k \in Client, InsertValue(k) \/ FillNewBlock(k)
  PROVE  AllWritten'
<1>0. \A c \in Column : c \in Int /\ c <= Columns
  BY StoreAssumption DEF Column
<1>1. PICK W \in SUBSET Row : WrittenTo(W)
  BY DEF AllWritten
<1>2. /\ Wrote(k) /\ row[k] \in Row /\ NextColumn(k, "insert") /\ Inserting(k) /\ row' = row
      /\ stmt[k] # Idle
  BY ValueInserted, BlockFilled DEF InsertValue, FillNewBlock, Visit, Inserting, Idle
<1>3. PICK r \in Row : r = row[k]
  BY <1>2
<1>4. PICK d \in Column : d = col[k]
  BY DEF StoreInv, TypeOK
<1>5. \A c \in Column : written[c] = IF c < d THEN W \cup {r} ELSE W
  BY <1>1, <1>2, <1>3, <1>4 DEF WrittenTo
<1>6. \A c \in Column : written'[c] = IF c = d THEN written[c] \cup {r} ELSE written[c]
  BY <1>2, <1>3, <1>4, WrittenType
<1>7. \A c \in Column : written'[c] = IF c < d + 1 THEN W \cup {r} ELSE W
  <2>1. ASSUME NEW c \in Column PROVE written'[c] = IF c < d + 1 THEN W \cup {r} ELSE W
    <3>1. CASE c < d
      <4>1. c # d /\ c < d + 1
        BY <1>0, <3>1
      <4> QED
        BY <1>5, <1>6, <3>1, <4>1
    <3>2. CASE c = d
      <4>1. ~(c < d) /\ c < d + 1
        BY <1>0, <3>2
      <4> QED
        BY <1>5, <1>6, <3>2, <4>1
    <3>3. CASE c > d
      <4>1. c # d /\ ~(c < d) /\ ~(c < d + 1)
        BY <1>0, <3>3
      <4> QED
        BY <1>5, <1>6, <4>1
    <3> QED
      BY <1>0, <3>1, <3>2, <3>3
  <2> QED
    BY <2>1
<1>8. /\ \A j \in Client : j # k => stmt'[j] = stmt[j]
      /\ \/ stmt'[k] = "insert" /\ col'[k] = d + 1
         \/ stmt'[k] = Idle /\ d = Columns
  BY <1>2, <1>4, NextColumnProperties DEF StoreInv
<1>9. \A j \in Client : j # k => stmt'[j] = Idle
  BY <1>2, <1>8, OthersIdle
<1>10. CASE stmt'[k] = "insert" /\ col'[k] = d + 1
  <2>1. Inserting(k)' /\ row'[k] = r
    BY <1>2, <1>3, <1>10 DEF Inserting
  <2>2. \A c \in Column : written'[c] = IF c < col'[k] THEN W \cup {r} ELSE W
    BY <1>7, <1>10
  <2>3. \E q \in Row : q = row'[k] /\ \A c \in Column :
          written'[c] = IF c < col'[k] THEN W \cup {q} ELSE W
    BY <2>1, <2>2
  <2> QED
    BY <1>9, <2>1, <2>3, WrittenByOne
<1>11. CASE stmt'[k] = Idle /\ d = Columns
  <2>1. ~Inserting(k)'
    BY <1>11 DEF Inserting, Idle
  <2>2. \A c \in Column : c < d + 1
    BY <1>0, <1>11
  <2>3. PICK X \in SUBSET Row : X = W \cup {r}
    OBVIOUS
  <2>4. \A c \in Column : written'[c] = X
    BY <1>7, <2>2, <2>3
  <2> QED
    BY <1>9, <2>1, <2>4, WrittenByOne
<1> QED
  BY <1>8, <1>10, <1>11

LEMMA WrittenSame ==
  ASSUME AllWritten, UNCHANGED <<row, col, written>>,
         \A k \in Client : Inserting(k)' <=> Inserting(k)
  PROVE  AllWritten'
BY DEF AllWritten, WrittenTo, Quiet

LEMMA WrittenNext ==
  ASSUME OneAtATime, StoreInv, StoreInv', OneStatement, AllWritten, [Next]_vars
  PROVE  AllWritten'
<1>1. ~Crash
  BY StoreAssumption DEF OneAtATime, Crash, StoreInv, TypeOK
<1>2. ASSUME NEW k \in Client, Insert(k) \/ Select(k) \/ InsertValue(k) \/ FillNewBlock(k)
      PROVE  AllWritten'
  BY <1>2, WrittenBegin, WrittenStep
<1>3. ASSUME NEW k \in Client, FollowLink(k) \/ LinkNewBlock(k) \/ ScanBlock(k)
      PROVE  AllWritten'
  <2>1. UNCHANGED <<row, col, written>>
    BY <1>3 DEF FollowLink, LinkNewBlock, ScanBlock, history
  <2>2. \A j \in Client : Inserting(j)' <=> Inserting(j)
    BY <1>3 DEF FollowLink, LinkNewBlock, ScanBlock, Visit, Inserting, StoreInv, TypeOK
  <2> QED
    BY <2>1, <2>2, WrittenSame
<1>4. ASSUME NEW k \in Client, ScanLastBlock(k) PROVE AllWritten'
  <2>1. /\ stmt[k] = "select" /\ UNCHANGED <<row, written>> /\ stmt'[k] # "insert" /\ stmt'[k] # "fill"
        /\ \A j \in Client : j # k => stmt'[j] = stmt[j] /\ col'[j] = col[j]
    BY <1>4, NextColumnProperties DEF ScanLastBlock, Visit, history, StoreInv, Idle
  <2>2. \A j \in Client : ~Inserting(j) /\ ~Inserting(j)'
    BY <2>1, OthersIdle DEF Inserting, Idle
  <2> QED
    BY <2>1, <2>2 DEF AllWritten, WrittenTo, Quiet
<1>5. (\E k \in Client : ReleaseOther(k) \/ Meet(k) \/ ReadBeyondEnd(k)) \/ UNCHANGED vars => AllWritten'
  <2>1. (\E k \in Client : ReleaseOther(k) \/ Meet(k) \/ ReadBeyondEnd(k)) \/ UNCHANGED vars
          => UNCHANGED <<row, col, written, stmt>>
    BY DEF ReleaseOther, Meet, ReadBeyondEnd, vars, place, history
  <2> QED
    BY <2>1, WrittenSame DEF Inserting
<1> QED
  BY <1>1, <1>2, <1>3, <1>4, <1>5 DEF Next

(* Answers are given when a SELECT ends, and taken back when the next      *)

(* statement begins.                                                       *)
LEMMA AnswersNext ==
  ASSUME OneAtATime, StoreInv, OneStatement, NoAnswerYet, [Next]_vars
  PROVE  NoAnswerYet'
<1>1. ~Crash
  BY StoreAssumption DEF OneAtATime, Crash, StoreInv, TypeOK
<1>2. ASSUME NEW k \in Client, Insert(k) \/ Select(k)
      PROVE  NoAnswerYet'
  <2>1. /\ \A j \in Client : stmt[j] = Idle
        /\ \A j \in Client : j # k => stmt'[j] = Idle
        /\ answer'[k] = <<>> /\ before'[k] = written /\ UNCHANGED written
    BY <1>2 DEF Insert, Select, Begin, OneAtATime, StoreInv, TypeOK
  <2> QED
    BY <2>1 DEF NoAnswerYet, Idle
<1>3. ASSUME NEW k \in Client, InsertValue(k) \/ FillNewBlock(k)
      PROVE  NoAnswerYet'
  <2>1. stmt[k] # Idle /\ NextColumn(k, "insert") /\ UNCHANGED answer
    BY <1>3 DEF InsertValue, FillNewBlock, Visit, Idle
  <2>2. \A j \in Client : j # k => stmt'[j] = Idle
    <3>1. \A j \in Client : j # k => stmt'[j] = stmt[j]
      BY <2>1, NextColumnProperties DEF StoreInv
    <3> QED
      BY <2>1, <3>1, OthersIdle
  <2>3. stmt'[k] # "select"
    BY <2>1, NextColumnProperties DEF StoreInv, Idle
  <2> QED
    BY <2>1, <2>2, <2>3 DEF NoAnswerYet, Idle
<1>4. ASSUME NEW k \in Client, FollowLink(k) \/ LinkNewBlock(k) \/ ScanBlock(k)
      PROVE  NoAnswerYet'
  BY <1>4 DEF FollowLink, LinkNewBlock, ScanBlock, Visit, history, NoAnswerYet, Idle, StoreInv, TypeOK
<1>5. ASSUME NEW k \in Client, ScanLastBlock(k)
      PROVE  NoAnswerYet'
  <2>1. /\ stmt[k] = "select" /\ NextColumn(k, "select") /\ UNCHANGED <<written, before>>
        /\ stmt'[k] # Idle => UNCHANGED answer
    BY <1>5 DEF ScanLastBlock, Visit, history
  <2>2. \A j \in Client : j # k => stmt'[j] = Idle
    <3>1. \A j \in Client : j # k => stmt'[j] = stmt[j]
      BY <2>1, NextColumnProperties DEF StoreInv
    <3> QED
      BY <2>1, <3>1, OthersIdle DEF Idle
  <2> QED
    BY <2>1, <2>2 DEF NoAnswerYet, Idle
<1>6. (\E k \in Client : ReleaseOther(k) \/ Meet(k) \/ ReadBeyondEnd(k)) \/ UNCHANGED vars => NoAnswerYet'
  BY DEF ReleaseOther, Meet, ReadBeyondEnd, vars, place, history, NoAnswerYet
<1> QED
  BY <1>1, <1>2, <1>3, <1>4, <1>5, <1>6 DEF Next

(* Joining equal lists by position gives one record for each of a list's   *)
(* values.                                                                 *)
LEMMA JoinWhole ==
  ASSUME NEW v \in Seq(Row), NEW ls \in [Column -> Seq(Row)], \A c \in Column : ls[c] = v
  PROVE  InnerJoinColumns(ls) = [i \in 1 .. Len(v) |-> [c \in Column |-> v[i]]]
<1>1. 1 \in Column /\ Len(v) \in Nat
  BY StoreAssumption, LenProperties DEF Column
<1>2. {i \in 1 .. Len(ls[1]) : \A c \in Column : i <= Len(ls[c])} = 1 .. Len(v)
  BY <1>1
<1>3. \A i \in 1 .. Len(v) : [c \in Column |-> ls[c][i]] = [c \in Column |-> v[i]]
  OBVIOUS
<1> QED
  BY <1>2, <1>3 DEF InnerJoinColumns

(* A SELECT's answer: the list that it has of every column.                *)
Whole(v) == [i \in 1 .. Len(v) |-> [c \in Column |-> v[i]]]

LEMMA Answered ==
  ASSUME StoreInv, OneStatement, Layout, NEW k \in Client, ScanLastBlock(k), stmt'[k] = Idle
  PROVE  \E v \in Seq(Row) : v = ScanList(k) /\ answer' = [answer EXCEPT ![k] = Whole(v)]
<1>1. PICK s \in Seq(Page), adr \in [Column -> Seq(Nat)] : Len(s) > 0 /\ Laid(s, adr)
  BY DEF Layout
<1>2. PICK c \in Column, pre \in [0 .. Len(s) -> Seq(Row)] :
        /\ c = col[k] /\ IsRead(pre, s, Len(s)) /\ ScanList(k) = pre[Len(s)]
        /\ \A d \in Column : /\ d < c => lists[k][d] = pre[Len(s)]
                             /\ d > c => lists[k][d] = <<>>
  BY <1>1, ScanColumn
<1>3. c = Columns
  <2>1. NextColumn(k, "select")
    BY DEF ScanLastBlock
  <2> QED
    BY <1>2, <2>1, NextColumnProperties DEF StoreInv, Idle
<1>4. PICK v \in Seq(Row) : v = ScanList(k)
  BY <1>1, <1>2, PagesTyped
<1>5. PICK ls : ls = [lists[k] EXCEPT ![c] = v]
  OBVIOUS
<1>6. ls \in [Column -> Seq(Row)] /\ \A d \in Column : ls[d] = v
  <2>1. ls \in [Column -> Seq(Row)] /\ ls[c] = v /\ \A d \in Column : d # c => ls[d] = lists[k][d]
    BY <1>5 DEF StoreInv, TypeOK
  <2>2. \A d \in Column : d = c \/ (d # c /\ d < c)
    BY <1>3, StoreAssumption DEF Column
  <2> QED
    BY <1>2, <1>4, <2>1, <2>2
<1>7. answer' = [answer EXCEPT ![k] = InnerJoinColumns(ls)]
  BY <1>2, <1>4, <1>5 DEF ScanLastBlock
<1>8. InnerJoinColumns(ls) = Whole(v)
  BY <1>6, JoinWhole DEF Whole
<1> QED
  BY <1>4, <1>7, <1>8

LEMMA RecordsNext ==
  ASSUME OneAtATime, StoreInv, OneStatement, Layout, RecordsWhole, [Next]_vars
  PROVE  RecordsWhole'
<1>1. ~Crash
  BY StoreAssumption DEF OneAtATime, Crash, StoreInv, TypeOK
<1>2. ASSUME NEW k \in Client, NEW a, answer' = [answer EXCEPT ![k] = a],
             \A i \in DOMAIN a : \A c, d \in Column : a[i][c] = a[i][d]
      PROVE  RecordsWhole'
  BY <1>2, SMTT(30) DEF RecordsWhole, StoreInv, TypeOK
<1>3. ASSUME NEW k \in Client, Insert(k) \/ Select(k) PROVE RecordsWhole'
  <2>1. answer' = [answer EXCEPT ![k] = <<>>] /\ DOMAIN <<>> = {}
    BY <1>3 DEF Insert, Select, Begin
  <2> QED
    BY <1>2, <2>1
<1>4. ASSUME NEW k \in Client, ScanLastBlock(k), stmt'[k] = Idle PROVE RecordsWhole'
  <2>1. PICK v \in Seq(Row) : answer' = [answer EXCEPT ![k] = Whole(v)]
    BY <1>4, Answered
  <2>2. \A i \in DOMAIN Whole(v) : \A c, d \in Column : Whole(v)[i][c] = Whole(v)[i][d]
    BY DEF Whole
  <2> QED
    BY <1>2, <2>1, <2>2, ZenonT(30)
<1>5. UNCHANGED answer => RecordsWhole'
  BY DEF RecordsWhole
<1>6. ASSUME NEW k \in Client, \/ FollowLink(k) \/ InsertValue(k) \/ LinkNewBlock(k) \/ FillNewBlock(k)
                               \/ ScanBlock(k)
      PROVE  UNCHANGED answer
  BY <1>6 DEF FollowLink, InsertValue, LinkNewBlock, FillNewBlock, ScanBlock
<1>7. ASSUME NEW k \in Client, \/ ReleaseOther(k) \/ Meet(k) \/ ReadBeyondEnd(k)
                               \/ (ScanLastBlock(k) /\ stmt'[k] # Idle)
      PROVE  UNCHANGED answer
  BY <1>7 DEF ReleaseOther, Meet, ReadBeyondEnd, ScanLastBlock
<1>8. UNCHANGED vars => UNCHANGED answer
  BY DEF vars
<1> QED
  BY <1>1, <1>3, <1>4, <1>5, <1>6, <1>7, <1>8 DEF Next

LEMMA TableInit == ASSUME Init PROVE TableInv
<1>1. ScanInv
  BY ScanInit
<1>2. OneStatement /\ NoAnswerYet /\ RecordsWhole
  BY DEF Init, OneStatement, NoAnswerYet, RecordsWhole, Idle
<1>3. Quiet
  BY DEF Init, Quiet, Inserting, Idle
<1>4. AllWritten
  <2>1. WrittenTo({})
    BY <1>3 DEF WrittenTo, Quiet, Init
  <2> QED
    BY <2>1 DEF AllWritten
<1>5. Layout
  <2> DEFINE p == [values |-> <<>>, used |-> 0]
             t == <<p>>
             first == [c \in Column |-> <<First(c)>>]
  <2>1. p \in Page /\ p.values = <<>> /\ p.used = 0
    BY EmptySeq DEF Page
  <2>2. t \in Seq(Page) /\ Len(t) = 1 /\ t[1] = p
    BY <2>1
  <2>3. \A c \in Column : First(c) \in Nat /\ First(c) + 1 = c
    BY StoreAssumption DEF First, Column
  <2>4. first \in [Column -> Seq(Nat)] /\ \A c \in Column : Len(first[c]) = 1 /\ first[c][1] = First(c)
    BY <2>3
  <2> HIDE DEF p, t, first
  <2>5. PICK s \in Seq(Page) : s = t
    BY <2>2
  <2>6. PICK adr \in [Column -> Seq(Nat)] : adr = first
    BY <2>4
  <2>6a. Len(s) = 1 /\ s[1].values = <<>> /\ s[1].used = 0
    BY <2>1, <2>2, <2>5
  <2>6b. \A c \in Column : Len(adr[c]) = 1 /\ adr[c][1] = First(c)
    BY <2>4, <2>6
  <2>7. AddressesApart(adr)
    <3>1. ASSUME NEW c \in Column, NEW d \in Column, adr[c][1] = adr[d][1] PROVE c = d
      BY <2>3, <2>6b, <3>1
    <3>2. \A x \in 1 .. 1 : x = 1
      OBVIOUS
    <3> QED
      BY <2>6b, <3>1, <3>2, ZenonT(30) DEF AddressesApart
  <2>8. ASSUME NEW c \in Column PROVE IsColumn(c, s, adr[c], Null)
    <3>1. First(c) < Len(data) /\ Stored(First(c)) = EmptyBlock
      BY InitBlocks
    <3>2. Stored(First(c)).values = <<>> /\ Stored(First(c)).used = 0 /\ Stored(First(c)).next = Null
      BY <3>1 DEF EmptyBlock
    <3> QED
      BY <2>6a, <2>6b, <3>1, <3>2 DEF IsColumn, IsStored
  <2>9. Laid(s, adr)
    BY <2>7, <2>8 DEF Laid, Init, Idle
  <2>10. Len(s) > 0
    BY <2>6a
  <2> QED
    BY <2>9, <2>10, Zenon DEF Layout
<1> QED
  BY <1>1, <1>2, <1>4, <1>5 DEF TableInv

LEMMA TableNext ==
  ASSUME OneAtATime, TableInv, ScanInv', [Next]_vars
  PROVE  TableInv'
<1>1. StoreInv /\ StoreInv'
  BY DEF TableInv, ScanInv, ApartInv, KeptInv
<1>2. OneStatement' /\ NoAnswerYet'
  BY <1>1, StatementsNext, AnswersNext DEF TableInv
<1>3. AllWritten' /\ Layout' /\ RecordsWhole'
  BY <1>1, WrittenNext, LayoutNext, RecordsNext DEF TableInv
<1> QED
  BY <1>2, <1>3 DEF TableInv

LEMMA TableCorrect == ASSUME OneAtATime PROVE Spec => []TableInv
<1>1. Init => TableInv
  BY TableInit
<1>2. TableInv /\ ScanInv' /\ [Next]_vars => TableInv'
  BY TableNext
<1> QED
  BY <1>1, <1>2, ScanCorrect, PTL DEF Spec

(* Each record that a SELECT answers with is one row that was inserted:    *)
(* where statements come one at a time and a row's values are equally      *)
(* long, the tags of the columns agree.                                    *)
THEOREM RecordsStayWhole == ASSUME OneAtATime PROVE Spec => []RecordsWhole
<1>1. TableInv => RecordsWhole
  BY DEF TableInv
<1> QED
  BY <1>1, TableCorrect, PTL

-----------------------------------------------------------------------------

(* The store is a Table: its records are the rows that every column has.   *)
Complete == {s \in Row : \A c \in Column : s \in written[c]}

Records == {[c \in Column |-> r] : r \in Complete}

LEMMA RecordsKept ==
  ASSUME Complete' = Complete
  PROVE  Records' = Records
BY DEF Records

LEMMA RecordOfRow ==
  ASSUME NEW r, NEW q, [c \in Column |-> r] = [c \in Column |-> q]
  PROVE  r = q
<1>1. 1 \in Column
  BY StoreAssumption DEF Column
<1>2. [c \in Column |-> r][1] = r /\ [c \in Column |-> q][1] = q
  BY <1>1
<1> QED
  BY <1>2

(* An INSERT completes its row where it writes it to the last column, and  *)
(* changes no other's record before.                                       *)
LEMMA CompleteRow ==
  ASSUME StoreInv, ToWrite, AllWritten, NEW k \in Client, InsertValue(k) \/ FillNewBlock(k),
         NEW r, r = row[k]
  PROVE  /\ r \in Row /\ r \notin Complete
         /\ Complete' = Complete \/ Complete' = Complete \cup {r}
<1>0. Columns \in Column /\ \A c \in Column : c \in Int /\ c <= Columns
  BY StoreAssumption DEF Column
<1>1. PICK W \in SUBSET Row : WrittenTo(W)
  BY DEF AllWritten
<1>2. Wrote(k) /\ row[k] \in Row /\ Inserting(k)
  BY ValueInserted, BlockFilled DEF InsertValue, FillNewBlock, Visit, Inserting
<1>3. PICK d \in Column : d = col[k]
  BY DEF StoreInv, TypeOK
<1>4. \A c \in Column : written'[c] = IF c = d THEN written[c] \cup {r} ELSE written[c]
  BY <1>2, <1>3, WrittenType
<1>5. r \notin written[Columns]
  BY <1>0, <1>2, <1>3 DEF ToWrite
<1>6. \A c \in Column : c < d => r \in written[c]
  <2>1. \A c \in Column : c < d => written[c] = W \cup {r}
    BY <1>1, <1>2, <1>3 DEF WrittenTo
  <2> QED
    BY <2>1
<1>7. CASE d = Columns
  <2>1. \A c \in Column : r \in written'[c]
    <3>1. \A c \in Column : c = d \/ c < d
      BY <1>0, <1>7
    <3> QED
      BY <1>4, <1>6, <3>1
  <2>2. ASSUME NEW q \in Row, q # r
        PROVE  (\A c \in Column : q \in written'[c]) <=> (\A c \in Column : q \in written[c])
    BY <1>4, <2>2
  <2>3. Complete' = Complete \cup {r}
    BY <1>2, <2>1, <2>2 DEF Complete
  <2> QED
    BY <1>0, <1>2, <1>5, <2>3 DEF Complete
<1>8. CASE d # Columns
  <2>1. r \notin written'[Columns]
    BY <1>0, <1>4, <1>5, <1>8
  <2>2. ASSUME NEW q \in Row
        PROVE  (\A c \in Column : q \in written'[c]) <=> (\A c \in Column : q \in written[c])
    BY <1>0, <1>4, <1>5, <2>1, <2>2
  <2>3. Complete' = Complete
    BY <2>2 DEF Complete
  <2> QED
    BY <1>0, <1>2, <1>5, <2>3 DEF Complete
<1> QED
  BY <1>7, <1>8

(* Table counts as the store does.                                        *)
LEMMA SameCardinality == \A S : Abstract!Cardinality(S) = Cardinality(S)
BY DEF Cardinality, Abstract!Cardinality

(* A SELECT that ends has the values of all complete rows, each once.      *)
LEMMA ScannedAll ==
  ASSUME OneAtATime, TableInv, NEW k \in Client, ScanLastBlock(k)
  PROVE  Distinct(ScanList(k)) /\ Elements(ScanList(k)) = Complete
<1> USE DEF TableInv, ScanInv, ApartInv, KeptInv
<1>1. crashes = 0 /\ OnceInv /\ Scans
  <2>1. crashes = 0
    BY DEF OneAtATime, StoreInv, TypeOK
  <2> QED
    BY <2>1 DEF OnceInv
<1>2. PICK a \in Nat : a = at[k]
  BY DEF StoreInv, TypeOK
<1>3. PICK d \in Column : d = col[k]
  BY DEF StoreInv, TypeOK
<1>4. Visit(k, "select") /\ stmt[k] = "select" /\ IsLast(a)
  BY <1>2 DEF ScanLastBlock, Visit
<1>5. IsScanning(k) /\ IsReading(k, d)
  BY <1>1, <1>3, <1>4 DEF Scans, IsScanning
<1>6. PICK N : N = ScanList(k)
  OBVIOUS
<1>7. /\ a \in Blocks(d) /\ IsStored(a) /\ Distinct(N)
      /\ Elements(N) = Elements(lists[k][d]) \cup Values(a)
  BY <1>1, <1>2, <1>3, <1>4, <1>5, <1>6, ScanMore
<1>8. \A b \in Blocks(d) : IsStored(b) => Values(b) \subseteq written[d]
  BY <1>1 DEF OnceInv, OnlyWritten
<1>9. Elements(N) \subseteq written[d]
  <2>1. ASSUME NEW v \in Elements(lists[k][d]) PROVE v \in written[d]
    <3>1. PICK b \in Blocks(d) : IsStored(b) /\ v \in Values(b)
      BY <1>5, <2>1 DEF IsReading
    <3> QED
      BY <1>8, <3>1
  <2> QED
    BY <1>7, <1>8, <2>1
<1>10. written[d] \subseteq Elements(N)
  <2>1. before[k][d] = written[d]
    BY <1>4 DEF NoAnswerYet
  <2>2. ASSUME NEW v \in written[d], v \notin Elements(N) PROVE FALSE
    <3>1. PICK b \in Blocks(d) : IsStored(b) /\ b >= a /\ v \in Values(b)
      BY <1>2, <1>5, <1>7, <2>1, <2>2 DEF IsReading
    <3>2. b # a /\ b \in Nat
      <4>1. Blocks(d) \subseteq 0 .. Len(data) /\ Len(data) \in Nat
        BY Chained, DataType DEF BlocksChain, StoreInv
      <4> QED
        BY <1>7, <2>2, <3>1, <4>1
    <3>3. Stops(a)
      BY <1>4 DEF Stops
    <3> QED
      BY <1>7, <3>1, <3>2, <3>3, ChainOrdered DEF Ordered
  <2> QED
    BY <2>2
<1>11. written[d] = Complete
  <2>1. Quiet
    BY <1>4 DEF OneStatement, Quiet, Inserting, Idle
  <2>2. PICK W \in SUBSET Row : \A c \in Column : written[c] = W
    BY <2>1 DEF AllWritten, WrittenTo
  <2> QED
    BY <2>2 DEF Complete
<1> QED
  BY <1>6, <1>7, <1>9, <1>10, <1>11

LEMMA WholeRecords ==
  ASSUME NEW v \in Seq(Row), Distinct(v), Elements(v) = Complete
  PROVE  /\ DOMAIN Whole(v) = 1 .. Len(v)
         /\ {Whole(v)[i] : i \in DOMAIN Whole(v)} = Records
         /\ Len(Whole(v)) = Cardinality(Records)
<1>1. Len(v) \in Nat /\ \A i \in 1 .. Len(v) : v[i] \in Row
  BY LenProperties, ElementOfSeq
<1>2. DOMAIN Whole(v) = 1 .. Len(v) /\ \A i \in 1 .. Len(v) : Whole(v)[i] = [c \in Column |-> v[i]]
  BY DEF Whole
<1>3. {Whole(v)[i] : i \in 1 .. Len(v)} = Records
  <2>1. ASSUME NEW i \in 1 .. Len(v) PROVE Whole(v)[i] \in Records
    <3>1. v[i] \in Complete
      BY DEF Elements
    <3> QED
      BY <1>2, <3>1 DEF Records
  <2>2. ASSUME NEW r \in Complete PROVE \E i \in 1 .. Len(v) : Whole(v)[i] = [c \in Column |-> r]
    <3>1. PICK i \in 1 .. Len(v) : v[i] = r
      BY <2>2 DEF Elements
    <3> QED
      BY <1>2, <3>1
  <2>3. ASSUME NEW x \in Records PROVE x \in {Whole(v)[i] : i \in 1 .. Len(v)}
    <3>1. PICK r \in Complete : x = [c \in Column |-> r]
      BY DEF Records
    <3>2. PICK i \in 1 .. Len(v) : Whole(v)[i] = [c \in Column |-> r]
      BY <2>2
    <3> QED
      BY <3>1, <3>2
  <2> QED
    BY <2>1, <2>3
<1>4. Whole(v) \in Seq([Column -> Row])
  <2>1. Whole(v) \in [1 .. Len(v) -> [Column -> Row]]
    BY <1>1 DEF Whole
  <2> QED
    BY <1>1, <2>1, SeqDef
<1>5. PICK w \in Seq([Column -> Row]) : w = Whole(v)
  BY <1>4
<1>6. Len(w) = Len(v)
  BY <1>1, <1>2, <1>5, LenProperties
<1>7. Distinct(w)
  <2>1. ASSUME NEW i \in 1 .. Len(v), NEW j \in 1 .. Len(v), w[i] = w[j] PROVE i = j
    <3>1. PICK r, q : r = v[i] /\ q = v[j]
      OBVIOUS
    <3>2. [c \in Column |-> r] = [c \in Column |-> q]
      BY <1>2, <1>5, <2>1, <3>1
    <3>3. r = q
      BY <3>2, RecordOfRow
    <3> QED
      BY <3>1, <3>3 DEF Distinct
  <2> QED
    BY <1>6, <2>1 DEF Distinct
<1>8. Elements(w) = Records
  BY <1>3, <1>5, <1>6 DEF Elements
<1>9. Cardinality(Elements(w)) = Len(w)
  BY <1>7, DistinctCardinality
<1> QED
  BY <1>2, <1>3, <1>5, <1>8, <1>9
-----------------------------------------------------------------------------
LEMMA StartsAsTable == ASSUME Init PROVE Abstract!Init
<1>1. 1 \in Column
  BY StoreAssumption DEF Column
<1>2. Complete = {}
  BY <1>1 DEF Complete, Init
<1>3. Records = {}
  BY <1>2 DEF Records
<1> QED
  BY <1>3 DEF Abstract!Init, Init, Records, Complete

LEMMA StaysTable ==
  ASSUME OneAtATime, TableInv, [Next]_vars
  PROVE  [Abstract!Next]_(Abstract!vars)
<1>0. /\ StoreInv /\ ToWrite /\ AllWritten /\ OneStatement /\ NoAnswerYet /\ Layout
      /\ \A c \in Column : written[c] \in SUBSET Row
  BY DEF TableInv, ScanInv, ApartInv, KeptInv, RowsInv, StoreInv, TypeOK
<1>1. ~Crash
  BY <1>0, StoreAssumption DEF OneAtATime, Crash, StoreInv, TypeOK
<1>2. UNCHANGED written => Records' = Records
  BY RecordsKept DEF Complete
<1>3. ASSUME UNCHANGED answer, Records' = Records PROVE UNCHANGED Abstract!vars
  BY <1>3 DEF Abstract!vars, Records, Complete
<1>4. ASSUME NEW k \in Client, Insert(k) \/ Select(k) PROVE Abstract!Ask(k)
  <2>1. answer' = [answer EXCEPT ![k] = <<>>] /\ UNCHANGED written
    BY <1>4 DEF Insert, Select, Begin
  <2> QED
    BY <1>2, <2>1 DEF Abstract!Ask, Records, Complete
<1>5. ASSUME NEW k \in Client, InsertValue(k) \/ FillNewBlock(k)
      PROVE  Abstract!Insert \/ UNCHANGED Abstract!vars
  <2>1. UNCHANGED answer
    BY <1>5 DEF InsertValue, FillNewBlock
  <2>2. PICK r : r = row[k]
    OBVIOUS
  <2>3. r \in Row /\ r \notin Complete /\ (Complete' = Complete \/ Complete' = Complete \cup {r})
    BY <1>0, <1>5, <2>2, CompleteRow
  <2>4. CASE Complete' = Complete
    BY <1>3, <2>1, <2>4, RecordsKept
  <2>5. CASE Complete' = Complete \cup {r}
    <3>1. PICK q : q = [c \in Column |-> r]
      OBVIOUS
    <3>2. q \in Record /\ q \notin Records
      BY <2>3, <3>1, RecordOfRow DEF Record, Records
    <3>3. Records' = Records \cup {q}
      BY <2>5, <3>1 DEF Records
    <3> QED
      BY <2>1, <3>2, <3>3 DEF Abstract!Insert, Records, Complete
  <2> QED
    BY <2>3, <2>4, <2>5
<1>6. ASSUME NEW k \in Client, ScanLastBlock(k), stmt'[k] = Idle
      PROVE  Abstract!Select(k)
  <2>1. PICK v \in Seq(Row) : v = ScanList(k) /\ answer' = [answer EXCEPT ![k] = Whole(v)]
    BY <1>0, <1>6, Answered
  <2>2. Distinct(v) /\ Elements(v) = Complete
    BY <1>6, <2>1, ScannedAll
  <2>3. answer[k] = <<>>
    BY <1>0, <1>6 DEF NoAnswerYet, ScanLastBlock, Visit, Idle
  <2>4. answer'[k] = Whole(v)
    BY <1>0, <2>1 DEF StoreInv, TypeOK
  <2>5. /\ {answer'[k][i] : i \in DOMAIN answer'[k]} = Records
        /\ Len(answer'[k]) = Cardinality(Records)
    BY <2>2, <2>4, WholeRecords
  <2>6. UNCHANGED Records
    BY <1>2, <1>6 DEF ScanLastBlock, history
  <2>7. answer' = [answer EXCEPT ![k] = answer'[k]]
    BY <2>1, <2>4
  <2>8. Abstract!Select(k) <=>
          /\ answer[k] = <<>>
          /\ Len(answer'[k]) = Cardinality(Records)
          /\ {answer'[k][i] : i \in DOMAIN answer'[k]} = Records
          /\ answer' = [answer EXCEPT ![k] = answer'[k]]
          /\ UNCHANGED Records
    BY SameCardinality DEF Abstract!Select, Records, Complete
  <2> QED
    BY <2>3, <2>5, <2>6, <2>7, <2>8
<1>7. ASSUME NEW k \in Client, FollowLink(k) \/ LinkNewBlock(k) \/ ScanBlock(k)
      PROVE  UNCHANGED <<answer, written>>
  BY <1>7 DEF FollowLink, LinkNewBlock, ScanBlock, history
<1>8. ASSUME NEW k \in Client, \/ ReleaseOther(k) \/ Meet(k) \/ ReadBeyondEnd(k)
                               \/ (ScanLastBlock(k) /\ stmt'[k] # Idle)
      PROVE  UNCHANGED <<answer, written>>
  BY <1>8 DEF ReleaseOther, Meet, ReadBeyondEnd, ScanLastBlock, history
<1>9. UNCHANGED vars => UNCHANGED <<answer, written>>
  BY DEF vars, history
<1>10. UNCHANGED <<answer, written>> => UNCHANGED Abstract!vars
  BY <1>2, <1>3
<1> QED
  BY <1>1, <1>4, <1>5, <1>6, <1>7, <1>8, <1>9, <1>10 DEF Next, Abstract!Next

(* Statements that come one at a time see a table: an INSERT adds its      *)
(* record, in the step that writes its last column, and a SELECT answers   *)
(* with all of them, each once.                                            *)
THEOREM TableImplemented == ASSUME OneAtATime PROVE Spec => IsTable
<1>1. TableInv /\ [Next]_vars => [Abstract!Next]_(Abstract!vars)
  BY StaysTable
<1>2. Init => Abstract!Init
  BY StartsAsTable
<1> QED
  BY <1>1, <1>2, TableCorrect, PTL DEF Spec, IsTable, Abstract!Spec
=============================================================================
