---------------------------- MODULE CatalogProofs ----------------------------
(***************************************************************************)
(* Proofs about Catalog, for any number of sessions, any definitions of    *)
(* tables, any block size and any number of crashes: what the sessions     *)
(* cache of the database's tables, which blocks tables own, and that all   *)
(* of it is a Directory.                                                   *)
(***************************************************************************)
EXTENDS Catalog, Induction, SequenceTheorems, TLAPS

HeaderBlock == [tables : Seq(Table), next : Nat]

(* The header blocks are one chain, in the file's order. Its last block    *)
(* may already lead to the end of the file, where a session is about to    *)
(* put a new block, or was, before a crash.                                *)
OneChain ==
  /\ Len(header) > 0
  /\ \A i \in 1 .. Len(header) : header[i].next = i \/ (i = Len(header) /\ header[i].next = Null)

(* One session at most fills a new header block, at the end of the chain.  *)
Fills ==
  \A k \in Session : stmt[k] = "fill" =>
    /\ at[k] = Len(header)
    /\ header[Len(header)].next = Len(header)
    /\ \A j \in Session : stmt[j] = "fill" => j = k

HeaderInv == TypeOK /\ OneChain /\ Fills

(* What the first n blocks list.                                           *)
Read(n) == Gathered[n].tables

(* A session that loads the tables has those of the blocks it visited.     *)
Loading(k) == stmt[k] \in {"open", "reload"}

LoadsOf(k) ==
  /\ Loading(k) => /\ at[k] <= Len(header)
                   /\ at[k] > 0 => header[at[k]].next = at[k]
                   /\ cache[k] = Read(at[k])
  /\ stmt[k] = "off" => cache[k] = <<>>
  /\ IsPrefix(cache[k], Tables)

CacheInv == HeaderInv /\ \A k \in Session : LoadsOf(k)

(* A session that was told its table is created has it in the list, and in *)
(* its cache once that is loaded again.                                    *)
ToldOf(k) ==
  /\ result[k] # "none" => stmt[k] \in {"reload", "idle"}
  /\ result[k] = "success" =>
       /\ \E i \in 1 .. Len(Tables) : Tables[i] = table[k]
       /\ stmt[k] = "idle" => \E i \in 1 .. Len(cache[k]) : cache[k][i] = table[k]

ToldInv == CacheInv /\ \A k \in Session : ToldOf(k)

-----------------------------------------------------------------------------
(* Blocks of data files: a session that is about to flush a first block    *)
(* has the one at the end of its table's file.                             *)
Creating(k) == stmt[k] \in {"columns", "column", "chain", "fill"}

AtEnd == \A k \in Session : stmt[k] = "column" => at[k] = files[table[k].def.name]

Complete(t) == Len(t.first) = t.def.columns

Progress ==
  \A k \in Session :
    /\ stmt[k] \in {"columns", "column"} => Len(table[k].first) < table[k].def.columns
    /\ stmt[k] \in {"chain", "fill"} => Complete(table[k])

(* A table's first blocks are in its file, each once.                      *)
Owns(t) ==
  /\ \A c \in 1 .. Len(t.first) : t.first[c] < files[t.def.name]
  /\ \A c, d \in 1 .. Len(t.first) : t.first[c] = t.first[d] => c = d

Apart(t, u) ==
  t.def.name = u.def.name =>
    \A c \in 1 .. Len(t.first), d \in 1 .. Len(u.first) : t.first[c] # u.first[d]

Owners ==
  /\ \A i \in 1 .. Len(Tables) : Owns(Tables[i]) /\ Complete(Tables[i])
  /\ \A i, j \in 1 .. Len(Tables) : i # j => Apart(Tables[i], Tables[j])
  /\ \A k \in Session : Creating(k) =>
       /\ Owns(table[k])
       /\ \A i \in 1 .. Len(Tables) : Apart(table[k], Tables[i])
       /\ \A j \in Session : j # k /\ Creating(j) => Apart(table[k], table[j])

OwnerInv == AtEnd /\ Progress /\ Owners
-----------------------------------------------------------------------------
(* The header file.                                                        *)
LEMMA HeaderType ==
  ASSUME TypeOK
  PROVE  /\ header \in Seq(HeaderBlock) /\ Len(header) \in Nat
         /\ \A i \in 1 .. Len(header) : header[i] \in HeaderBlock
<1>1. header \in Seq(HeaderBlock)
  BY DEF TypeOK, HeaderBlock
<1> QED
  BY <1>1, LenProperties, ElementOfSeq

LEMMA BlockFields ==
  ASSUME NEW b \in HeaderBlock, NEW ts \in Seq(Table), NEW n \in Nat
  PROVE  /\ [b EXCEPT !.tables = ts] = [tables |-> ts, next |-> b.next]
         /\ [b EXCEPT !.next = n] = [tables |-> b.tables, next |-> n]
BY DEF HeaderBlock

LEMMA EmptyFields ==
  ASSUME NEW t \in Table
  PROVE  /\ EmptyBlock \in HeaderBlock
         /\ InsertTable(EmptyBlock, t) = [tables |-> <<t>>, next |-> Null]
         /\ InsertTable(EmptyBlock, t) \in HeaderBlock
<1>1. EmptyBlock \in HeaderBlock /\ EmptyBlock.tables = <<>> /\ EmptyBlock.next = Null
  BY EmptySeq DEF EmptyBlock, HeaderBlock, Null
<1>2. Append(EmptyBlock.tables, t) = <<t>> /\ <<t>> \in Seq(Table)
  BY <1>1
<1>3. InsertTable(EmptyBlock, t) = [tables |-> <<t>>, next |-> Null]
  BY <1>1, <1>2, BlockFields DEF InsertTable
<1> QED
  BY <1>1, <1>2, <1>3 DEF HeaderBlock, Null

(* A session at the chain's last block is at the file's last block.        *)
LEMMA LastIsLast ==
  ASSUME HeaderInv, NEW k \in Session, NEW s, Visit(k, s), IsLast(at[k])
  PROVE  /\ at[k] + 1 = Len(header) /\ header[Len(header)].next = Null
         /\ header[Len(header)] \in HeaderBlock
<1>1. at[k] \in Nat /\ Len(header) \in Nat /\ at[k] + 1 \in 1 .. Len(header)
  BY HeaderType DEF HeaderInv, TypeOK, Visit, IsStored
<1>2. header[at[k] + 1].next = Null
  BY DEF IsLast, Stored
<1>3. at[k] + 1 = Len(header)
  BY <1>1, <1>2 DEF HeaderInv, OneChain, Null
<1> QED
  BY <1>1, <1>2, <1>3, HeaderType DEF HeaderInv

LEMMA TableInserted ==
  ASSUME HeaderInv, NEW k \in Session, InsertIntoLastBlock(k)
  PROVE  LET n == Len(header)
             b == [tables |-> Append(header[n].tables, table[k]), next |-> Null]
         IN  /\ b \in HeaderBlock
             /\ header' \in Seq(HeaderBlock) /\ Len(header') = n
             /\ \A i \in 1 .. n : header'[i] = IF i = n THEN b ELSE header[i]
<1> DEFINE n == Len(header)
           b == [tables |-> Append(header[n].tables, table[k]), next |-> Null]
<1>1. at[k] + 1 = n /\ header[n].next = Null /\ header[n] \in HeaderBlock
  BY LastIsLast DEF InsertIntoLastBlock
<1>2. table[k] \in Table /\ header[n].tables \in Seq(Table)
  BY <1>1 DEF HeaderInv, TypeOK, HeaderBlock
<1>3. Append(header[n].tables, table[k]) \in Seq(Table)
  BY <1>2, AppendProperties
<1>4. b \in HeaderBlock
  BY <1>3 DEF HeaderBlock, Null
<1>5. InsertTable(header[n], table[k]) = b
  BY <1>1, <1>3, BlockFields DEF InsertTable
<1>6. header' = [header EXCEPT ![n] = b]
  BY <1>1, <1>5 DEF InsertIntoLastBlock
<1>7. n \in 1 .. Len(header)
  BY HeaderType DEF HeaderInv, OneChain
<1> QED
  BY <1>4, <1>6, <1>7, HeaderType, ExceptSeq DEF HeaderInv

LEMMA HeaderLinked ==
  ASSUME HeaderInv, NEW k \in Session, LinkNewBlock(k)
  PROVE  LET n == Len(header)
             b == [tables |-> header[n].tables, next |-> n]
         IN  /\ header[n].next = Null
             /\ header' \in Seq(HeaderBlock) /\ Len(header') = n
             /\ \A i \in 1 .. n : header'[i] = IF i = n THEN b ELSE header[i]
<1> DEFINE n == Len(header)
           b == [tables |-> header[n].tables, next |-> n]
<1>1. at[k] + 1 = n /\ header[n].next = Null /\ header[n] \in HeaderBlock
  BY LastIsLast DEF LinkNewBlock
<1>2. n \in 1 .. Len(header) /\ n \in Nat
  BY HeaderType DEF HeaderInv, OneChain
<1>3. b \in HeaderBlock
  BY <1>1, <1>2 DEF HeaderBlock
<1>4. [header[n] EXCEPT !.next = n] = b
  BY <1>1, <1>2, EmptySeq, BlockFields
<1>5. header' = [header EXCEPT ![n] = b]
  BY <1>1, <1>4 DEF LinkNewBlock
<1> QED
  BY <1>1, <1>2, <1>3, <1>5, HeaderType, ExceptSeq DEF HeaderInv

LEMMA HeaderFilled ==
  ASSUME HeaderInv, NEW k \in Session, FillNewBlock(k)
  PROVE  LET n == Len(header)
         IN  /\ header' \in Seq(HeaderBlock) /\ Len(header') = n + 1
             /\ \A i \in 1 .. n : header'[i] = header[i]
             /\ header'[n + 1].next = Null
             /\ \/ header'[n + 1].tables = <<table[k]>> /\ ReLoadTables(k, "success")
                \/ header'[n + 1].tables = <<>> /\ ReLoadTables(k, "failure")
<1> DEFINE n == Len(header)
<1>1. table[k] \in Table
  BY DEF HeaderInv, TypeOK
<1>2. PICK b \in HeaderBlock :
        /\ header' = Append(header, b) /\ b.next = Null
        /\ \/ b.tables = <<table[k]>> /\ ReLoadTables(k, "success")
           \/ b.tables = <<>> /\ ReLoadTables(k, "failure")
  <2>1. CASE header' = Append(header, EmptyBlock) /\ ReLoadTables(k, "failure")
    <3>1. EmptyBlock \in HeaderBlock /\ EmptyBlock.next = Null /\ EmptyBlock.tables = <<>>
      BY <1>1, EmptyFields DEF EmptyBlock
    <3> QED
      BY <2>1, <3>1
  <2>2. CASE header' = Append(header, InsertTable(EmptyBlock, table[k])) /\ ReLoadTables(k, "success")
    <3>1. PICK b : b = InsertTable(EmptyBlock, table[k])
      OBVIOUS
    <3>2. b \in HeaderBlock /\ b.next = Null /\ b.tables = <<table[k]>>
      BY <1>1, <3>1, EmptyFields
    <3> QED
      BY <2>2, <3>1, <3>2
  <2> QED
    BY <2>1, <2>2 DEF FillNewBlock
<1> QED
  BY <1>2, HeaderType, AppendProperties DEF HeaderInv

-----------------------------------------------------------------------------
(* Each action keeps the types and the one chain.                          *)
LEMMA HeaderInit == Init => HeaderInv
<1> SUFFICES ASSUME Init PROVE HeaderInv
  OBVIOUS
<1>1. DefaultTable \in Table
  BY DEF DefaultTable, Table
<1>2. [EmptyBlock EXCEPT !.tables = <<DefaultTable>>] = [tables |-> <<DefaultTable>>, next |-> Null]
  <2>1. EmptyBlock \in HeaderBlock /\ EmptyBlock.next = Null
    BY <1>1, EmptyFields DEF EmptyBlock
  <2>2. <<DefaultTable>> \in Seq(Table) /\ Null \in Nat
    BY <1>1 DEF Null
  <2> QED
    BY <2>1, <2>2, BlockFields
<1>3. header = <<[tables |-> <<DefaultTable>>, next |-> Null]>>
  BY <1>2 DEF Init
<1>4. [tables |-> <<DefaultTable>>, next |-> Null] \in HeaderBlock
  BY <1>1 DEF HeaderBlock, Null
<1>5. header \in Seq(HeaderBlock) /\ Len(header) = 1 /\ header[1].next = Null
  BY <1>3, <1>4
<1>6. <<>> \in Seq(Table)
  BY EmptySeq
<1>7. TypeOK
  BY <1>1, <1>5, <1>6, SpaceAssumption DEF Init, TypeOK, HeaderBlock, AtHeader
<1>8. OneChain
  BY <1>5 DEF OneChain
<1>9. Fills
  BY DEF Init, Fills
<1> QED
  BY <1>7, <1>8, <1>9 DEF HeaderInv

(* Nothing but sessions changes.                                           *)
LEMMA SameHeader ==
  ASSUME HeaderInv, UNCHANGED <<header, at>>, \A k \in Session : stmt'[k] = "fill" => stmt[k] = "fill"
  PROVE  OneChain' /\ Fills'
BY DEF HeaderInv, OneChain, Fills

LEMMA HeaderOpen ==
  ASSUME HeaderInv, NEW k \in Session, OpenDB(k)
  PROVE  HeaderInv'
<1> USE DEF HeaderInv
<1>1. TypeOK'
  BY DEF OpenDB, TypeOK, AtHeader
<1>2. OneChain' /\ Fills'
  BY DEF OpenDB, TypeOK, OneChain, Fills
<1> QED
  BY <1>1, <1>2

LEMMA HeaderLoad ==
  ASSUME HeaderInv, NEW k \in Session, LoadTables(k)
  PROVE  HeaderInv'
<1> USE DEF HeaderInv
<1>1. PICK s \in {"open", "reload"} : Visit(k, s)
  BY DEF LoadTables
<1>2. at[k] \in Nat
  BY DEF TypeOK
<1>3. at[k] + 1 \in 1 .. Len(header)
  BY <1>1, <1>2, HeaderType DEF Visit, IsStored
<1>4. Stored(at[k]) \in HeaderBlock
  BY <1>3, HeaderType DEF Stored
<1>5. Stored(at[k]).tables \in Seq(Table) /\ Stored(at[k]).next \in Nat /\ cache[k] \in Seq(Table)
  BY <1>4 DEF HeaderBlock, TypeOK
<1>6. cache[k] \o Stored(at[k]).tables \in Seq(Table)
  BY <1>5, ConcatProperties
<1>7. cache' \in [Session -> Seq(Table)]
  BY <1>6 DEF LoadTables, TypeOK
<1>8. stmt' \in [Session -> {"off", "idle", "columns", "column"} \cup AtHeader] /\ at' \in [Session -> Nat]
  BY <1>5 DEF LoadTables, TypeOK
<1>9. TypeOK'
  BY <1>7, <1>8 DEF LoadTables, TypeOK
<1>10. stmt[k] # "fill" /\ \A j \in Session \ {k} : stmt'[j] = stmt[j] /\ at'[j] = at[j]
  BY <1>1 DEF LoadTables, Visit, TypeOK
<1>11. stmt'[k] # "fill"
  BY <1>1 DEF LoadTables, Visit, TypeOK
<1>12. OneChain' /\ Fills'
  BY <1>10, <1>11 DEF LoadTables, OneChain, Fills
<1> QED
  BY <1>9, <1>12

LEMMA HeaderCreate ==
  ASSUME HeaderInv, NEW k \in Session, NEW d \in Definition, CreateTable(k, d)
  PROVE  HeaderInv'
<1> USE DEF HeaderInv
<1>1. [def |-> d, first |-> <<>>] \in Table
  BY EmptySeq DEF Table
<1>2. creates' \in 0 .. MaxCreates
  BY SpaceAssumption DEF CreateTable, TypeOK
<1>3. TypeOK'
  BY <1>1, <1>2 DEF CreateTable, TypeOK
<1>4. OneChain' /\ Fills'
  BY SameHeader DEF CreateTable, TypeOK
<1> QED
  BY <1>3, <1>4

(* A new first block of a table.                                           *)
LEMMA FirstChanged ==
  ASSUME NEW t \in Table, NEW s
  PROVE  [t EXCEPT !.first = s] = [def |-> t.def, first |-> s]
BY DEF Table

LEMMA Flushed ==
  ASSUME HeaderInv, NEW k \in Session, FlushDataBlock(k)
  PROVE  LET n == table[k].def.name
             t == [def |-> table[k].def, first |-> Append(table[k].first, at[k])]
         IN  /\ n \in Name /\ t \in Table
             /\ table' = [table EXCEPT ![k] = t]
             /\ files' = [files EXCEPT ![n] = IF at[k] < @ THEN @ ELSE at[k] + 1]
             /\ \/ /\ stmt' = [stmt EXCEPT ![k] = "columns"] /\ at' = at
                   /\ Len(t.first) < table[k].def.columns
                \/ /\ stmt' = [stmt EXCEPT ![k] = "chain"] /\ at' = [at EXCEPT ![k] = 0]
                   /\ ~(Len(t.first) < table[k].def.columns)
<1> DEFINE n == table[k].def.name
           t == [def |-> table[k].def, first |-> Append(table[k].first, at[k])]
<1>1. table[k] \in Table /\ at[k] \in Nat
  BY DEF HeaderInv, TypeOK
<1>2. n \in Name /\ table[k].first \in Seq(Nat)
  BY <1>1 DEF Table, Name
<1>3. t \in Table
  BY <1>1, <1>2, AppendProperties DEF Table
<1>4. table' = [table EXCEPT ![k] = t]
  <2>1. table' = [table EXCEPT ![k] = [table[k] EXCEPT !.first = Append(table[k].first, at[k])]]
    BY DEF FlushDataBlock
  <2>2. [table[k] EXCEPT !.first = Append(table[k].first, at[k])] = t
    BY <1>1, FirstChanged
  <2> QED
    BY <2>1, <2>2
<1>5. files' = [files EXCEPT ![n] = IF at[k] < @ THEN @ ELSE at[k] + 1]
  BY DEF FlushDataBlock, LengthAfterFlush
<1> QED
  BY <1>2, <1>3, <1>4, <1>5 DEF FlushDataBlock

LEMMA HeaderColumns ==
  ASSUME HeaderInv, NEW k \in Session, NewDataBlock(k) \/ FlushDataBlock(k)
  PROVE  HeaderInv'
<1> USE DEF HeaderInv
<1>1. CASE NewDataBlock(k)
  <2>1. table[k] \in Table
    BY DEF TypeOK
  <2>2. files[table[k].def.name] \in Nat
    BY <2>1 DEF TypeOK, Table, Name
  <2>3. TypeOK'
    BY <1>1, <2>2 DEF NewDataBlock, NewBlockAddress, TypeOK
  <2>4. OneChain' /\ Fills'
    BY <1>1 DEF NewDataBlock, TypeOK, OneChain, Fills
  <2> QED
    BY <2>3, <2>4
<1>2. CASE FlushDataBlock(k)
  <2> DEFINE n == table[k].def.name
             t == [def |-> table[k].def, first |-> Append(table[k].first, at[k])]
  <2>1. /\ n \in Name /\ t \in Table /\ table' = [table EXCEPT ![k] = t]
        /\ files' = [files EXCEPT ![n] = IF at[k] < @ THEN @ ELSE at[k] + 1]
        /\ \/ stmt' = [stmt EXCEPT ![k] = "columns"] /\ at' = at
           \/ stmt' = [stmt EXCEPT ![k] = "chain"] /\ at' = [at EXCEPT ![k] = 0]
    BY <1>2, Flushed
  <2> HIDE DEF t, n
  <2>2. files' \in [Name -> Nat]
    BY <2>1 DEF TypeOK
  <2>6. table' \in [Session -> Table]
    BY <2>1 DEF TypeOK
  <2>7. /\ stmt' \in [Session -> {"off", "idle", "columns", "column"} \cup AtHeader]
        /\ at' \in [Session -> Nat]
    <3>1. /\ stmt \in [Session -> {"off", "idle", "columns", "column"} \cup AtHeader]
          /\ at \in [Session -> Nat]
      BY DEF TypeOK
    <3>2. \/ stmt' = [stmt EXCEPT ![k] = "columns"] /\ at' = at
          \/ stmt' = [stmt EXCEPT ![k] = "chain"] /\ at' = [at EXCEPT ![k] = 0]
      BY <2>1
    <3> QED
      BY <3>1, <3>2 DEF AtHeader
  <2>3. TypeOK'
    BY <1>2, <2>2, <2>6, <2>7 DEF FlushDataBlock, TypeOK
  <2>4. stmt[k] # "fill" /\ \A j \in Session : stmt'[j] = "fill" => stmt[j] = "fill" /\ at'[j] = at[j]
    BY <1>2, <2>1 DEF FlushDataBlock, TypeOK
  <2>5. OneChain' /\ Fills'
    BY <1>2, <2>4 DEF FlushDataBlock, OneChain, Fills
  <2> QED
    BY <2>3, <2>5
<1> QED
  BY <1>1, <1>2

LEMMA HeaderFollow ==
  ASSUME HeaderInv, NEW k \in Session, FollowLink(k)
  PROVE  HeaderInv'
<1> USE DEF HeaderInv
<1>1. at[k] \in Nat
  BY DEF TypeOK
<1>2. Stored(at[k]) \in HeaderBlock
  BY <1>1, HeaderType DEF FollowLink, Visit, IsStored, Stored
<1>3. NextBlock(k) \in Nat
  BY <1>2 DEF NextBlock, HeaderBlock
<1>4. TypeOK'
  BY <1>3 DEF FollowLink, TypeOK
<1>5. OneChain' /\ Fills'
  BY DEF FollowLink, Visit, TypeOK, OneChain, Fills
<1> QED
  BY <1>4, <1>5

(* What ReLoadTables does to a session.                                    *)
LEMMA ReLoads ==
  ASSUME HeaderInv, NEW k \in Session, NEW outcome \in {"success", "failure"}, ReLoadTables(k, outcome)
  PROVE  /\ stmt' \in [Session -> {"off", "idle", "columns", "column"} \cup AtHeader]
         /\ at' \in [Session -> Nat] /\ cache' \in [Session -> Seq(Table)]
         /\ result' \in [Session -> {"none", "success", "failure"}]
         /\ UNCHANGED <<server, files, table, creates, crashes>>
         /\ stmt'[k] = "reload" /\ at'[k] = 0 /\ cache'[k] = <<>> /\ result'[k] = outcome
         /\ \A j \in Session \ {k} : /\ stmt'[j] = stmt[j] /\ at'[j] = at[j]
                                     /\ cache'[j] = cache[j] /\ result'[j] = result[j]
<1>1. <<>> \in Seq(Table)
  BY EmptySeq
<1> QED
  BY <1>1 DEF ReLoadTables, HeaderInv, TypeOK, AtHeader

LEMMA HeaderInsert ==
  ASSUME HeaderInv, NEW k \in Session, InsertIntoLastBlock(k)
  PROVE  HeaderInv'
<1> USE DEF HeaderInv
<1> DEFINE n == Len(header)
<1>1. PICK b \in HeaderBlock :
        /\ b.next = Null /\ header' \in Seq(HeaderBlock) /\ Len(header') = n
        /\ \A i \in 1 .. n : header'[i] = IF i = n THEN b ELSE header[i]
  BY TableInserted
<1>2. TypeOK'
  BY <1>1, ReLoads DEF InsertIntoLastBlock, TypeOK, HeaderBlock
<1>3. n \in Nat /\ n > 0 /\ header[n].next = Null
  BY HeaderType, LastIsLast DEF OneChain, InsertIntoLastBlock
<1>4. OneChain'
  BY <1>1, <1>3 DEF OneChain
<1>5. \A j \in Session : stmt'[j] # "fill"
  <2>1. \A j \in Session : stmt[j] # "fill"
    BY <1>3 DEF Fills, Null
  <2> QED
    BY <2>1, ReLoads DEF InsertIntoLastBlock
<1> QED
  BY <1>2, <1>4, <1>5 DEF Fills

LEMMA HeaderLink ==
  ASSUME HeaderInv, NEW k \in Session, LinkNewBlock(k)
  PROVE  HeaderInv'
<1> USE DEF HeaderInv
<1> DEFINE n == Len(header)
<1>1. PICK b :
        /\ b.next = n /\ header[n].next = Null
        /\ header' \in Seq(HeaderBlock) /\ Len(header') = n
        /\ \A i \in 1 .. n : header'[i] = IF i = n THEN b ELSE header[i]
  BY HeaderLinked
<1>2. n \in Nat /\ n > 0
  BY HeaderType DEF OneChain
<1>3. TypeOK'
  BY <1>1, <1>2 DEF LinkNewBlock, TypeOK, HeaderBlock, AtHeader
<1>4. OneChain'
  BY <1>1, <1>2 DEF OneChain
<1>5. \A j \in Session : stmt[j] # "fill"
  BY <1>1, <1>2 DEF Fills, Null
<1>6. /\ stmt'[k] = "fill" /\ at'[k] = n
      /\ \A j \in Session \ {k} : stmt'[j] = stmt[j]
  BY DEF LinkNewBlock, TypeOK
<1>7. Fills'
  BY <1>1, <1>2, <1>5, <1>6 DEF Fills
<1> QED
  BY <1>3, <1>4, <1>7

LEMMA HeaderFill ==
  ASSUME HeaderInv, NEW k \in Session, FillNewBlock(k)
  PROVE  HeaderInv'
<1> USE DEF HeaderInv
<1> DEFINE n == Len(header)
<1>1. /\ header' \in Seq(HeaderBlock) /\ Len(header') = n + 1
      /\ \A i \in 1 .. n : header'[i] = header[i]
      /\ header'[n + 1].next = Null
      /\ \E outcome \in {"success", "failure"} : ReLoadTables(k, outcome)
  BY HeaderFilled
<1>2. n \in Nat /\ n > 0 /\ header[n].next = n /\ \A j \in Session \ {k} : stmt[j] # "fill"
  BY HeaderType DEF OneChain, Fills, FillNewBlock
<1>3. TypeOK'
  BY <1>1, ReLoads DEF TypeOK, HeaderBlock
<1>4. OneChain'
  <2>1. ASSUME NEW i \in 1 .. n + 1
        PROVE  header'[i].next = i \/ (i = n + 1 /\ header'[i].next = Null)
    <3>1. CASE i = n + 1
      BY <1>1, <3>1
    <3>2. CASE i # n + 1
      <4>1. i \in 1 .. n
        BY <1>2, <3>2
      <4> QED
        BY <1>1, <1>2, <4>1, Zenon DEF OneChain
    <3> QED
      BY <3>1, <3>2
  <2> QED
    BY <1>1, <1>2, <2>1 DEF OneChain
<1>5. \A j \in Session : stmt'[j] # "fill"
  BY <1>1, <1>2, ReLoads
<1> QED
  BY <1>3, <1>4, <1>5 DEF Fills

LEMMA HeaderStop ==
  ASSUME HeaderInv,
         \/ \E k \in Session : ReleaseOther(k) \/ Meet(k) \/ ReadGarbage(k)
         \/ UNCHANGED vars
  PROVE  HeaderInv'
<1> USE DEF HeaderInv
<1>1. /\ UNCHANGED <<header, files, stmt, table, at, cache, result, creates, crashes>>
      /\ server' \in {"up", "hung", "undefined"}
  BY DEF ReleaseOther, Meet, ReadGarbage, vars, TypeOK
<1>2. TypeOK'
  BY <1>1 DEF TypeOK
<1> QED
  BY <1>1, <1>2, SameHeader

LEMMA HeaderCrash ==
  ASSUME HeaderInv, Crash
  PROVE  HeaderInv'
<1> USE DEF HeaderInv
<1>1. <<>> \in Seq(Table) /\ crashes' \in 0 .. MaxCrashes
  BY EmptySeq, SpaceAssumption DEF Crash, TypeOK
<1>2. TypeOK'
  BY <1>1 DEF Crash, TypeOK
<1> QED
  BY <1>2, SameHeader DEF Crash

LEMMA HeaderNext ==
  ASSUME HeaderInv, [Next]_vars
  PROVE  HeaderInv'
<1>1. ASSUME NEW k \in Session,
             \/ OpenDB(k) \/ LoadTables(k) \/ (\E d \in Definition : CreateTable(k, d))
             \/ NewDataBlock(k) \/ FlushDataBlock(k) \/ FollowLink(k)
             \/ InsertIntoLastBlock(k) \/ LinkNewBlock(k) \/ FillNewBlock(k)
      PROVE  HeaderInv'
  BY <1>1, HeaderOpen, HeaderLoad, HeaderCreate, HeaderColumns, HeaderFollow, HeaderInsert,
     HeaderLink, HeaderFill
<1> QED
  BY <1>1, HeaderStop, HeaderCrash DEF Next

LEMMA HeaderCorrect == Spec => []HeaderInv
<1>1. HeaderInv /\ [Next]_vars => HeaderInv'
  BY HeaderNext
<1> QED
  BY HeaderInit, <1>1, PTL DEF Spec

(* Header file, sessions and caches keep their types, whatever is created  *)
(* and whenever the process ends.                                          *)
THEOREM CatalogTypeCorrect == Spec => []TypeOK
<1>1. HeaderInv => TypeOK
  BY DEF HeaderInv
<1> QED
  BY <1>1, HeaderCorrect, PTL

-----------------------------------------------------------------------------
(* The list of tables: Gathered is a recursive function, and there is one. *)
IsGather(list, m) ==
  list = [n \in 0 .. m |-> IF n = 0 THEN [tables |-> <<>>, at |-> 0] ELSE Gather(list[n - 1])]

LEMMA GatherExists ==
  ASSUME NEW m \in Nat
  PROVE  \E list : IsGather(list, m)
<1> DEFINE T == {n \in Nat : \E list : IsGather(list, n)}
<1>1. 0 \in T
  <2>1. IsGather([n \in 0 .. 0 |-> [tables |-> <<>>, at |-> 0]], 0)
    BY DEF IsGather
  <2> QED
    BY <2>1
<1>2. ASSUME NEW n \in Nat, n \in T PROVE n + 1 \in T
  <2>1. PICK f : IsGather(f, n)
    BY <1>2
  <2> DEFINE g == [i \in 0 .. n + 1 |-> IF i = n + 1 THEN Gather(f[n]) ELSE f[i]]
  <2>2. \A i \in 0 .. n + 1 :
          g[i] = IF i = 0 THEN [tables |-> <<>>, at |-> 0] ELSE Gather(g[i - 1])
    <3>1. \A i \in 0 .. n : f[i] = IF i = 0 THEN [tables |-> <<>>, at |-> 0] ELSE Gather(f[i - 1])
      BY <2>1 DEF IsGather
    <3>2. \A i \in 1 .. n + 1 : i - 1 \in 0 .. n /\ g[i - 1] = f[i - 1]
      OBVIOUS
    <3> QED
      BY <3>1, <3>2
  <2>3. g = [i \in 0 .. n + 1 |-> IF i = 0 THEN [tables |-> <<>>, at |-> 0] ELSE Gather(g[i - 1])]
    <3>1. g = [i \in 0 .. n + 1 |-> g[i]]
      OBVIOUS
    <3> HIDE DEF g
    <3> QED
      BY <2>2, <3>1, Zenon
  <2> HIDE DEF g
  <2>4. IsGather(g, n + 1)
    BY <2>3 DEF IsGather
  <2> QED
    BY <2>4
<1> HIDE DEF T
<1>3. Nat \subseteq T
  BY <1>1, <1>2, NatInd
<1> QED
  BY <1>3 DEF T

(* Where all blocks are one chain, each adds its tables to the list.       *)
ReadSteps ==
  /\ Read(0) = <<>>
  /\ \A n \in 0 .. Len(header) - 1 : Read(n + 1) = Read(n) \o header[n + 1].tables
  /\ \A n \in 0 .. Len(header) : Read(n) \in Seq(Table)

LEMMA ReadsAll == HeaderInv => ReadSteps
<1> SUFFICES ASSUME HeaderInv PROVE ReadSteps
  OBVIOUS
<1> DEFINE m == Len(header)
           T == {n \in Nat : n <= m => Gathered[n].at = n /\ Gathered[n].tables \in Seq(Table)}
<1>0. m \in Nat
  BY HeaderType DEF HeaderInv
<1>1. IsGather(Gathered, m)
  <2> DEFINE f == CHOOSE list : IsGather(list, m)
  <2>1. IsGather(f, m)
    BY <1>0, GatherExists
  <2>2. Gathered = f
    BY DEF Gathered, IsGather
  <2> HIDE DEF f
  <2> QED
    BY <2>1, <2>2
<1>2. /\ Gathered[0] = [tables |-> <<>>, at |-> 0]
      /\ \A n \in 0 .. m - 1 : Gathered[n + 1] = Gather(Gathered[n])
  BY <1>0, <1>1 DEF IsGather
<1>3. ASSUME NEW n \in 0 .. m - 1, Gathered[n].at = n
      PROVE  /\ Gathered[n + 1].at = n + 1
             /\ Gathered[n + 1].tables = Gathered[n].tables \o header[n + 1].tables
  <2>1. IsStored(n) /\ Stored(n) = header[n + 1] /\ n + 1 \in 1 .. m
    BY <1>0, <1>3 DEF IsStored, Stored
  <2> DEFINE ts == Gathered[n].tables \o header[n + 1].tables
             a == IF IsLast(n) THEN m ELSE header[n + 1].next
  <2>2. Gathered[n + 1] = [tables |-> ts, at |-> a]
    BY <1>2, <1>3, <2>1 DEF Gather
  <2>3. (IF IsLast(n) THEN m ELSE header[n + 1].next) = n + 1
    <3>1. CASE IsLast(n)
      BY <1>0, <2>1, <3>1 DEF IsLast, HeaderInv, OneChain, Null
    <3>2. CASE ~IsLast(n)
      BY <1>0, <2>1, <3>2 DEF IsLast, HeaderInv, OneChain
    <3> QED
      BY <3>1, <3>2
  <2>4. Gathered[n + 1].tables = ts /\ Gathered[n + 1].at = a
    <3> HIDE DEF ts, a
    <3> QED
      BY <2>2
  <2> QED
    BY <2>3, <2>4, Zenon
<1>9. Gathered[0].at = 0 /\ Gathered[0].tables = <<>> /\ <<>> \in Seq(Table)
  BY <1>2, EmptySeq
<1>4. 0 \in T
  BY <1>9, Zenon
<1>5. ASSUME NEW n \in Nat, n \in T PROVE n + 1 \in T
  <2>1. SUFFICES ASSUME n + 1 <= m
                 PROVE  Gathered[n + 1].at = n + 1 /\ Gathered[n + 1].tables \in Seq(Table)
    OBVIOUS
  <2>2. n \in 0 .. m - 1 /\ Gathered[n].at = n /\ Gathered[n].tables \in Seq(Table)
    BY <1>0, <1>5, <2>1
  <2>3. header[n + 1].tables \in Seq(Table)
    BY <1>0, <2>2, HeaderType DEF HeaderBlock, HeaderInv
  <2> QED
    BY <1>3, <2>2, <2>3, ConcatProperties
<1> HIDE DEF T
<1>6. Nat \subseteq T
  BY <1>4, <1>5, NatInd
<1>7. \A n \in 0 .. m : Gathered[n].at = n /\ Gathered[n].tables \in Seq(Table)
  BY <1>0, <1>6 DEF T
<1>8. \A n \in 0 .. m - 1 : Gathered[n + 1].tables = Gathered[n].tables \o header[n + 1].tables
  <2>1. \A n \in 0 .. m - 1 : n \in 0 .. m
    BY <1>0
  <2> QED
    BY <1>3, <1>7, <2>1, Zenon
<1> QED
  BY <1>7, <1>8, <1>9, Zenon DEF ReadSteps, Read

LEMMA TablesType == HeaderInv => Tables = Read(Len(header)) /\ Tables \in Seq(Table)
<1> SUFFICES ASSUME HeaderInv PROVE Tables = Read(Len(header)) /\ Tables \in Seq(Table)
  OBVIOUS
<1>1. Len(header) \in 0 .. Len(header)
  BY HeaderType DEF HeaderInv
<1> QED
  BY <1>1, ReadsAll DEF ReadSteps, Tables, Read

(* Blocks whose tables stay list what they listed.                         *)
LEMMA ReadSame ==
  ASSUME HeaderInv, HeaderInv', NEW m \in Nat, m <= Len(header), m <= Len(header'),
         \A i \in 1 .. m : header'[i].tables = header[i].tables
  PROVE  \A n \in 0 .. m : Read(n)' = Read(n)
<1> DEFINE T == {n \in Nat : n <= m => Read(n)' = Read(n)}
<1>0. ReadSteps /\ Len(header) \in Nat
  BY ReadsAll, HeaderType DEF HeaderInv
<1>1. ReadSteps'
  BY ReadsAll, PTL
<1>2. Len(header') \in Nat
  <2>1. header' \in Seq(HeaderBlock)
    BY DEF HeaderInv, TypeOK, HeaderBlock
  <2> QED
    BY <2>1, LenProperties
<1>3. 0 \in T
  BY <1>0, <1>1 DEF ReadSteps
<1>4. ASSUME NEW n \in Nat, n \in T PROVE n + 1 \in T
  <2>1. SUFFICES ASSUME n + 1 <= m PROVE Read(n + 1)' = Read(n + 1)
    OBVIOUS
  <2>2. /\ n \in 0 .. Len(header) - 1 /\ n \in 0 .. Len(header') - 1 /\ n + 1 \in 1 .. m
        /\ Read(n)' = Read(n)
    BY <1>0, <1>2, <1>4, <2>1
  <2>3. Read(n + 1) = Read(n) \o header[n + 1].tables
    BY <1>0, <2>2 DEF ReadSteps
  <2>4. Read(n + 1)' = Read(n)' \o header'[n + 1].tables
    BY <1>1, <2>2 DEF ReadSteps
  <2> QED
    BY <2>2, <2>3, <2>4
<1> HIDE DEF T
<1>5. Nat \subseteq T
  BY <1>3, <1>4, NatInd
<1> QED
  BY <1>5 DEF T

-----------------------------------------------------------------------------
(* How a step changes the list: a table is appended, or nothing is.        *)
LEMMA AppendBehind ==
  ASSUME NEW S, NEW s \in Seq(S), NEW t \in Seq(S), NEW e \in S
  PROVE  s \o Append(t, e) = Append(s \o t, e)
<1>1. Append(t, e) = t \o <<e>> /\ <<e>> \in Seq(S)
  BY AppendIsConcat
<1>2. s \o t \in Seq(S)
  BY ConcatProperties
<1>3. Append(s \o t, e) = (s \o t) \o <<e>>
  BY <1>2, AppendIsConcat
<1> QED
  BY <1>1, <1>3, ConcatAssociative

LEMMA NextTables ==
  ASSUME HeaderInv', NEW n, n = Len(header')
  PROVE  ReadSteps' /\ Tables' = Read(n)' /\ Tables' \in Seq(Table)
<1>1. ReadSteps'
  BY ReadsAll, PTL
<1>2. (Tables = Read(Len(header)) /\ Tables \in Seq(Table))'
  BY TablesType, PTL
<1> QED
  BY <1>1, <1>2 DEF Read

LEMMA ReadInsert ==
  ASSUME HeaderInv, HeaderInv', NEW k \in Session, InsertIntoLastBlock(k)
  PROVE  /\ \A m \in 0 .. Len(header) - 1 : Read(m)' = Read(m)
         /\ Tables' = Append(Tables, table[k])
         /\ Len(header') = Len(header) /\ header'[Len(header)].next = Null
         /\ \A i \in 1 .. Len(header) - 1 : header'[i] = header[i]
<1>n. PICK n : n = Len(header)
  OBVIOUS
<1>0. /\ n \in Nat /\ n > 0 /\ table[k] \in Table
      /\ ReadSteps /\ Tables = Read(n)
      /\ header[n].tables \in Seq(Table)
  <2>1. n \in Nat /\ n > 0 /\ table[k] \in Table
    BY <1>n, HeaderType DEF HeaderInv, OneChain, TypeOK
  <2>2. header[n] \in HeaderBlock
    BY <1>n, <2>1, HeaderType DEF HeaderInv
  <2>3. header[n].tables \in Seq(Table)
    BY <2>2 DEF HeaderBlock
  <2> QED
    BY <1>n, <2>1, <2>3, ReadsAll, TablesType
<1>1. PICK b : b = [tables |-> Append(header[n].tables, table[k]), next |-> Null]
  OBVIOUS
<1>2. /\ Len(header') = n /\ \A i \in 1 .. n : header'[i] = IF i = n THEN b ELSE header[i]
      /\ b.tables = Append(header[n].tables, table[k]) /\ b.next = Null
  BY <1>n, <1>1, TableInserted
<1>3. \A m \in 0 .. n - 1 : Read(m)' = Read(m)
  <2>1. \A i \in 1 .. n - 1 : header'[i].tables = header[i].tables
    BY <1>n, <1>0, <1>2
  <2>2. n - 1 \in Nat /\ n - 1 <= Len(header) /\ n - 1 <= Len(header')
    BY <1>n, <1>0, <1>2
  <2> QED
    BY <1>n, <2>1, <2>2, ReadSame
<1>4. ReadSteps' /\ Tables' = Read(n)'
  BY <1>n, <1>2, NextTables
<1>5. Tables' = Read(n - 1)' \o header'[n].tables
  <2>1. n - 1 \in 0 .. Len(header') - 1 /\ (n - 1) + 1 = n
    BY <1>n, <1>0, <1>2
  <2>2. Read((n - 1) + 1)' = Read(n - 1)' \o header'[(n - 1) + 1].tables
    BY <1>n, <1>4, <2>1 DEF ReadSteps
  <2> QED
    BY <1>n, <1>2, <1>4, <2>1, <2>2
<1>6. Tables = Read(n - 1) \o header[n].tables /\ Read(n - 1) \in Seq(Table)
  <2>1. n - 1 \in 0 .. Len(header) - 1 /\ n - 1 \in 0 .. Len(header) /\ (n - 1) + 1 = n
    BY <1>n, <1>0
  <2>2. Read((n - 1) + 1) = Read(n - 1) \o header[(n - 1) + 1].tables
    BY <1>n, <1>0, <2>1 DEF ReadSteps
  <2> QED
    BY <1>n, <1>0, <2>1, <2>2 DEF ReadSteps
<1>7. Read(n - 1)' = Read(n - 1) /\ header'[n].tables = Append(header[n].tables, table[k])
  BY <1>n, <1>0, <1>2, <1>3
<1>8. Tables' = Append(Tables, table[k])
  <2>1. Read(n - 1) \o Append(header[n].tables, table[k]) = Append(Read(n - 1) \o header[n].tables, table[k])
    <3>1. \A s, t \in Seq(Table), e \in Table : s \o Append(t, e) = Append(s \o t, e)
      BY AppendBehind
    <3> QED
      BY <1>0, <1>6, <3>1, Zenon
  <2>2. Tables' = Read(n - 1) \o Append(header[n].tables, table[k])
    BY <1>5, <1>7
  <2> QED
    BY <1>6, <2>1, <2>2
<1> QED
  BY <1>n, <1>0, <1>2, <1>3, <1>8

LEMMA ReadLink ==
  ASSUME HeaderInv, HeaderInv', NEW k \in Session, LinkNewBlock(k)
  PROVE  /\ \A m \in 0 .. Len(header) : Read(m)' = Read(m)
         /\ Tables' = Tables /\ Len(header') = Len(header)
         /\ \A i \in 1 .. Len(header) - 1 : header'[i] = header[i]
         /\ header'[Len(header)].next = Len(header)
<1>n. PICK n : n = Len(header)
  OBVIOUS
<1>0. n \in Nat /\ Tables = Read(n)
  BY <1>n, HeaderType, TablesType DEF HeaderInv
<1>1. PICK b : b = [tables |-> header[n].tables, next |-> n]
  OBVIOUS
<1>2. /\ Len(header') = n /\ \A i \in 1 .. n : header'[i] = IF i = n THEN b ELSE header[i]
      /\ b.tables = header[n].tables /\ b.next = n /\ n > 0
  BY <1>n, <1>1, HeaderLinked DEF HeaderInv, OneChain
<1>3. \A m \in 0 .. n : Read(m)' = Read(m)
  BY <1>n, <1>0, <1>2, ReadSame
<1>4. Tables' = Read(n)'
  BY <1>n, <1>2, NextTables
<1> QED
  BY <1>n, <1>0, <1>2, <1>3, <1>4

LEMMA ReadFill ==
  ASSUME HeaderInv, HeaderInv', NEW k \in Session, FillNewBlock(k)
  PROVE  /\ \A m \in 0 .. Len(header) : Read(m)' = Read(m)
         /\ Len(header') = Len(header) + 1
         /\ \A i \in 1 .. Len(header) : header'[i] = header[i]
         /\ \/ Tables' = Append(Tables, table[k]) /\ ReLoadTables(k, "success")
            \/ Tables' = Tables /\ ReLoadTables(k, "failure")
<1>n. PICK n : n = Len(header)
  OBVIOUS
<1>0. n \in Nat /\ Tables = Read(n) /\ table[k] \in Table /\ Tables \in Seq(Table)
  BY <1>n, HeaderType, TablesType DEF HeaderInv, TypeOK
<1>1. /\ Len(header') = n + 1 /\ \A i \in 1 .. n : header'[i] = header[i]
      /\ \/ header'[n + 1].tables = <<table[k]>> /\ ReLoadTables(k, "success")
         \/ header'[n + 1].tables = <<>> /\ ReLoadTables(k, "failure")
  BY <1>n, HeaderFilled
<1>2. \A m \in 0 .. n : Read(m)' = Read(m)
  BY <1>n, <1>0, <1>1, ReadSame
<1>3. ReadSteps' /\ Tables' = Read(n + 1)'
  BY <1>n, <1>1, NextTables
<1>4. Tables' = Tables \o header'[n + 1].tables
  <2>1. n \in 0 .. Len(header') - 1 /\ Read(n)' = Read(n)
    BY <1>n, <1>0, <1>1, <1>2
  <2>2. Read(n + 1)' = Read(n)' \o header'[n + 1].tables
    BY <1>n, <1>3, <2>1 DEF ReadSteps
  <2> QED
    BY <1>n, <1>0, <1>1, <1>3, <2>1, <2>2
<1>5. Tables \o <<table[k]>> = Append(Tables, table[k]) /\ Tables \o <<>> = Tables
  BY <1>n, <1>0, AppendIsConcat, ConcatEmptySeq
<1> QED
  BY <1>n, <1>1, <1>2, <1>4, <1>5

LEMMA ReadElse ==
  ASSUME HeaderInv, HeaderInv', header' = header
  PROVE  Tables' = Tables /\ \A m \in 0 .. Len(header) : Read(m)' = Read(m)
<1>1. PICK n : n = Len(header)
  OBVIOUS
<1>2. n \in Nat /\ Tables = Read(n)
  BY <1>1, HeaderType, TablesType DEF HeaderInv
<1>3. \A m \in 0 .. n : Read(m)' = Read(m)
  BY <1>1, <1>2, ReadSame
<1>4. Tables' = Read(n)'
  BY <1>1, NextTables
<1> QED
  BY <1>1, <1>2, <1>3, <1>4

-----------------------------------------------------------------------------
(* Prefixes.                                                               *)
LEMMA PrefixIs ==
  ASSUME NEW S, NEW s \in Seq(S), NEW t \in Seq(S)
  PROVE  IsPrefix(s, t) <=> Len(s) <= Len(t) /\ \A i \in 1 .. Len(s) : s[i] = t[i]
<1>1. Len(s) \in Nat /\ Len(t) \in Nat /\ SubSeq(s, 1, Len(s)) = s
  BY LenProperties, SubSeqFull
<1>2. SUFFICES ASSUME Len(s) <= Len(t)
               PROVE  SubSeq(t, 1, Len(s)) = s <=> \A i \in 1 .. Len(s) : s[i] = t[i]
  BY <1>1 DEF IsPrefix
<1>3. \A i \in 1 .. Len(s) : t[i] \in S
  BY <1>1, <1>2, ElementOfSeq
<1>4. /\ SubSeq(t, 1, Len(s)) \in Seq(S) /\ Len(SubSeq(t, 1, Len(s))) = Len(s)
      /\ \A i \in 1 .. Len(s) : SubSeq(t, 1, Len(s))[i] = t[i]
  BY <1>1, <1>3, SubSeqProperties
<1>5. CASE SubSeq(t, 1, Len(s)) = s
  BY <1>4, <1>5
<1>6. CASE \A i \in 1 .. Len(s) : s[i] = t[i]
  BY <1>4, <1>6, SeqEqual
<1> QED
  BY <1>5, <1>6

LEMMA PrefixGrows ==
  ASSUME NEW S, NEW s \in Seq(S), NEW t \in Seq(S), NEW u \in Seq(S)
  PROVE  /\ IsPrefix(<<>>, s) /\ IsPrefix(s, s)
         /\ IsPrefix(s, t) /\ IsPrefix(t, u) => IsPrefix(s, u)
         /\ IsPrefix(s, s \o u)
         /\ \A e \in S : IsPrefix(s, t) => IsPrefix(s, Append(t, e))
<1>1. Len(s) \in Nat /\ Len(t) \in Nat /\ Len(u) \in Nat
  BY LenProperties
<1>2. <<>> \in Seq(S) /\ Len(<<>>) = 0
  BY EmptySeq
<1>7. \A v, w \in Seq(S) :
        IsPrefix(v, w) <=> Len(v) <= Len(w) /\ \A i \in 1 .. Len(v) : v[i] = w[i]
  BY PrefixIs
<1>3. IsPrefix(<<>>, s) /\ IsPrefix(s, s)
  <2>1. 0 <= Len(s) /\ Len(s) <= Len(s) /\ \A i : i \notin 1 .. 0
    BY <1>1
  <2> QED
    BY <1>2, <1>7, <2>1, Zenon
<1>4. IsPrefix(s, t) /\ IsPrefix(t, u) => IsPrefix(s, u)
  BY <1>1, PrefixIs
<1>5. IsPrefix(s, s \o u)
  <2>1. s \o u \in Seq(S) /\ Len(s \o u) = Len(s) + Len(u)
    BY ConcatProperties
  <2>2. Len(s) <= Len(s \o u) /\ \A i \in 1 .. Len(s) : s[i] = (s \o u)[i]
    BY <1>1, <2>1, ConcatProperties
  <2> QED
    BY <1>7, <2>1, <2>2, Zenon
<1>6. ASSUME NEW e \in S, IsPrefix(s, t) PROVE IsPrefix(s, Append(t, e))
  <2>1. /\ Append(t, e) \in Seq(S) /\ Len(Append(t, e)) = Len(t) + 1
        /\ \A i \in 1 .. Len(t) : Append(t, e)[i] = t[i]
    BY <1>1, AppendProperties
  <2>2. Len(s) <= Len(t) /\ \A i \in 1 .. Len(s) : s[i] = t[i]
    BY <1>6, PrefixIs
  <2>3. Len(s) <= Len(Append(t, e)) /\ \A i \in 1 .. Len(s) : s[i] = Append(t, e)[i]
    BY <1>1, <2>1, <2>2
  <2> QED
    BY <1>7, <2>1, <2>3, Zenon
<1> QED
  BY <1>3, <1>4, <1>5, <1>6

(* What some of the blocks list is how the whole list begins.              *)
LEMMA ReadsBegin ==
  ASSUME HeaderInv, NEW n \in 0 .. Len(header)
  PROVE  IsPrefix(Read(n), Tables)
<1>0. Len(header) \in Nat /\ ReadSteps /\ Tables = Read(Len(header))
  BY HeaderType, ReadsAll, TablesType DEF HeaderInv
<1> DEFINE T == {m \in Nat : n + m <= Len(header) => IsPrefix(Read(n), Read(n + m))}
<1>1. 0 \in T
  <2>1. IsPrefix(Read(n), Read(n)) /\ n + 0 = n
    BY <1>0, PrefixGrows DEF ReadSteps
  <2> QED
    BY <2>1
<1>2. ASSUME NEW m \in Nat, m \in T PROVE m + 1 \in T
  <2>1. SUFFICES ASSUME n + (m + 1) <= Len(header) PROVE IsPrefix(Read(n), Read(n + (m + 1)))
    OBVIOUS
  <2> DEFINE i == n + m
  <2>2. i \in 0 .. Len(header) - 1 /\ i \in 0 .. Len(header) /\ i + 1 = n + (m + 1) /\ i + 1 \in 1 .. Len(header)
    BY <1>0, <2>1
  <2>3. IsPrefix(Read(n), Read(i))
    BY <1>0, <1>2, <2>2
  <2> HIDE DEF i
  <2>4. Read(i + 1) = Read(i) \o header[i + 1].tables /\ Read(i) \in Seq(Table) /\ Read(n) \in Seq(Table)
    BY <1>0, <2>2 DEF ReadSteps
  <2>5. header[i + 1] \in HeaderBlock
    BY <2>2, HeaderType DEF HeaderInv
  <2>6. header[i + 1].tables \in Seq(Table)
    BY <2>5 DEF HeaderBlock
  <2>7. IsPrefix(Read(i), Read(i + 1)) /\ Read(i + 1) \in Seq(Table)
    <3>1. \A s, u \in Seq(Table) : IsPrefix(s, s \o u) /\ s \o u \in Seq(Table)
      BY PrefixGrows, ConcatProperties
    <3> QED
      BY <2>4, <2>6, <3>1, Zenon
  <2>8. IsPrefix(Read(n), Read(i + 1))
    <3>1. \A s, t, u \in Seq(Table) : IsPrefix(s, t) /\ IsPrefix(t, u) => IsPrefix(s, u)
      BY PrefixGrows
    <3> QED
      BY <2>3, <2>4, <2>7, <3>1, Zenon
  <2> QED
    BY <2>2, <2>8
<1> HIDE DEF T
<1>3. Nat \subseteq T
  BY <1>1, <1>2, NatInd
<1>4. Len(header) - n \in T /\ n + (Len(header) - n) = Len(header)
  BY <1>0, <1>3
<1> QED
  BY <1>0, <1>4 DEF T

-----------------------------------------------------------------------------
(* The caches. Blocks that a loading session has behind it do not change.  *)
LEMMA ListGrows ==
  ASSUME HeaderInv, HeaderInv', [Next]_vars
  PROVE  /\ Tables' = Tables \/ \E k \in Session : Tables' = Append(Tables, table[k])
         /\ Len(header) <= Len(header')
         /\ \A m \in 0 .. Len(header) : (m > 0 => header[m].next = m) =>
               Read(m)' = Read(m) /\ (m > 0 => header'[m].next = m)
<1>1. Len(header) \in Nat
  BY HeaderType DEF HeaderInv
<1>2. ASSUME NEW k \in Session, InsertIntoLastBlock(k)
      PROVE  /\ Tables' = Append(Tables, table[k]) /\ Len(header) <= Len(header')
             /\ \A m \in 0 .. Len(header) : (m > 0 => header[m].next = m) =>
                  Read(m)' = Read(m) /\ (m > 0 => header'[m].next = m)
  <2>1. header[Len(header)].next = Null /\ Len(header) > 0
    BY <1>2, LastIsLast DEF InsertIntoLastBlock, HeaderInv, OneChain
  <2>2. /\ \A m \in 0 .. Len(header) - 1 : Read(m)' = Read(m)
        /\ \A m \in 1 .. Len(header) - 1 : header'[m] = header[m]
        /\ Tables' = Append(Tables, table[k]) /\ Len(header') = Len(header)
    BY <1>2, ReadInsert
  <2>3. \A m \in 0 .. Len(header) : (m > 0 => header[m].next = m) =>
          m \in 0 .. Len(header) - 1 /\ (m > 0 => m \in 1 .. Len(header) - 1)
    BY <1>1, <2>1 DEF Null
  <2> QED
    BY <1>1, <2>2, <2>3
<1>3. ASSUME NEW k \in Session, LinkNewBlock(k)
      PROVE  /\ Tables' = Tables /\ Len(header) <= Len(header')
             /\ \A m \in 0 .. Len(header) : (m > 0 => header[m].next = m) =>
                  Read(m)' = Read(m) /\ (m > 0 => header'[m].next = m)
  <2>1. /\ \A m \in 0 .. Len(header) : Read(m)' = Read(m)
        /\ \A m \in 1 .. Len(header) - 1 : header'[m] = header[m]
        /\ header'[Len(header)].next = Len(header)
        /\ Tables' = Tables /\ Len(header') = Len(header)
    BY <1>3, ReadLink
  <2>2. \A m \in 0 .. Len(header) : m > 0 => m = Len(header) \/ m \in 1 .. Len(header) - 1
    BY <1>1
  <2> QED
    BY <1>1, <2>1, <2>2
<1>4. ASSUME NEW k \in Session, FillNewBlock(k)
      PROVE  /\ Tables' = Tables \/ Tables' = Append(Tables, table[k])
             /\ Len(header) <= Len(header')
             /\ \A m \in 0 .. Len(header) : (m > 0 => header[m].next = m) =>
                  Read(m)' = Read(m) /\ (m > 0 => header'[m].next = m)
  <2>1. /\ \A m \in 0 .. Len(header) : Read(m)' = Read(m)
        /\ \A m \in 1 .. Len(header) : header'[m] = header[m]
        /\ Len(header') = Len(header) + 1
        /\ Tables' = Tables \/ Tables' = Append(Tables, table[k])
    BY <1>4, ReadFill
  <2>2. \A m \in 0 .. Len(header) : m > 0 => m \in 1 .. Len(header)
    BY <1>1
  <2> QED
    BY <1>1, <2>1, <2>2
<1>5. CASE header' = header
  <2>1. Len(header) <= Len(header') /\ \A m : header'[m].next = header[m].next
    BY <1>1, <1>5
  <2> QED
    BY <1>5, <2>1, ReadElse
<1>6. \/ header' = header
      \/ \E k \in Session : InsertIntoLastBlock(k) \/ LinkNewBlock(k) \/ FillNewBlock(k)
  BY DEF Next, vars, OpenDB, LoadTables, CreateTable, NewDataBlock, FlushDataBlock, ReleaseOther,
         FollowLink, Meet, ReadGarbage, Crash
<1> QED
  BY <1>2, <1>3, <1>4, <1>5, <1>6

LEMMA StillBegins ==
  ASSUME CacheInv, HeaderInv', [Next]_vars, NEW j \in Session, cache'[j] = cache[j]
  PROVE  IsPrefix(cache[j], Tables)'
<1>1. cache[j] \in Seq(Table) /\ Tables \in Seq(Table) /\ IsPrefix(cache[j], Tables)
  BY TablesType DEF CacheInv, LoadsOf, HeaderInv, TypeOK
<1>2. \A k \in Session : table[k] \in Table
  BY DEF CacheInv, HeaderInv, TypeOK
<1>3. \/ Tables' = Tables
      \/ \E k \in Session : Tables' = Append(Tables, table[k])
  BY ListGrows DEF CacheInv
<1>4. \A s, t \in Seq(Table), e \in Table : IsPrefix(s, t) => IsPrefix(s, Append(t, e))
  BY PrefixGrows
<1>5. IsPrefix(cache[j], Tables')
  BY <1>1, <1>2, <1>3, <1>4, Zenon
<1> QED
  BY <1>5 DEF IsPrefix

LEMMA OthersLoad ==
  ASSUME CacheInv, HeaderInv', [Next]_vars, NEW j \in Session, cache'[j] = cache[j],
         \/ stmt'[j] = stmt[j] /\ at'[j] = at[j]
         \/ stmt'[j] \notin {"open", "reload", "off"}
  PROVE  LoadsOf(j)'
<1>1. IsPrefix(cache[j], Tables)'
  BY StillBegins
<1>2. CASE stmt'[j] = stmt[j] /\ at'[j] = at[j]
  <2>1. PICK a : a = at[j]
    OBVIOUS
  <2>2. ASSUME Loading(j)
        PROVE  a <= Len(header') /\ (a > 0 => header'[a].next = a) /\ cache[j] = Read(a)'
    <3>1. a \in Nat /\ a <= Len(header) /\ (a > 0 => header[a].next = a) /\ cache[j] = Read(a)
      BY <2>1, <2>2 DEF CacheInv, LoadsOf, HeaderInv, TypeOK
    <3>2. Len(header) \in Nat /\ Len(header') \in Nat
      <4>1. header' \in Seq(HeaderBlock)
        BY DEF HeaderInv, TypeOK, HeaderBlock
      <4> QED
        BY <4>1, HeaderType, LenProperties DEF CacheInv, HeaderInv
    <3>3. a \in 0 .. Len(header)
      BY <3>1, <3>2
    <3>4. Read(a)' = Read(a) /\ (a > 0 => header'[a].next = a) /\ Len(header) <= Len(header')
      BY <3>1, <3>3, ListGrows DEF CacheInv
    <3> QED
      BY <3>1, <3>2, <3>4
  <2>3. stmt[j] = "off" => cache[j] = <<>>
    BY DEF CacheInv, LoadsOf
  <2> QED
    BY <1>1, <1>2, <2>1, <2>2, <2>3 DEF LoadsOf, Loading, Read
<1>3. CASE stmt'[j] \notin {"open", "reload", "off"}
  BY <1>1, <1>3 DEF LoadsOf, Loading
<1> QED
  BY <1>2, <1>3

LEMMA BeginsLoading ==
  ASSUME HeaderInv', NEW j \in Session, cache'[j] = <<>>, at'[j] = 0
  PROVE  LoadsOf(j)'
<1>1. ReadSteps' /\ Tables' \in Seq(Table)
  BY NextTables
<1>2. header' \in Seq(HeaderBlock)
  BY DEF HeaderInv, TypeOK, HeaderBlock
<1>3. Len(header') \in Nat
  BY <1>2, LenProperties
<1>4. IsPrefix(<<>>, Tables')
  BY <1>1, PrefixGrows
<1>5. IsPrefix(cache[j], Tables)'
  BY <1>4 DEF IsPrefix
<1>6. Read(0)' = <<>>
  BY <1>1 DEF ReadSteps
<1> QED
  BY <1>3, <1>5, <1>6 DEF LoadsOf, Read

LEMMA CacheInit == Init => CacheInv
<1> SUFFICES ASSUME Init PROVE CacheInv
  OBVIOUS
<1>1. HeaderInv
  BY HeaderInit
<1>2. Tables \in Seq(Table)
  BY <1>1, TablesType
<1>3. ASSUME NEW k \in Session PROVE LoadsOf(k)
  BY <1>2, PrefixGrows DEF Init, LoadsOf, Loading
<1> QED
  BY <1>1, <1>3 DEF CacheInv

LEMMA CacheLoad ==
  ASSUME CacheInv, HeaderInv', NEW k \in Session, LoadTables(k)
  PROVE  LoadsOf(k)'
<1>1. PICK a : a = at[k]
  OBVIOUS
<1>2. Loading(k) /\ a \in Nat /\ a + 1 \in 1 .. Len(header) /\ Len(header) \in Nat
  BY <1>1, HeaderType DEF LoadTables, Visit, Loading, IsStored, CacheInv, HeaderInv, TypeOK
<1>3. cache[k] = Read(a)
  BY <1>1, <1>2 DEF CacheInv, LoadsOf
<1>4. cache'[k] = Read(a) \o header[a + 1].tables
  BY <1>1, <1>3 DEF LoadTables, Stored, CacheInv, HeaderInv, TypeOK
<1>5. a \in 0 .. Len(header) - 1 /\ a + 1 \in 0 .. Len(header) /\ header' = header
  BY <1>2 DEF LoadTables
<1>6. cache'[k] = Read(a + 1)
  BY <1>4, <1>5, ReadsAll DEF CacheInv, ReadSteps
<1>7. Tables' = Tables /\ Read(a + 1)' = Read(a + 1) /\ IsPrefix(Read(a + 1), Tables)
  BY <1>5, ReadElse, ReadsBegin DEF CacheInv
<1>8. IsPrefix(cache[k], Tables)'
  BY <1>6, <1>7 DEF IsPrefix
<1>9. CASE IsLast(a)
  <2>1. stmt'[k] = "idle"
    BY <1>1, <1>9 DEF LoadTables, CacheInv, HeaderInv, TypeOK
  <2> QED
    BY <1>8, <2>1 DEF LoadsOf, Loading
<1>10. CASE ~IsLast(a)
  <2>1. stmt'[k] = stmt[k] /\ at'[k] = header[a + 1].next
    BY <1>1, <1>10 DEF LoadTables, Stored, CacheInv, HeaderInv, TypeOK
  <2>2. header[a + 1].next = a + 1
    BY <1>2, <1>10 DEF IsLast, Stored, CacheInv, HeaderInv, OneChain
  <2>3. at'[k] = a + 1 /\ stmt'[k] # "off"
    BY <1>2, <2>1, <2>2 DEF Loading
  <2> QED
    BY <1>2, <1>5, <1>6, <1>7, <1>8, <2>2, <2>3 DEF LoadsOf, Read
<1> QED
  BY <1>9, <1>10

LEMMA CacheNext ==
  ASSUME CacheInv, [Next]_vars
  PROVE  CacheInv'
<1>0. HeaderInv /\ HeaderInv'
  BY HeaderNext DEF CacheInv
<1>1. \A j \in Session : LoadsOf(j)
  BY DEF CacheInv
<1>2. ASSUME NEW k \in Session, OpenDB(k) PROVE \A j \in Session : LoadsOf(j)'
  <2>1. ASSUME NEW j \in Session, j # k PROVE LoadsOf(j)'
    BY <1>0, <1>2, <2>1, OthersLoad DEF OpenDB, HeaderInv, TypeOK
  <2>2. LoadsOf(k)'
    BY <1>0, <1>1, <1>2, BeginsLoading DEF OpenDB, HeaderInv, TypeOK, LoadsOf
  <2> QED
    BY <2>1, <2>2
<1>3. ASSUME NEW k \in Session, LoadTables(k) PROVE \A j \in Session : LoadsOf(j)'
  <2>1. ASSUME NEW j \in Session, j # k PROVE LoadsOf(j)'
    BY <1>0, <1>3, <2>1, OthersLoad DEF LoadTables, HeaderInv, TypeOK
  <2> QED
    BY <1>0, <1>3, <2>1, CacheLoad
<1>4. ASSUME NEW k \in Session, NEW outcome \in {"success", "failure"}, ReLoadTables(k, outcome)
      PROVE  \A j \in Session : LoadsOf(j)'
  <2>1. /\ cache'[k] = <<>> /\ at'[k] = 0
        /\ \A j \in Session \ {k} : stmt'[j] = stmt[j] /\ at'[j] = at[j] /\ cache'[j] = cache[j]
    BY <1>0, <1>4, ReLoads
  <2>2. ASSUME NEW j \in Session, j # k PROVE LoadsOf(j)'
    BY <1>0, <2>1, <2>2, OthersLoad
  <2> QED
    BY <1>0, <2>1, <2>2, BeginsLoading
<1>5. ASSUME Crash PROVE \A j \in Session : LoadsOf(j)'
  <2>1. HeaderInv' /\ Tables' \in Seq(Table)
    BY <1>0, NextTables
  <2>2. \A j \in Session : cache'[j] = <<>> /\ stmt'[j] = "off"
    BY <1>5 DEF Crash
  <2>3. IsPrefix(<<>>, Tables')
    BY <2>1, PrefixGrows
  <2> QED
    BY <2>2, <2>3 DEF LoadsOf, Loading, IsPrefix
<1>6. ASSUME \/ \E k \in Session : \/ \E d \in Definition : CreateTable(k, d)
                                  \/ NewDataBlock(k) \/ FlushDataBlock(k) \/ ReleaseOther(k)
                                  \/ FollowLink(k) \/ LinkNewBlock(k) \/ Meet(k) \/ ReadGarbage(k)
             \/ UNCHANGED vars
      PROVE  \A j \in Session : LoadsOf(j)'
  <2>1. /\ cache' = cache
        /\ \A j \in Session : \/ stmt'[j] = stmt[j] /\ at'[j] = at[j]
                              \/ stmt'[j] \notin {"open", "reload", "off"}
    <3>1. ASSUME NEW k \in Session, NEW d \in Definition, CreateTable(k, d)
          PROVE  cache' = cache /\ \A j \in Session : \/ stmt'[j] = stmt[j] /\ at'[j] = at[j]
                                                      \/ stmt'[j] \notin {"open", "reload", "off"}
      BY <1>0, <3>1 DEF CreateTable, HeaderInv, TypeOK
    <3>2. ASSUME NEW k \in Session, NewDataBlock(k) \/ FlushDataBlock(k)
          PROVE  cache' = cache /\ \A j \in Session : \/ stmt'[j] = stmt[j] /\ at'[j] = at[j]
                                                      \/ stmt'[j] \notin {"open", "reload", "off"}
      BY <1>0, <3>2 DEF NewDataBlock, FlushDataBlock, HeaderInv, TypeOK
    <3>3. ASSUME NEW k \in Session, FollowLink(k) \/ LinkNewBlock(k)
          PROVE  cache' = cache /\ \A j \in Session : \/ stmt'[j] = stmt[j] /\ at'[j] = at[j]
                                                      \/ stmt'[j] \notin {"open", "reload", "off"}
      BY <1>0, <3>3 DEF FollowLink, LinkNewBlock, Visit, HeaderInv, TypeOK
    <3>4. ASSUME NEW k \in Session, ReleaseOther(k) \/ Meet(k) \/ ReadGarbage(k)
          PROVE  UNCHANGED <<cache, stmt, at>>
      BY <3>4 DEF ReleaseOther, Meet, ReadGarbage
    <3>5. UNCHANGED vars => UNCHANGED <<cache, stmt, at>>
      BY DEF vars
    <3> QED
      BY <1>6, <3>1, <3>2, <3>3, <3>4, <3>5
  <2> QED
    BY <1>0, <2>1, OthersLoad
<1>7. \A j \in Session : LoadsOf(j)'
  <2>1. \A k \in Session : InsertIntoLastBlock(k) \/ FillNewBlock(k) =>
          \E outcome \in {"success", "failure"} : ReLoadTables(k, outcome)
    BY DEF InsertIntoLastBlock, FillNewBlock
  <2> QED
    BY <1>2, <1>3, <1>4, <1>5, <1>6, <2>1 DEF Next
<1> QED
  BY <1>0, <1>7 DEF CacheInv

LEMMA CacheCorrect == Spec => []CacheInv
<1>1. CacheInv /\ [Next]_vars => CacheInv'
  BY CacheNext
<1> QED
  BY CacheInit, <1>1, PTL DEF Spec

(* However stale the list of tables is that a session has cached, also     *)
(* while it is loaded, and through any number of crashes: the list of the  *)
(* database's tables begins with it.                                       *)
THEOREM CachesCorrect == Spec => []CachesAgree
<1>1. CacheInv => CachesAgree
  BY DEF CacheInv, LoadsOf, CachesAgree
<1> QED
  BY <1>1, CacheCorrect, PTL

-----------------------------------------------------------------------------
(* What sessions were told.                                                *)
LEMMA ListKeeps ==
  ASSUME HeaderInv, HeaderInv', [Next]_vars
  PROVE  /\ Tables \in Seq(Table) /\ Tables' \in Seq(Table)
         /\ \A i \in 1 .. Len(Tables) : i \in 1 .. Len(Tables') /\ Tables'[i] = Tables[i]
<1>1. Tables \in Seq(Table) /\ Len(Tables) \in Nat
  BY TablesType, LenProperties
<1>2. Tables' \in Seq(Table)
  BY NextTables
<1>3. CASE Tables' = Tables
  BY <1>1, <1>2, <1>3
<1>4. ASSUME NEW k \in Session, Tables' = Append(Tables, table[k])
      PROVE  \A i \in 1 .. Len(Tables) : i \in 1 .. Len(Tables') /\ Tables'[i] = Tables[i]
  <2>1. table[k] \in Table
    BY DEF HeaderInv, TypeOK
  <2> QED
    BY <1>1, <1>4, <2>1, AppendProperties
<1> QED
  BY <1>1, <1>2, <1>3, <1>4, ListGrows

LEMMA ToldStays ==
  ASSUME ToldInv, HeaderInv', [Next]_vars, NEW j \in Session,
         \/ /\ result'[j] = result[j] /\ table'[j] = table[j]
            /\ stmt'[j] = stmt[j] /\ cache'[j] = cache[j]
         \/ result'[j] = "none"
  PROVE  ToldOf(j)'
<1>1. CASE result'[j] = "none"
  BY <1>1 DEF ToldOf
<1>2. CASE /\ result'[j] = result[j] /\ table'[j] = table[j]
           /\ stmt'[j] = stmt[j] /\ cache'[j] = cache[j]
  <2>1. ToldOf(j)
    BY DEF ToldInv
  <2>2. \A i \in 1 .. Len(Tables) : i \in 1 .. Len(Tables') /\ Tables'[i] = Tables[i]
    BY ListKeeps DEF ToldInv, CacheInv
  <2>3. result[j] = "success" => \E i \in 1 .. Len(Tables') : Tables'[i] = table[j]
    BY <2>1, <2>2 DEF ToldOf
  <2> QED
    BY <1>2, <2>1, <2>3 DEF ToldOf
<1> QED
  BY <1>1, <1>2

LEMMA LoadedAll ==
  ASSUME CacheInv, NEW k \in Session, LoadTables(k), stmt'[k] = "idle"
  PROVE  cache'[k] = Tables
<1>1. PICK a : a = at[k]
  OBVIOUS
<1>2. /\ stmt[k] \in {"open", "reload"} /\ IsLast(a)
      /\ cache'[k] = cache[k] \o header[a + 1].tables
  BY <1>1 DEF LoadTables, Visit, Stored, CacheInv, HeaderInv, TypeOK
<1>3. a \in Nat /\ a + 1 = Len(header) /\ Len(header) \in Nat
  BY <1>1, <1>2, HeaderType, LastIsLast DEF LoadTables, CacheInv, HeaderInv, TypeOK
<1>4. cache[k] = Read(a)
  BY <1>1, <1>2 DEF CacheInv, LoadsOf, Loading
<1>5. a \in 0 .. Len(header) - 1 /\ ReadSteps /\ Tables = Read(Len(header))
  BY <1>3, ReadsAll, TablesType DEF CacheInv
<1> QED
  BY <1>2, <1>3, <1>4, <1>5 DEF ReadSteps

LEMMA ToldLoad ==
  ASSUME ToldInv, CacheInv', [Next]_vars, NEW k \in Session, LoadTables(k)
  PROVE  ToldOf(k)'
<1>1. PICK a : a = at[k]
  OBVIOUS
<1>2. /\ stmt[k] \in {"open", "reload"} /\ result'[k] = result[k] /\ table'[k] = table[k]
      /\ header' = header
      /\ \/ stmt'[k] = stmt[k] \/ stmt'[k] = "idle"
      /\ stmt'[k] = "idle" => IsLast(a)
  BY <1>1 DEF LoadTables, Visit, ToldInv, CacheInv, HeaderInv, TypeOK
<1>3. /\ result[k] # "none" => stmt[k] \in {"reload", "idle"}
      /\ result[k] = "success" => \E i \in 1 .. Len(Tables) : Tables[i] = table[k]
  BY DEF ToldInv, ToldOf
<1>4. Tables' = Tables
  BY <1>2, ReadElse DEF ToldInv, CacheInv
<1>5. stmt'[k] = "idle" => cache'[k] = Tables
  BY LoadedAll DEF ToldInv
<1> QED
  BY <1>2, <1>3, <1>4, <1>5 DEF ToldOf

LEMMA ToldReload ==
  ASSUME ToldInv, HeaderInv', [Next]_vars, NEW k \in Session,
         InsertIntoLastBlock(k) \/ FillNewBlock(k)
  PROVE  ToldOf(k)'
<1>0. HeaderInv /\ table[k] \in Table
  BY DEF ToldInv, CacheInv, HeaderInv, TypeOK
<1>1. \/ ReLoadTables(k, "success") /\ Tables' = Append(Tables, table[k])
      \/ ReLoadTables(k, "failure")
  BY <1>0, ReadInsert, ReadFill DEF InsertIntoLastBlock
<1>2. stmt'[k] = "reload" /\ table' = table
  BY <1>0, <1>1, ReLoads
<1>3. CASE ReLoadTables(k, "success") /\ Tables' = Append(Tables, table[k])
  <2>1. Tables \in Seq(Table) /\ Len(Tables) \in Nat
    BY <1>0, TablesType, LenProperties
  <2>2. Len(Tables') = Len(Tables) + 1 /\ Tables'[Len(Tables) + 1] = table[k]
    BY <1>0, <1>3, <2>1, AppendProperties
  <2>3. \E i \in 1 .. Len(Tables') : Tables'[i] = table'[k]
    BY <1>2, <2>1, <2>2
  <2> QED
    BY <1>2, <2>3 DEF ToldOf
<1>4. CASE ReLoadTables(k, "failure")
  <2>1. result'[k] = "failure"
    BY <1>0, <1>4, ReLoads
  <2> QED
    BY <1>2, <2>1 DEF ToldOf
<1> QED
  BY <1>1, <1>3, <1>4

LEMMA ToldNext ==
  ASSUME ToldInv, [Next]_vars
  PROVE  ToldInv'
<1>0. CacheInv' /\ HeaderInv /\ HeaderInv' /\ \A j \in Session : ToldOf(j)
  BY CacheNext, HeaderNext DEF ToldInv, CacheInv
<1>1. ASSUME NEW k \in Session,
             \/ OpenDB(k) \/ LoadTables(k) \/ (\E d \in Definition : CreateTable(k, d))
             \/ NewDataBlock(k) \/ FlushDataBlock(k) \/ FollowLink(k) \/ LinkNewBlock(k),
             NEW j \in Session, j # k
      PROVE  /\ result'[j] = result[j] /\ table'[j] = table[j]
             /\ stmt'[j] = stmt[j] /\ cache'[j] = cache[j]
  <2>1. /\ stmt'[j] = stmt[j] /\ cache'[j] = cache[j]
    BY <1>0, <1>1 DEF OpenDB, LoadTables, CreateTable, NewDataBlock, FlushDataBlock, FollowLink,
                      LinkNewBlock, HeaderInv, TypeOK
  <2>2. result'[j] = result[j]
    BY <1>0, <1>1 DEF OpenDB, LoadTables, CreateTable, NewDataBlock, FlushDataBlock, FollowLink,
                      LinkNewBlock, HeaderInv, TypeOK
  <2>3. table'[j] = table[j]
    BY <1>0, <1>1 DEF OpenDB, LoadTables, CreateTable, NewDataBlock, FlushDataBlock, FollowLink,
                      LinkNewBlock, HeaderInv, TypeOK
  <2> QED
    BY <2>1, <2>2, <2>3
<1>2. ASSUME NEW k \in Session,
             \/ OpenDB(k) \/ (\E d \in Definition : CreateTable(k, d))
             \/ NewDataBlock(k) \/ FlushDataBlock(k) \/ LinkNewBlock(k)
      PROVE  result'[k] = "none"
  <2>1. result[k] # "none" => stmt[k] \in {"reload", "idle"}
    BY <1>0 DEF ToldOf
  <2> QED
    BY <1>0, <1>2, <2>1 DEF OpenDB, CreateTable, NewDataBlock, FlushDataBlock, LinkNewBlock, Visit,
                            HeaderInv, TypeOK
<1>3. ASSUME NEW k \in Session, FollowLink(k)
      PROVE  /\ result'[k] = result[k] /\ table'[k] = table[k]
             /\ stmt'[k] = stmt[k] /\ cache'[k] = cache[k]
  BY <1>3 DEF FollowLink
<1>4. ASSUME NEW k \in Session, InsertIntoLastBlock(k) \/ FillNewBlock(k)
      PROVE  \A j \in Session : ToldOf(j)'
  <2>1. \A j \in Session : j # k => ToldOf(j)'
    <3>1. PICK outcome \in {"success", "failure"} : ReLoadTables(k, outcome)
      BY <1>4 DEF InsertIntoLastBlock, FillNewBlock
    <3> QED
      BY <1>0, <3>1, ReLoads, ToldStays
  <2> QED
    BY <1>0, <1>4, <2>1, ToldReload
<1>5. ASSUME \/ \E k \in Session : ReleaseOther(k) \/ Meet(k) \/ ReadGarbage(k)
             \/ UNCHANGED vars
      PROVE  \A j \in Session : ToldOf(j)'
  <2>1. UNCHANGED <<result, table, stmt, cache>>
    BY <1>5 DEF ReleaseOther, Meet, ReadGarbage, vars
  <2> QED
    BY <1>0, <2>1, ToldStays
<1>6. ASSUME Crash PROVE \A j \in Session : ToldOf(j)'
  BY <1>0, <1>6, ToldStays DEF Crash
<1>7. \A j \in Session : ToldOf(j)'
  BY <1>0, <1>1, <1>2, <1>3, <1>4, <1>5, <1>6, ToldStays, ToldLoad DEF Next
<1> QED
  BY <1>0, <1>7 DEF ToldInv

LEMMA ToldCorrect == Spec => []ToldInv
<1>1. Init => ToldInv
  BY CacheInit DEF Init, ToldInv, ToldOf
<1>2. ToldInv /\ [Next]_vars => ToldInv'
  BY ToldNext
<1> QED
  BY <1>1, <1>2, PTL DEF Spec

(* A session that was told that its table is created finds a table of that *)
(* name in the list it has cached.                                         *)
THEOREM CreatedFound == Spec => []CreatedIsFound
<1>1. ToldInv => CreatedIsFound
  <2> SUFFICES ASSUME ToldInv, NEW k \in Session, stmt[k] = "idle", result[k] = "success"
               PROVE  table[k].def.name \in Names(cache[k])
    BY DEF CreatedIsFound
  <2>1. PICK i \in 1 .. Len(cache[k]) : cache[k][i] = table[k]
    BY DEF ToldInv, ToldOf
  <2>2. cache[k] \in Seq(Table)
    BY DEF ToldInv, CacheInv, HeaderInv, TypeOK
  <2>3. DOMAIN cache[k] = 1 .. Len(cache[k])
    BY <2>2, LenProperties
  <2> QED
    BY <2>1, <2>3 DEF Names
<1> QED
  BY <1>1, ToldCorrect, PTL

-----------------------------------------------------------------------------
(* Who owns the blocks of the data files.                                  *)
LEMMA TableFields ==
  ASSUME NEW t \in Table
  PROVE  /\ t.def \in Definition \cup {Default} /\ t.def.name \in Name
         /\ t.def.columns \in Nat \ {0}
         /\ t.first \in Seq(Nat) /\ Len(t.first) \in Nat /\ DOMAIN t.first = 1 .. Len(t.first)
         /\ \A c \in 1 .. Len(t.first) : t.first[c] \in Nat
<1>1. t.def \in Definition \cup {Default} /\ t.first \in Seq(Nat)
  BY DEF Table
<1>2. Len(t.first) \in Nat /\ DOMAIN t.first = 1 .. Len(t.first)
  BY <1>1, LenProperties
<1>3. \A c \in 1 .. Len(t.first) : t.first[c] \in Nat
  BY <1>1, ElementOfSeq
<1> QED
  BY <1>1, <1>2, <1>3, DefinitionAssumption DEF Name

LEMMA OwnsMore ==
  ASSUME HeaderInv, HeaderInv', \A n \in Name : files[n] <= files'[n], NEW t \in Table, Owns(t)
  PROVE  Owns(t)'
<1>1. files[t.def.name] \in Nat /\ files'[t.def.name] \in Nat
  BY TableFields DEF HeaderInv, TypeOK
<1> QED
  BY <1>1, TableFields DEF Owns

LEMMA ApartIsSymmetric ==
  ASSUME NEW t \in Table, NEW u \in Table
  PROVE  Apart(t, u) <=> Apart(u, t)
BY DEF Apart

LEMMA ListTyped ==
  ASSUME HeaderInv
  PROVE  /\ Len(Tables) \in Nat /\ DOMAIN Tables = 1 .. Len(Tables)
         /\ \A i \in 1 .. Len(Tables) : Tables[i] \in Table
         /\ \A k \in Session : table[k] \in Table
<1>1. Tables \in Seq(Table)
  BY TablesType
<1>2. Len(Tables) \in Nat /\ DOMAIN Tables = 1 .. Len(Tables)
  BY <1>1, LenProperties
<1> QED
  BY <1>1, <1>2, ElementOfSeq DEF HeaderInv, TypeOK

(* No table or file changes, and no session claims more.                   *)
LEMMA OwnersSame ==
  ASSUME HeaderInv, HeaderInv', OwnerInv, Tables' = Tables, UNCHANGED <<files, table>>,
         \A j \in Session : \/ stmt'[j] = stmt[j] /\ (stmt[j] = "column" => at'[j] = at[j])
                            \/ stmt'[j] \in {"off", "idle", "open", "reload"}
                            \/ stmt[j] = "chain" /\ stmt'[j] = "fill"
  PROVE  OwnerInv'
<1>1. AtEnd'
  BY DEF OwnerInv, AtEnd
<1>2. Progress'
  BY DEF OwnerInv, Progress, Complete
<1>3. \A j \in Session : Creating(j)' => Creating(j)
  BY DEF Creating
<1>4. Owners'
  BY <1>3 DEF OwnerInv, Owners, Owns, Apart, Complete
<1> QED
  BY <1>1, <1>2, <1>4 DEF OwnerInv

LEMMA OwnersInit == Init => OwnerInv
<1> SUFFICES ASSUME Init PROVE OwnerInv
  OBVIOUS
<1>0. HeaderInv /\ ReadSteps /\ Tables = Read(Len(header))
  BY HeaderInit, ReadsAll, TablesType
<1>1. DefaultTable \in Table
  BY DEF DefaultTable, Table
<1>2. header = <<[tables |-> <<DefaultTable>>, next |-> Null]>>
  <2>1. EmptyBlock \in HeaderBlock /\ EmptyBlock.next = Null
    BY <1>1, EmptyFields DEF EmptyBlock
  <2>2. [EmptyBlock EXCEPT !.tables = <<DefaultTable>>] = [tables |-> <<DefaultTable>>, next |-> Null]
    <3>1. <<DefaultTable>> \in Seq(Table) /\ Null \in Nat
      BY <1>1 DEF Null
    <3> QED
      BY <2>1, <3>1, BlockFields
  <2> QED
    BY <2>2 DEF Init
<1>3. Len(header) = 1 /\ header[1].tables = <<DefaultTable>>
  BY <1>2
<1>4. Tables = <<DefaultTable>>
  <2>1. Read(1) = Read(0) \o header[1].tables /\ Read(0) = <<>>
    <3>1. 0 \in 0 .. Len(header) - 1 /\ 0 + 1 = 1
      BY <1>3
    <3>2. Read(0 + 1) = Read(0) \o header[0 + 1].tables
      BY <1>0, <3>1 DEF ReadSteps
    <3> QED
      BY <1>0, <3>1, <3>2 DEF ReadSteps
  <2>2. <<>> \o <<DefaultTable>> = <<DefaultTable>>
    BY <1>1, ConcatEmptySeq
  <2> QED
    BY <1>0, <1>3, <2>1, <2>2
<1>5. Len(Tables) = 1 /\ Tables[1] = DefaultTable
  BY <1>4
<1>6. Owns(DefaultTable) /\ Complete(DefaultTable)
  <2>1. DefaultTable.first = <<0>> /\ DefaultTable.def = Default /\ Default.name \in Name
    BY DEF DefaultTable, Name
  <2>2. files[Default.name] = 1 /\ Default.columns = 1
    BY <2>1, DefinitionAssumption DEF Init
  <2> QED
    BY <2>1, <2>2 DEF Owns, Complete
<1>7. AtEnd /\ Progress /\ \A k \in Session : ~Creating(k)
  BY DEF Init, AtEnd, Progress, Creating
<1>8. Owners
  BY <1>5, <1>6, <1>7 DEF Owners
<1> QED
  BY <1>7, <1>8 DEF OwnerInv

LEMMA OwnersCreate ==
  ASSUME HeaderInv, HeaderInv', OwnerInv, Tables' = Tables,
         NEW k \in Session, NEW d \in Definition, CreateTable(k, d)
  PROVE  OwnerInv'
<1>1. /\ table'[k] = [def |-> d, first |-> <<>>] /\ stmt'[k] = "columns" /\ files' = files
      /\ \A j \in Session \ {k} : table'[j] = table[j] /\ stmt'[j] = stmt[j]
      /\ at' = at
  BY DEF CreateTable, HeaderInv, TypeOK
<1>2. table'[k].def = d /\ table'[k].first = <<>> /\ Len(table'[k].first) = 0
  BY <1>1
<1>3. AtEnd'
  BY <1>1 DEF OwnerInv, AtEnd
<1>4. Progress'
  <2>1. d.columns \in Nat \ {0}
    BY DefinitionAssumption
  <2> QED
    BY <1>1, <1>2, <2>1 DEF OwnerInv, Progress, Complete
<1>5. Owners'
  <2>1. \A i \in 1 .. Len(Tables) : Owns(Tables[i])' /\ Complete(Tables[i])'
    BY <1>1 DEF OwnerInv, Owners, Owns, Complete
  <2>2. \A i, j \in 1 .. Len(Tables) : i # j => Apart(Tables[i], Tables[j])'
    BY DEF OwnerInv, Owners, Apart
  <2>3. /\ Owns(table[k])'
        /\ \A i \in 1 .. Len(Tables) : Apart(table[k], Tables[i])'
        /\ \A j \in Session : Apart(table[k], table[j])' /\ Apart(table[j], table[k])'
    BY <1>2 DEF Owns, Apart
  <2>4. ASSUME NEW j \in Session, j # k, Creating(j)'
        PROVE  /\ Owns(table[j])'
               /\ \A i \in 1 .. Len(Tables) : Apart(table[j], Tables[i])'
               /\ \A l \in Session : l # j /\ l # k /\ Creating(l)' => Apart(table[j], table[l])'
    <3>1. /\ Creating(j) /\ table'[j] = table[j]
          /\ \A l \in Session : l # k /\ Creating(l)' => Creating(l) /\ table'[l] = table[l]
      BY <1>1, <2>4 DEF Creating
    <3>2. Owns(table[j])'
      BY <1>1, <3>1 DEF OwnerInv, Owners, Owns
    <3>3. \A i \in 1 .. Len(Tables) : Apart(table[j], Tables[i])'
      BY <3>1 DEF OwnerInv, Owners, Apart
    <3>4. \A l \in Session : l # j /\ l # k /\ Creating(l)' => Apart(table[j], table[l])'
      BY <3>1 DEF OwnerInv, Owners, Apart
    <3> QED
      BY <3>2, <3>3, <3>4
  <2> QED
    BY <2>1, <2>2, <2>3, <2>4 DEF Owners
<1> QED
  BY <1>3, <1>4, <1>5 DEF OwnerInv

LEMMA OwnersNewBlock ==
  ASSUME HeaderInv, HeaderInv', OwnerInv, Tables' = Tables,
         NEW k \in Session, NewDataBlock(k)
  PROVE  OwnerInv'
<1>1. /\ stmt[k] = "columns" /\ stmt'[k] = "column" /\ at'[k] = files[table[k].def.name]
      /\ \A j \in Session \ {k} : at'[j] = at[j] /\ stmt'[j] = stmt[j]
      /\ files' = files /\ table' = table
  BY DEF NewDataBlock, NewBlockAddress, HeaderInv, TypeOK
<1>2. AtEnd'
  BY <1>1 DEF OwnerInv, AtEnd
<1>3. Progress'
  BY <1>1 DEF OwnerInv, Progress, Complete
<1>4. \A j \in Session : Creating(j)' => Creating(j)
  BY <1>1 DEF Creating
<1>5. Owners'
  BY <1>1, <1>4 DEF OwnerInv, Owners, Owns, Apart, Complete
<1> QED
  BY <1>2, <1>3, <1>5 DEF OwnerInv

(* The block a session flushes is the next one of its file: nobody else    *)
(* has it, or else the two would collide.                                  *)
LEMMA OwnersFlush ==
  ASSUME HeaderInv, HeaderInv', OwnerInv, Tables' = Tables,
         NEW k \in Session, FlushDataBlock(k)
  PROVE  OwnerInv'
<1>1. PICK t, n, f : /\ t = table[k] /\ n = t.def.name /\ f = files[n]
  OBVIOUS
<1>2. t \in Table /\ n \in Name /\ f \in Nat /\ t.first \in Seq(Nat) /\ t.def.columns \in Nat
  BY <1>1, TableFields DEF HeaderInv, TypeOK
<1>3. stmt[k] = "column" /\ at[k] = f /\ Creating(k)
  BY <1>1 DEF FlushDataBlock, OwnerInv, AtEnd, Creating
<1>4. PICK u : u = [def |-> t.def, first |-> Append(t.first, f)]
  OBVIOUS
<1>5. /\ table' = [table EXCEPT ![k] = u] /\ u \in Table
      /\ files' = [files EXCEPT ![n] = f + 1]
      /\ \/ /\ stmt' = [stmt EXCEPT ![k] = "columns"] /\ at' = at
            /\ Len(u.first) < t.def.columns
         \/ /\ stmt' = [stmt EXCEPT ![k] = "chain"] /\ at' = [at EXCEPT ![k] = 0]
            /\ ~(Len(u.first) < t.def.columns)
  <2>1. /\ [def |-> table[k].def, first |-> Append(table[k].first, at[k])] = u
        /\ table[k].def = t.def /\ table[k].def.name = n
    BY <1>1, <1>3, <1>4
  <2>2. /\ table' = [table EXCEPT ![k] = u] /\ u \in Table
        /\ files' = [files EXCEPT ![n] = IF at[k] < @ THEN @ ELSE at[k] + 1]
        /\ \/ /\ stmt' = [stmt EXCEPT ![k] = "columns"] /\ at' = at
              /\ Len(u.first) < t.def.columns
           \/ /\ stmt' = [stmt EXCEPT ![k] = "chain"] /\ at' = [at EXCEPT ![k] = 0]
              /\ ~(Len(u.first) < t.def.columns)
    BY <2>1, Flushed, Zenon
  <2>3. (IF at[k] < files[n] THEN files[n] ELSE at[k] + 1) = f + 1
    BY <1>1, <1>2, <1>3
  <2> QED
    BY <2>2, <2>3, Zenon
<1>6. /\ u.def = t.def /\ Len(u.first) = Len(t.first) + 1 /\ Len(t.first) \in Nat
      /\ u.first[Len(u.first)] = f
      /\ \A c \in 1 .. Len(t.first) : u.first[c] = t.first[c] /\ t.first[c] \in Nat
  <2>1. u.def = t.def /\ u.first = Append(t.first, f)
    BY <1>4
  <2>2. Len(t.first) \in Nat /\ \A c \in 1 .. Len(t.first) : t.first[c] \in Nat
    BY <1>2, LenProperties, ElementOfSeq
  <2> QED
    BY <1>2, <2>1, <2>2, AppendProperties
<1>7. /\ table'[k] = u /\ \A j \in Session \ {k} : table'[j] = table[j] /\ stmt'[j] = stmt[j] /\ at'[j] = at[j]
      /\ \/ stmt'[k] = "columns" /\ Len(u.first) < t.def.columns
         \/ stmt'[k] = "chain" /\ ~(Len(u.first) < t.def.columns)
      /\ files'[n] = f + 1 /\ \A m \in Name \ {n} : files'[m] = files[m]
  <2>1. \A j \in Session \ {k} : stmt'[j] = stmt[j] /\ at'[j] = at[j]
    BY <1>5 DEF HeaderInv, TypeOK
  <2>2. \/ stmt'[k] = "columns" /\ Len(u.first) < t.def.columns
        \/ stmt'[k] = "chain" /\ ~(Len(u.first) < t.def.columns)
    BY <1>5 DEF HeaderInv, TypeOK
  <2>3. files'[n] = f + 1 /\ \A m \in Name \ {n} : files'[m] = files[m]
    BY <1>2, <1>5 DEF HeaderInv, TypeOK
  <2>4. table'[k] = u /\ \A j \in Session \ {k} : table'[j] = table[j]
    BY <1>5 DEF HeaderInv, TypeOK
  <2> QED
    BY <2>1, <2>2, <2>3, <2>4
<1>8. \A m \in Name : files[m] \in Nat /\ files[m] <= files'[m]
  <2>1. \A m \in Name : files[m] \in Nat
    BY DEF HeaderInv, TypeOK
  <2>2. files[n] <= files'[n]
    BY <1>1, <1>2, <1>7
  <2>3. \A m \in Name : m # n => files[m] <= files'[m]
    BY <1>7, <2>1
  <2> QED
    BY <2>1, <2>2, <2>3
<1>9. AtEnd'
  <2>1. ASSUME NEW j \in Session, stmt'[j] = "column"
        PROVE  at'[j] = files'[table'[j].def.name]
    <3>1. j # k /\ stmt[j] = "column" /\ at[j] = files[table[j].def.name]
      BY <1>7, <2>1 DEF OwnerInv, AtEnd
    <3>2. table[j].def.name # n
      BY <1>1, <1>3, <3>1 DEF FlushDataBlock, Collides
    <3>3. table[j].def.name \in Name
      BY TableFields DEF HeaderInv, TypeOK
    <3> QED
      BY <1>7, <3>1, <3>2, <3>3
  <2> QED
    BY <2>1 DEF AtEnd
<1>10. Progress'
  <2>1. Len(t.first) < t.def.columns
    BY <1>1, <1>3 DEF OwnerInv, Progress
  <2>2. \/ stmt'[k] = "columns" /\ Len(u.first) < u.def.columns
        \/ stmt'[k] = "chain" /\ Len(u.first) = u.def.columns
    BY <1>2, <1>6, <1>7, <2>1
  <2> QED
    BY <1>7, <2>2 DEF OwnerInv, Progress, Complete
<1>11. Owns(t) /\ \A v \in Table : Owns(v) => Owns(v)'
  BY <1>1, <1>3, <1>8, OwnsMore DEF OwnerInv, Owners
<1>12. Owns(u)'
  <2>1. \A c \in 1 .. Len(t.first) : t.first[c] < f
    BY <1>1, <1>11 DEF Owns
  <2>2. \A c \in 1 .. Len(u.first) : u.first[c] < f + 1
    <3>1. \A c \in 1 .. Len(u.first) : c = Len(u.first) \/ c \in 1 .. Len(t.first)
      BY <1>6
    <3>2. \A c \in 1 .. Len(t.first) : u.first[c] \in Nat /\ u.first[c] < f
      BY <1>6, <2>1, Zenon
    <3>3. \A v \in Nat : v < f => v < f + 1
      BY <1>2
    <3>4. f < f + 1
      BY <1>2
    <3> QED
      BY <1>6, <3>1, <3>2, <3>3, <3>4, Zenon
  <2>3. \A c, d \in 1 .. Len(u.first) : u.first[c] = u.first[d] => c = d
    <3>1. \A c, d \in 1 .. Len(t.first) : t.first[c] = t.first[d] => c = d
      BY <1>11 DEF Owns
    <3>2. \A c \in 1 .. Len(u.first) : c = Len(u.first) \/ c \in 1 .. Len(t.first)
      BY <1>6
    <3>3. \A c \in 1 .. Len(t.first) : u.first[c] # f
      BY <1>2, <1>6, <2>1
    <3> QED
      BY <1>6, <3>1, <3>2, <3>3
  <2>4. files'[u.def.name] = f + 1
    BY <1>1, <1>6, <1>7
  <2> QED
    BY <2>2, <2>3, <2>4 DEF Owns
<1>13. ASSUME NEW v \in Table, Owns(v), Apart(t, v) PROVE Apart(u, v) /\ Apart(v, u)
  <2>1. SUFFICES ASSUME u.def.name = v.def.name, NEW c \in 1 .. Len(u.first), NEW d \in 1 .. Len(v.first)
                 PROVE  u.first[c] # v.first[d]
    BY DEF Apart
  <2>2. v.first[d] \in Nat /\ v.first[d] < f
    BY <1>1, <1>6, <1>13, <2>1, TableFields DEF Owns
  <2>3. CASE c \in 1 .. Len(t.first)
    BY <1>6, <1>13, <2>1, <2>3 DEF Apart
  <2>4. CASE c \notin 1 .. Len(t.first)
    <3>1. u.first[c] = f
      BY <1>6, <2>4
    <3> QED
      BY <1>2, <2>2, <3>1
  <2> QED
    BY <2>3, <2>4
<1>14. Owners'
  <2>1. \A i \in 1 .. Len(Tables) : Tables[i] \in Table /\ Owns(Tables[i]) /\ Complete(Tables[i]) /\ Apart(t, Tables[i])
    BY <1>1, <1>3, ListTyped DEF OwnerInv, Owners
  <2>2. \A j \in Session : j # k /\ Creating(j)' =>
          /\ Creating(j) /\ table[j] \in Table /\ Owns(table[j]) /\ Apart(t, table[j]) /\ table'[j] = table[j]
          /\ \A i \in 1 .. Len(Tables) : Apart(table[j], Tables[i])
          /\ \A l \in Session : l # j /\ Creating(l) => Apart(table[j], table[l])
    BY <1>1, <1>3, <1>7, ListTyped DEF OwnerInv, Owners, Creating
  <2>3. \A i, j \in 1 .. Len(Tables) : i # j => Apart(Tables[i], Tables[j])
    BY DEF OwnerInv, Owners
  <2>4. PICK ts : ts = Tables /\ ts = Tables'
    OBVIOUS
  <2>5. \A i \in 1 .. Len(ts) : Owns(ts[i])' /\ Complete(ts[i]) /\ Apart(u, ts[i])
    BY <1>11, <1>13, <2>1, <2>4
  <2>6. ASSUME NEW j \in Session, j # k, Creating(j)'
        PROVE  /\ Apart(u, table[j]) /\ Apart(table[j], u)
               /\ \A v : v = table[j] => Owns(v)'
               /\ \A i \in 1 .. Len(ts) : Apart(table[j], ts[i])
               /\ \A l \in Session : l # j /\ l # k /\ Creating(l)' => Apart(table[j], table[l])
    BY <1>11, <1>13, <2>2, <2>4, <2>6
  <2>7. \A i \in 1 .. Len(Tables') : Owns(Tables[i])' /\ Complete(Tables[i])'
    BY <2>4, <2>5 DEF Owns, Complete
  <2>8. \A i, j \in 1 .. Len(Tables') : i # j => Apart(Tables[i], Tables[j])'
    BY <2>3, <2>4 DEF Apart
  <2>9. ASSUME NEW j \in Session, Creating(j)'
        PROVE  Owns(table[j])' /\ \A i \in 1 .. Len(Tables') : Apart(table[j], Tables[i])'
    <3>1. PICK v : v = table'[j]
      OBVIOUS
    <3>2. Owns(v)' /\ \A i \in 1 .. Len(ts) : Apart(v, ts[i])
      BY <1>7, <1>12, <2>2, <2>5, <2>6, <2>9, <3>1
    <3> QED
      BY <2>4, <3>1, <3>2 DEF Owns, Apart
  <2>10. ASSUME NEW j \in Session, NEW l \in Session, l # j, Creating(j)', Creating(l)'
         PROVE  Apart(table[j], table[l])'
    <3>1. Apart(table'[j], table'[l])
      BY <1>7, <2>2, <2>6, <2>10
    <3> QED
      BY <3>1 DEF Apart
  <2> QED
    BY <2>7, <2>8, <2>9, <2>10 DEF Owners
<1> QED
  BY <1>9, <1>10, <1>14 DEF OwnerInv

(* The table a session enters in the list was complete, and its own.       *)
LEMMA OwnersInsert ==
  ASSUME HeaderInv, HeaderInv', OwnerInv, NEW k \in Session, stmt[k] \in {"chain", "fill"},
         Tables' = Append(Tables, table[k]), ReLoadTables(k, "success")
  PROVE  OwnerInv'
<1>1. /\ stmt'[k] = "reload" /\ files' = files /\ table' = table
      /\ \A j \in Session \ {k} : stmt'[j] = stmt[j] /\ at'[j] = at[j]
  BY ReLoads
<1>2. AtEnd' /\ Progress'
  BY <1>1 DEF OwnerInv, AtEnd, Progress, Complete
<1>3. PICK ts, n, t, us : ts = Tables /\ n = Len(Tables) /\ t = table[k] /\ us = Tables'
  OBVIOUS
<1>4. /\ n \in Nat /\ Len(us) = n + 1 /\ us[n + 1] = t
      /\ \A i \in 1 .. n : us[i] = ts[i] /\ ts[i] \in Table
  BY <1>3, TablesType, LenProperties, ElementOfSeq, AppendProperties DEF HeaderInv, TypeOK
<1>5. Creating(k) /\ Complete(t) /\ Owns(t) /\ t \in Table
  BY <1>3 DEF OwnerInv, Progress, Owners, Creating, HeaderInv, TypeOK
<1>6. \A i \in 1 .. n : Apart(t, ts[i]) /\ Apart(ts[i], t) /\ Owns(ts[i]) /\ Complete(ts[i])
  BY <1>3, <1>4, <1>5, ApartIsSymmetric DEF OwnerInv, Owners
<1>7. \A i, j \in 1 .. n : i # j => Apart(ts[i], ts[j])
  BY <1>3 DEF OwnerInv, Owners
<1>8. \A i \in 1 .. n + 1 : i = n + 1 \/ i \in 1 .. n
  BY <1>4
<1>9. \A i \in 1 .. n + 1 : Owns(us[i]) /\ Complete(us[i])
  BY <1>4, <1>5, <1>6, <1>8
<1>10. \A i, j \in 1 .. n + 1 : i # j => Apart(us[i], us[j])
  BY <1>4, <1>6, <1>7, <1>8
<1>11. ASSUME NEW j \in Session, Creating(j)'
       PROVE  /\ Owns(table[j])
              /\ \A i \in 1 .. n + 1 : Apart(table[j], us[i])
              /\ \A l \in Session : l # j /\ Creating(l)' => Apart(table[j], table[l])
  <2>1. j # k /\ Creating(j) /\ \A l \in Session : Creating(l)' => Creating(l)
    BY <1>1, <1>11 DEF Creating
  <2>2. /\ Owns(table[j]) /\ \A i \in 1 .. n : Apart(table[j], ts[i])
        /\ \A l \in Session : l # j /\ Creating(l) => Apart(table[j], table[l])
    BY <1>3, <2>1 DEF OwnerInv, Owners
  <2>3. Apart(table[j], t)
    BY <1>3, <1>5, <2>1, <2>2
  <2> QED
    BY <1>4, <1>8, <2>1, <2>2, <2>3
<1>12. Owners'
  <2>0. Tables' = us /\ 1 .. Len(Tables') = 1 .. n + 1
    BY <1>3, <1>4
  <2>1. \A i \in 1 .. Len(Tables') : Owns(Tables[i])' /\ Complete(Tables[i])'
    <3>1. TAKE i \in 1 .. Len(Tables')
    <3>2. Tables'[i] = us[i] /\ Owns(us[i]) /\ Complete(us[i])
      BY <1>9, <2>0, <3>1
    <3>3. Complete(Tables[i])'
      BY <3>2 DEF Complete
    <3>4. Owns(Tables[i])'
      BY <1>1, <3>2 DEF Owns
    <3> QED
      BY <3>3, <3>4
  <2>2. \A i, j \in 1 .. Len(Tables') : i # j => Apart(Tables[i], Tables[j])'
    <3>1. TAKE i, j \in 1 .. Len(Tables')
    <3>2. i # j => Apart(us[i], us[j])
      BY <1>10, <2>0, <3>1
    <3>3. Tables'[i] = us[i] /\ Tables'[j] = us[j]
      BY <2>0
    <3> QED
      BY <3>2, <3>3 DEF Apart
  <2>3. ASSUME NEW j \in Session, Creating(j)'
        PROVE  /\ Owns(table[j])'
               /\ \A i \in 1 .. Len(Tables') : Apart(table[j], Tables[i])'
               /\ \A l \in Session : l # j /\ Creating(l)' => Apart(table[j], table[l])'
    <3>1. Owns(table[j])'
      BY <1>1, <1>11, <2>3 DEF Owns
    <3>2. \A i \in 1 .. Len(Tables') : Apart(table[j], Tables[i])'
      BY <1>1, <1>3, <1>4, <1>11, <2>3 DEF Apart
    <3>3. \A l \in Session : l # j /\ Creating(l)' => Apart(table[j], table[l])'
      BY <1>1, <1>11, <2>3 DEF Apart
    <3> QED
      BY <3>1, <3>2, <3>3
  <2> QED
    BY <2>1, <2>2, <2>3 DEF Owners
<1> QED
  BY <1>2, <1>12 DEF OwnerInv

LEMMA OwnersNext ==
  ASSUME HeaderInv, OwnerInv, [Next]_vars
  PROVE  OwnerInv'
<1>0. HeaderInv'
  BY HeaderNext
<1>1. ASSUME header' = header PROVE Tables' = Tables
  BY <1>0, <1>1, ReadElse
<1>2. ASSUME NEW k \in Session, OpenDB(k) \/ LoadTables(k) PROVE OwnerInv'
  <2>1. \A j \in Session : \/ stmt'[j] = stmt[j] /\ (stmt[j] = "column" => at'[j] = at[j])
                           \/ stmt'[j] \in {"off", "idle", "open", "reload"}
    BY <1>2 DEF OpenDB, LoadTables, Visit, HeaderInv, TypeOK
  <2>2. UNCHANGED <<header, files, table>>
    BY <1>2 DEF OpenDB, LoadTables
  <2> QED
    BY <1>0, <1>1, <2>1, <2>2, OwnersSame
<1>3. ASSUME NEW k \in Session,
             (\E d \in Definition : CreateTable(k, d)) \/ NewDataBlock(k) \/ FlushDataBlock(k)
      PROVE  OwnerInv'
  <2>1. header' = header
    BY <1>3 DEF CreateTable, NewDataBlock, FlushDataBlock
  <2> QED
    BY <1>0, <1>1, <1>3, <2>1, OwnersCreate, OwnersNewBlock, OwnersFlush
<1>4. ASSUME NEW k \in Session, FollowLink(k) PROVE OwnerInv'
  <2>1. \A j \in Session : stmt'[j] = stmt[j] /\ (stmt[j] = "column" => at'[j] = at[j])
    BY <1>4 DEF FollowLink, Visit, HeaderInv, TypeOK
  <2>2. UNCHANGED <<header, files, table>>
    BY <1>4 DEF FollowLink
  <2> QED
    BY <1>0, <1>1, <2>1, <2>2, OwnersSame
<1>5. ASSUME NEW k \in Session, LinkNewBlock(k) PROVE OwnerInv'
  <2>1. \A j \in Session : \/ stmt'[j] = stmt[j] /\ (stmt[j] = "column" => at'[j] = at[j])
                           \/ stmt[j] = "chain" /\ stmt'[j] = "fill"
    BY <1>5 DEF LinkNewBlock, Visit, HeaderInv, TypeOK
  <2>2. UNCHANGED <<files, table>>
    BY <1>5 DEF LinkNewBlock
  <2> QED
    BY <1>0, <1>5, <2>1, <2>2, ReadLink, OwnersSame
<1>6. ASSUME NEW k \in Session, InsertIntoLastBlock(k) PROVE OwnerInv'
  BY <1>0, <1>6, ReadInsert, OwnersInsert DEF InsertIntoLastBlock, Visit
<1>7. ASSUME NEW k \in Session, FillNewBlock(k) PROVE OwnerInv'
  <2>1. stmt[k] = "fill"
    BY <1>7 DEF FillNewBlock
  <2>2. CASE Tables' = Append(Tables, table[k]) /\ ReLoadTables(k, "success")
    BY <1>0, <2>1, <2>2, OwnersInsert
  <2>3. CASE Tables' = Tables /\ ReLoadTables(k, "failure")
    BY <1>0, <2>3, ReLoads, OwnersSame
  <2> QED
    BY <1>0, <1>7, <2>2, <2>3, ReadFill
<1>8. ASSUME \/ \E k \in Session : ReleaseOther(k) \/ Meet(k) \/ ReadGarbage(k)
             \/ UNCHANGED vars
      PROVE  OwnerInv'
  <2>1. UNCHANGED <<header, files, table, stmt, at>>
    BY <1>8 DEF ReleaseOther, Meet, ReadGarbage, vars
  <2> QED
    BY <1>0, <1>1, <2>1, OwnersSame
<1>9. ASSUME Crash PROVE OwnerInv'
  BY <1>0, <1>1, <1>9, OwnersSame DEF Crash
<1> QED
  BY <1>2, <1>3, <1>4, <1>5, <1>6, <1>7, <1>8, <1>9 DEF Next

LEMMA OwnersCorrect == Spec => []OwnerInv
<1>1. HeaderInv /\ OwnerInv /\ [Next]_vars => OwnerInv'
  BY OwnersNext
<1> QED
  BY OwnersInit, HeaderCorrect, <1>1, PTL DEF Spec

(* A table that can be found has a first block for each of its columns in  *)
(* its data file, and no other table, of that name or not, and no other    *)
(* column has that block.                                                  *)
THEOREM ColumnsCorrect == Spec => []ColumnsOwnBlocks
<1>1. HeaderInv /\ OwnerInv => ColumnsOwnBlocks
  <2> SUFFICES ASSUME HeaderInv, OwnerInv, NEW i \in DOMAIN Tables, NEW j \in DOMAIN Tables
               PROVE  LET t == Tables[i]
                          u == Tables[j]
                      IN  /\ Len(t.first) = t.def.columns
                          /\ \A c \in DOMAIN t.first : t.first[c] < files[t.def.name]
                          /\ \A c \in DOMAIN t.first, d \in DOMAIN u.first :
                               t.def.name = u.def.name /\ t.first[c] = u.first[d] => i = j /\ c = d
    BY DEF ColumnsOwnBlocks
  <2>1. PICK t, u : t = Tables[i] /\ u = Tables[j]
    OBVIOUS
  <2>2. i \in 1 .. Len(Tables) /\ j \in 1 .. Len(Tables) /\ t \in Table /\ u \in Table
    BY <2>1, ListTyped
  <2>3. DOMAIN t.first = 1 .. Len(t.first) /\ DOMAIN u.first = 1 .. Len(u.first)
    BY <2>2, TableFields
  <2>4. Owns(t) /\ Complete(t) /\ (i # j => Apart(t, u))
    BY <2>1, <2>2 DEF OwnerInv, Owners
  <2>5. \A c \in 1 .. Len(t.first), d \in 1 .. Len(u.first) :
          t.def.name = u.def.name /\ t.first[c] = u.first[d] => i = j /\ c = d
    BY <2>1, <2>4 DEF Owns, Apart
  <2> QED
    BY <2>1, <2>3, <2>4, <2>5 DEF Owns, Complete
<1> QED
  BY <1>1, HeaderCorrect, OwnersCorrect, PTL

-----------------------------------------------------------------------------
(* The database is a Directory: what a name means is what is found first.  *)
LEMMA FirstFound ==
  ASSUME NEW ts \in Seq(Table), NEW n \in Names(ts)
  PROVE  \E i \in 1 .. Len(ts) : /\ ts[i].def.name = n /\ Resolve(ts, n) = ts[i].def
                                 /\ \A j \in 1 .. Len(ts) : ts[j].def.name = n => i <= j
<1> DEFINE S == {i \in DOMAIN ts : ts[i].def.name = n}
<1>1. DOMAIN ts = 1 .. Len(ts) /\ Len(ts) \in Nat
  BY LenProperties
<1>2. S # {} /\ S \in SUBSET Nat
  BY <1>1 DEF Names
<1>3. \E i \in S : \A j \in S : i <= j
  BY <1>2, NatLeast
<1>4. PICK i : i = Min(S)
  OBVIOUS
<1>5. i \in S /\ \A j \in S : i <= j
  BY <1>3, <1>4, Zenon DEF Min
<1>6. Resolve(ts, n) = ts[i].def
  BY <1>4, Zenon DEF Resolve
<1> QED
  BY <1>1, <1>5, <1>6

LEMMA FoundFirst ==
  ASSUME NEW ts \in Seq(Table), NEW i \in 1 .. Len(ts),
         \A j \in 1 .. Len(ts) : ts[j].def.name = ts[i].def.name => i <= j
  PROVE  ts[i].def.name \in Names(ts) /\ Resolve(ts, ts[i].def.name) = ts[i].def
<1>1. DOMAIN ts = 1 .. Len(ts) /\ Len(ts) \in Nat
  BY LenProperties
<1>2. ts[i].def.name \in Names(ts)
  BY <1>1 DEF Names
<1>3. PICK m \in 1 .. Len(ts) : /\ ts[m].def.name = ts[i].def.name
                                /\ Resolve(ts, ts[i].def.name) = ts[m].def
                                /\ \A j \in 1 .. Len(ts) : ts[j].def.name = ts[i].def.name => m <= j
  BY <1>2, FirstFound
<1>4. m = i
  BY <1>1, <1>3
<1> QED
  BY <1>2, <1>3, <1>4

LEMMA NamesAre ==
  ASSUME NEW ts \in Seq(Table)
  PROVE  /\ \A n : n \in Names(ts) <=> \E i \in 1 .. Len(ts) : ts[i].def.name = n
         /\ \A e \in Meanings(ts) : e.name \in Names(ts)
<1>1. DOMAIN ts = 1 .. Len(ts)
  BY LenProperties
<1>2. \A n : n \in Names(ts) <=> \E i \in 1 .. Len(ts) : ts[i].def.name = n
  BY <1>1 DEF Names
<1>3. \A n \in Names(ts) : Resolve(ts, n).name = n
  BY FirstFound
<1> QED
  BY <1>2, <1>3 DEF Meanings

LEMMA MeaningsAppend ==
  ASSUME NEW ts \in Seq(Table), NEW t \in Table
  PROVE  Meanings(Append(ts, t)) =
           IF t.def.name \in Names(ts) THEN Meanings(ts) ELSE Meanings(ts) \cup {t.def}
<1>1. PICK us, m : us = Append(ts, t) /\ m = Len(ts)
  OBVIOUS
<1>2. /\ m \in Nat /\ us \in Seq(Table) /\ Len(us) = m + 1 /\ us[m + 1] = t
      /\ \A i \in 1 .. m : us[i] = ts[i] /\ i \in 1 .. m + 1
  BY <1>1, LenProperties, AppendProperties
<1>3. \A i \in 1 .. m + 1 : i \in 1 .. m \/ i = m + 1
  BY <1>2
<1>4. \A n : n \in Names(us) <=> n \in Names(ts) \/ n = t.def.name
  <2>1. \A n : n \in Names(us) <=> \E i \in 1 .. m + 1 : us[i].def.name = n
    BY <1>2, NamesAre
  <2>2. \A n : n \in Names(ts) <=> \E i \in 1 .. m : ts[i].def.name = n
    BY <1>1, NamesAre
  <2>3. m + 1 \in 1 .. m + 1
    BY <1>2
  <2> QED
    BY <1>2, <1>3, <2>1, <2>2, <2>3
<1>5. \A n \in Names(ts) : Resolve(us, n) = Resolve(ts, n)
  <2>1. SUFFICES ASSUME NEW n \in Names(ts) PROVE Resolve(us, n) = Resolve(ts, n)
    OBVIOUS
  <2>2. PICK i \in 1 .. m : /\ ts[i].def.name = n /\ Resolve(ts, n) = ts[i].def
                            /\ \A j \in 1 .. m : ts[j].def.name = n => i <= j
    BY <1>1, FirstFound
  <2>3. us[i].def.name = n /\ us[i].def = ts[i].def /\ i \in 1 .. Len(us)
    BY <1>2, <2>2
  <2>4. \A j \in 1 .. Len(us) : us[j].def.name = us[i].def.name => i <= j
    <3>1. i <= m + 1
      BY <1>2
    <3> QED
      BY <1>2, <1>3, <2>2, <2>3, <3>1
  <2>5. Resolve(us, us[i].def.name) = us[i].def
    BY <1>2, <2>3, <2>4, FoundFirst
  <2> QED
    BY <2>2, <2>3, <2>5
<1>6. ASSUME t.def.name \notin Names(ts) PROVE Resolve(us, t.def.name) = t.def
  <2>1. \A j \in 1 .. m : ts[j].def.name # t.def.name
    BY <1>1, <1>6, NamesAre
  <2>2. m + 1 \in 1 .. Len(us) /\ \A j \in 1 .. Len(us) : us[j].def.name = us[m + 1].def.name => m + 1 <= j
    BY <1>2, <1>3, <2>1
  <2> QED
    BY <1>2, <2>2, FoundFirst
<1>7. Meanings(us) = {Resolve(us, n) : n \in Names(us)} /\ Meanings(ts) = {Resolve(ts, n) : n \in Names(ts)}
  BY DEF Meanings
<1>8. CASE t.def.name \in Names(ts)
  <2>1. Names(us) = Names(ts)
    BY <1>4, <1>8
  <2> QED
    BY <1>1, <1>5, <1>7, <1>8, <2>1
<1>9. CASE t.def.name \notin Names(ts)
  <2>1. Names(us) = Names(ts) \cup {t.def.name}
    BY <1>4
  <2> QED
    BY <1>1, <1>5, <1>6, <1>7, <1>9, <2>1
<1> QED
  BY <1>8, <1>9

(* What a session that is at rest can use.                                 *)
KnownTo(k) == IF stmt[k] = "idle" THEN Meanings(cache[k]) ELSE {}

(* The default table is the first one of the list, for good.               *)
FirstIsDefault == 1 \in 1 .. Len(Tables) /\ Tables[1] = DefaultTable

LEMMA KnownNext ==
  ASSUME NEW k \in Session
  PROVE  KnownTo(k)' = IF stmt'[k] = "idle" THEN Meanings(cache'[k]) ELSE {}
BY DEF KnownTo, Meanings, Names, Resolve, Min

LEMMA TablesNext == Meanings(Tables)' = Meanings(Tables')
BY DEF Meanings, Names, Resolve, Min

LEMMA StartsAsDirectory == Init => FirstIsDefault /\ Abstract!Init
<1> SUFFICES ASSUME Init PROVE FirstIsDefault /\ Abstract!Init
  OBVIOUS
<1>1. DefaultTable \in Table /\ DefaultTable.def = Default
  BY DEF DefaultTable, Table
<1>2. HeaderInv /\ Len(header) = 1 /\ header[1].tables = <<DefaultTable>>
  <2>1. EmptyBlock \in HeaderBlock /\ EmptyBlock.next = Null
    BY <1>1, EmptyFields DEF EmptyBlock
  <2>2. <<DefaultTable>> \in Seq(Table) /\ Null \in Nat
    BY <1>1 DEF Null
  <2>3. [EmptyBlock EXCEPT !.tables = <<DefaultTable>>] = [tables |-> <<DefaultTable>>, next |-> Null]
    BY <2>1, <2>2, BlockFields
  <2>4. header = <<[tables |-> <<DefaultTable>>, next |-> Null]>>
    BY <2>3 DEF Init
  <2> QED
    BY <2>4, HeaderInit
<1>3. Tables = <<>> \o <<DefaultTable>>
  <2>1. ReadSteps /\ Tables = Read(Len(header))
    BY <1>2, ReadsAll, TablesType
  <2>2. 0 \in 0 .. Len(header) - 1 /\ 0 + 1 = 1
    BY <1>2
  <2>3. Read(0 + 1) = Read(0) \o header[0 + 1].tables
    BY <2>1, <2>2 DEF ReadSteps
  <2> QED
    BY <1>2, <2>1, <2>2, <2>3 DEF ReadSteps
<1>4. Tables = Append(<<>>, DefaultTable)
  <2>1. <<>> \in Seq(Table)
    BY EmptySeq
  <2> QED
    BY <1>1, <1>3, <2>1, AppendIsConcat
<1>5. Len(Tables) = 1 /\ Tables[1] = DefaultTable
  BY <1>4
<1>6. Names(<<>>) = {} /\ Meanings(<<>>) = {}
  BY DEF Names, Meanings
<1>7. Meanings(Tables) = {Default}
  BY <1>1, <1>4, <1>6, MeaningsAppend, EmptySeq
<1>8. \A k \in Session : stmt[k] = "off"
  BY DEF Init
<1> QED
  BY <1>5, <1>7, <1>8 DEF FirstIsDefault, Abstract!Init

LEMMA FirstStays ==
  ASSUME HeaderInv, FirstIsDefault, [Next]_vars
  PROVE  FirstIsDefault'
<1>1. HeaderInv'
  BY HeaderNext
<1>2. 1 \in 1 .. Len(Tables') /\ Tables'[1] = Tables[1]
  BY <1>1, ListKeeps DEF FirstIsDefault
<1> QED
  BY <1>2 DEF FirstIsDefault

(* A table appended to the list is a new name, or is not found.            *)
LEMMA CreatesOrNot ==
  ASSUME HeaderInv, HeaderInv', FirstIsDefault, [Next]_vars
  PROVE  \/ Meanings(Tables') = Meanings(Tables)
         \/ \E d \in Definition : /\ \A e \in Meanings(Tables) : e.name # d.name
                                  /\ Meanings(Tables') = Meanings(Tables) \cup {d}
<1>1. Tables' = Tables \/ \E k \in Session : Tables' = Append(Tables, table[k])
  BY ListGrows
<1>2. ASSUME NEW k \in Session, Tables' = Append(Tables, table[k])
      PROVE  \/ Meanings(Tables') = Meanings(Tables)
             \/ \E d \in Definition : /\ \A e \in Meanings(Tables) : e.name # d.name
                                      /\ Meanings(Tables') = Meanings(Tables) \cup {d}
  <2>1. PICK t, ts : t = table[k] /\ ts = Tables
    OBVIOUS
  <2>2. t \in Table /\ ts \in Seq(Table) /\ t.def \in Definition \cup {Default}
    BY <2>1, TablesType, TableFields DEF HeaderInv, TypeOK
  <2>3. Default.name \in Names(ts)
    <3>1. ts[1].def.name = Default.name /\ 1 \in 1 .. Len(ts)
      BY <2>1 DEF FirstIsDefault, DefaultTable
    <3> QED
      BY <2>2, <3>1, NamesAre
  <2>4. CASE t.def.name \in Names(ts)
    BY <1>2, <2>1, <2>2, <2>4, MeaningsAppend
  <2>5. CASE t.def.name \notin Names(ts)
    <3>1. t.def \in Definition
      BY <2>2, <2>3, <2>5
    <3>2. \A e \in Meanings(ts) : e.name # t.def.name
      BY <2>2, <2>5, NamesAre
    <3>3. Meanings(Append(ts, t)) = Meanings(ts) \cup {t.def}
      BY <2>2, <2>5, MeaningsAppend
    <3> QED
      BY <1>2, <2>1, <3>1, <3>2, <3>3
  <2> QED
    BY <2>4, <2>5
<1> QED
  BY <1>1, <1>2

LEMMA StaysDirectory ==
  ASSUME CacheInv, FirstIsDefault, [Next]_vars
  PROVE  [Abstract!Next]_(Abstract!vars)
<1>0. HeaderInv /\ HeaderInv'
  BY HeaderNext DEF CacheInv
<1> DEFINE known == [k \in Session |-> KnownTo(k)]
<1>1. /\ known = [k \in Session |-> IF stmt[k] = "idle" THEN Meanings(cache[k]) ELSE {}]
      /\ known' = [k \in Session |-> IF stmt'[k] = "idle" THEN Meanings(cache'[k]) ELSE {}]
  BY KnownNext DEF KnownTo
<1>2. ASSUME header' = header PROVE Meanings(Tables)' = Meanings(Tables)
  BY <1>0, <1>2, ReadElse, TablesNext
<1>3. ASSUME NEW k \in Session, LoadTables(k), stmt'[k] = "idle"
      PROVE  Abstract!Learn(k)
  <2>1. cache'[k] = Tables /\ Meanings(Tables)' = Meanings(Tables)
    BY <1>2, <1>3, LoadedAll DEF LoadTables
  <2>2. \A j \in Session \ {k} : stmt'[j] = stmt[j] /\ cache'[j] = cache[j]
    BY <1>0, <1>3 DEF LoadTables, HeaderInv, TypeOK
  <2>3. known' = [known EXCEPT ![k] = Meanings(Tables)]
    <3>1. known' = [j \in Session |-> IF j = k THEN Meanings(Tables) ELSE known[j]]
      BY <1>1, <1>3, <2>1, <2>2
    <3>2. known = [j \in Session |-> known[j]]
      OBVIOUS
    <3> HIDE DEF known
    <3> QED
      BY <3>1, <3>2
  <2> QED
    BY <1>1, <2>1, <2>3 DEF Abstract!Learn
<1>4. ASSUME NEW k \in Session, NEW d \in Definition, CreateTable(k, d)
      PROVE  Abstract!Forget({k})
  <2>1. /\ stmt'[k] = "columns" /\ cache' = cache
        /\ \A j \in Session \ {k} : stmt'[j] = stmt[j]
    BY <1>0, <1>4 DEF CreateTable, HeaderInv, TypeOK
  <2>2. known' = [j \in Session |-> IF j \in {k} THEN {} ELSE known[j]]
    BY <1>1, <2>1
  <2> QED
    BY <1>1, <1>2, <1>4, <2>2 DEF Abstract!Forget, CreateTable
<1>5. ASSUME Crash PROVE Abstract!Forget(Session)
  <2>1. known' = [j \in Session |-> IF j \in Session THEN {} ELSE known[j]]
    BY <1>1, <1>5 DEF Crash
  <2> QED
    BY <1>1, <1>2, <1>5, <2>1 DEF Abstract!Forget, Crash
<1>6. ASSUME \A j \in Session : /\ stmt'[j] = "idle" <=> stmt[j] = "idle"
                                /\ stmt[j] = "idle" => cache'[j] = cache[j]
      PROVE  Abstract!Create \/ UNCHANGED Abstract!vars
  <2>1. known' = known
    BY <1>1, <1>6
  <2> QED
    BY <1>0, <1>1, <2>1, CreatesOrNot, TablesNext DEF Abstract!Create, Abstract!vars
<1>7. ASSUME \/ \E k \in Session : \/ OpenDB(k) \/ (LoadTables(k) /\ stmt'[k] # "idle")
                                  \/ NewDataBlock(k) \/ FlushDataBlock(k) \/ ReleaseOther(k)
                                  \/ FollowLink(k) \/ LinkNewBlock(k) \/ Meet(k) \/ ReadGarbage(k)
                                  \/ InsertIntoLastBlock(k) \/ FillNewBlock(k)
             \/ UNCHANGED vars
      PROVE  \A j \in Session : /\ stmt'[j] = "idle" <=> stmt[j] = "idle"
                                /\ stmt[j] = "idle" => cache'[j] = cache[j]
  <2>1. ASSUME NEW k \in Session, NEW j \in Session, OpenDB(k) \/ (LoadTables(k) /\ stmt'[k] # "idle")
        PROVE  (stmt'[j] = "idle" <=> stmt[j] = "idle") /\ (stmt[j] = "idle" => cache'[j] = cache[j])
    BY <1>0, <2>1 DEF OpenDB, LoadTables, Visit, HeaderInv, TypeOK
  <2>2. ASSUME NEW k \in Session, NEW j \in Session, NewDataBlock(k) \/ FlushDataBlock(k)
        PROVE  (stmt'[j] = "idle" <=> stmt[j] = "idle") /\ (stmt[j] = "idle" => cache'[j] = cache[j])
    BY <1>0, <2>2 DEF NewDataBlock, FlushDataBlock, HeaderInv, TypeOK
  <2>3. ASSUME NEW k \in Session, NEW j \in Session, FollowLink(k) \/ LinkNewBlock(k)
        PROVE  (stmt'[j] = "idle" <=> stmt[j] = "idle") /\ (stmt[j] = "idle" => cache'[j] = cache[j])
    BY <1>0, <2>3 DEF FollowLink, LinkNewBlock, Visit, HeaderInv, TypeOK
  <2>4. ASSUME NEW k \in Session, NEW j \in Session, InsertIntoLastBlock(k) \/ FillNewBlock(k)
        PROVE  (stmt'[j] = "idle" <=> stmt[j] = "idle") /\ (stmt[j] = "idle" => cache'[j] = cache[j])
    <3>1. \E outcome \in {"success", "failure"} : ReLoadTables(k, outcome)
      BY <2>4 DEF InsertIntoLastBlock, FillNewBlock
    <3>2. stmt[k] \in {"chain", "fill"}
      BY <2>4 DEF InsertIntoLastBlock, FillNewBlock, Visit
    <3> QED
      BY <1>0, <3>1, <3>2, ReLoads
  <2>5. ASSUME \/ \E k \in Session : ReleaseOther(k) \/ Meet(k) \/ ReadGarbage(k)
               \/ UNCHANGED vars
        PROVE  UNCHANGED <<stmt, cache>>
    BY <2>5 DEF ReleaseOther, Meet, ReadGarbage, vars
  <2> QED
    BY <1>7, <2>1, <2>2, <2>3, <2>4, <2>5
<1> QED
  BY <1>3, <1>4, <1>5, <1>6, <1>7 DEF Next, Abstract!Next

(* Tables are created, learnt and forgotten as a Directory promises: a     *)
(* name keeps its first definition for everybody and for good, and a       *)
(* session that has loaded the tables knows all of them.                   *)
THEOREM DirectoryImplemented == Spec => IsDirectory
<1>1. FirstIsDefault /\ HeaderInv /\ [Next]_vars => FirstIsDefault'
  BY FirstStays
<1>2. CacheInv /\ FirstIsDefault /\ [Next]_vars => [Abstract!Next]_(Abstract!vars)
  BY StaysDirectory
<1>3. Init => FirstIsDefault /\ Abstract!Init
  BY StartsAsDirectory
<1> QED
  BY <1>1, <1>2, <1>3, HeaderCorrect, CacheCorrect, PTL DEF Spec, IsDirectory, Abstract!Spec

=============================================================================
