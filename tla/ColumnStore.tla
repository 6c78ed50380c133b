----------------------------- MODULE ColumnStore -----------------------------
(***************************************************************************)
(* The rows of one table, as Operator stores and reads them: each column   *)
(* is a chain of data blocks in the table's data file. INSERT puts one     *)
(* value after the other into the last block of each column's chain;       *)
(* SELECT * reads the columns one after the other and joins their values   *)
(* on their positions, the tags.                                           *)
(*                                                                         *)
(* An action is one visit of a block, from its load to its release. Two    *)
(* visits of one block that overlap stop the server (module LockWatcher,   *)
(* a load that finds its block loaded), so visits are atomic or the end of *)
(* everything (Meet).                                                      *)
(*                                                                         *)
(* A row is a number, and its value in each column is that number: a       *)
(* value says which row it belongs to.                                     *)
(***************************************************************************)
EXTENDS Integers, Sequences, FiniteSets

CONSTANTS
  Client,      \* worker threads with a statement on this table
  Columns,     \* number of columns
  Space,       \* bytes of a block behind its header
  Size,        \* Size[c][r]: length of the value of row r in column c
  Alone,       \* do statements come one at a time?
  MaxRows,     \* bound: rows inserted
  MaxCrashes   \* bound: crashes

Column == 1 .. Columns
Row == 1 .. MaxRows

ASSUME StoreAssumption ==
  /\ Columns \in Nat \ {0}
  /\ Space \in Nat
  /\ MaxRows \in Nat
  /\ MaxCrashes \in Nat
  /\ Alone \in BOOLEAN

(* A new block can take any value: SQL_MAX_LENGTH is less than half of     *)
(* BLOCK_SIZE.                                                             *)
ASSUME SizeAssumption ==
  /\ Size \in [Column -> [Row -> Nat \ {0}]]
  /\ \A c \in Column, r \in Row : Size[c][r] < Space

VARIABLES
  server,   \* "up", "hung" (LockWatcher stopped) or "undefined"
  data,     \* the data file: a sequence of blocks
  stmt,     \* what each client's worker is doing
  row,      \* INSERT: the row
  col, at,  \* the column it is at, the address of the block it goes to next
  lists,    \* SELECT: the values read from each column
  answer,   \* the records of the last SELECT
  rows,     \* number of INSERTs begun
  crashes,  \* number of crashes
  written,  \* history: the rows whose value reached the file, per column
  before    \* history: what was written when a SELECT began

place == <<row, col, at>>
history == <<written, before>>
vars == <<server, data, stmt, place, lists, answer, rows, crashes, history>>

Null == 0   \* next_block_pointer of the last block
EmptyBlock == [values |-> <<>>, used |-> 0, next |-> Null]
Nothing == [c \in Column |-> <<>>]
Idle == "idle"

(* CREATE TABLE gives each column an empty block, in the columns' order.   *)
First(c) == c - 1

Stored(a) == data[a + 1]
IsStored(a) == a < Len(data)

Init ==
  /\ server = "up"
  /\ data = [c \in Column |-> EmptyBlock]
  /\ stmt = [k \in Client |-> Idle]
  /\ row = [k \in Client |-> 1]
  /\ col = [k \in Client |-> 1]
  /\ at = [k \in Client |-> First(1)]
  /\ lists = [k \in Client |-> Nothing]
  /\ answer = [k \in Client |-> <<>>]
  /\ rows = 0
  /\ crashes = 0
  /\ written = [c \in Column |-> {}]
  /\ before = [k \in Client |-> [c \in Column |-> {}]]

-----------------------------------------------------------------------------
(* A statement begins at the first column's first block.                   *)
Begin(k, s) ==
  /\ server = "up"
  /\ stmt[k] = Idle
  /\ Alone => \A j \in Client : stmt[j] = Idle
  /\ stmt' = [stmt EXCEPT ![k] = s]
  /\ col' = [col EXCEPT ![k] = 1]
  /\ at' = [at EXCEPT ![k] = First(1)]
  /\ lists' = [lists EXCEPT ![k] = Nothing]
  /\ answer' = [answer EXCEPT ![k] = <<>>]
  /\ before' = [before EXCEPT ![k] = written]
  /\ UNCHANGED <<server, data, crashes, written>>

Insert(k) ==
  /\ rows < MaxRows
  /\ Begin(k, "insert")
  /\ rows' = rows + 1
  /\ row' = [row EXCEPT ![k] = rows + 1]

Select(k) ==
  /\ Begin(k, "select")
  /\ UNCHANGED <<rows, row>>

(* The block is in the file and no other thread has it.                    *)
Visit(k, s) ==
  /\ server = "up"
  /\ stmt[k] = s
  /\ IsStored(at[k])
  /\ \A j \in Client \ {k} : stmt[j] = "fill" => at[j] # at[k]

(* To the next column, or to the end of the statement.                     *)
NextColumn_OffByOne(k, s) ==
  IF col[k] <= Columns
  THEN /\ stmt' = [stmt EXCEPT ![k] = s]
       /\ col' = [col EXCEPT ![k] = @ + 1]
       /\ at' = [at EXCEPT ![k] = First(col[k] + 1)]
  ELSE /\ stmt' = [stmt EXCEPT ![k] = Idle]
       /\ UNCHANGED <<col, at>>

NextColumn(k, s) ==
  IF col[k] < Columns
  THEN /\ stmt' = [stmt EXCEPT ![k] = s]
       /\ col' = [col EXCEPT ![k] = @ + 1]
       /\ at' = [at EXCEPT ![k] = First(col[k] + 1)]
  ELSE /\ stmt' = [stmt EXCEPT ![k] = Idle]
       /\ UNCHANGED <<col, at>>

-----------------------------------------------------------------------------
(* Data blocks.                                                            *)
HaveSpace_AnyRoom(b, size) == Space - b.used > 0

HaveSpace(b, size) == Space - b.used > size

(* The newest value comes first.                                           *)
InsertData(b, r, size) ==
  [b EXCEPT !.values = <<r>> \o @, !.used = @ + size]

(* Where a worker goes from a block that is not its chain's last.          *)
NextBlock_Same(k) == at[k]
NextBlock(k) == Stored(at[k]).next

IsLast_Any(a) == TRUE
IsLast(a) == Stored(a).next = Null

(* The block behind the last one in the file.                              *)
NewBlockAddress_LastBlock == Len(data) - 1
NewBlockAddress == Len(data)

-----------------------------------------------------------------------------
(* INSERT: Operator::InsertIntoTable for each column of InsertRow.         *)
FollowLink(k) ==
  /\ Visit(k, "insert")
  /\ ~IsLast(at[k])
  /\ at' = [at EXCEPT ![k] = NextBlock(k)]
  /\ UNCHANGED <<server, data, stmt, row, col, lists, answer, rows, crashes, history>>

Wrote(k) == written' = [written EXCEPT ![col[k]] = @ \cup {row[k]}]

InsertValue(k) ==
  LET size == Size[col[k]][row[k]]
  IN  /\ Visit(k, "insert")
      /\ IsLast(at[k])
      /\ HaveSpace(Stored(at[k]), size)
      /\ data' = [data EXCEPT ![at[k] + 1] = InsertData(@, row[k], size)]
      /\ Wrote(k)
      /\ NextColumn(k, "insert")
      /\ UNCHANGED <<server, row, lists, answer, rows, crashes, before>>

(* The last block is full: it is linked to a new one, and flushed, before  *)
(* the new one is.                                                         *)
LinkNewBlock(k) ==
  /\ Visit(k, "insert")
  /\ IsLast(at[k])
  /\ ~HaveSpace(Stored(at[k]), Size[col[k]][row[k]])
  /\ data' = [data EXCEPT ![at[k] + 1].next = NewBlockAddress]
  /\ at' = [at EXCEPT ![k] = NewBlockAddress]
  /\ stmt' = [stmt EXCEPT ![k] = "fill"]
  /\ UNCHANGED <<server, row, col, lists, answer, rows, crashes, history>>

(* Two new blocks at one address.                                          *)
Collides(k) == \E j \in Client \ {k} : stmt[j] = "fill" /\ at[j] = at[k]

FillNewBlock(k) ==
  LET block == InsertData(EmptyBlock, row[k], Size[col[k]][row[k]])
  IN  /\ server = "up"
      /\ stmt[k] = "fill"
      /\ ~Collides(k)
      /\ data' = IF IsStored(at[k]) THEN [data EXCEPT ![at[k] + 1] = block]
                 ELSE Append(data, block)
      /\ Wrote(k)
      /\ NextColumn(k, "insert")
      /\ UNCHANGED <<server, row, lists, answer, rows, crashes, before>>

(* The first release unlocks the other thread's slot.                      *)
ReleaseOther(k) ==
  /\ server = "up"
  /\ stmt[k] = "fill"
  /\ Collides(k)
  /\ server' = "undefined"
  /\ UNCHANGED <<data, stmt, place, lists, answer, rows, crashes, history>>

-----------------------------------------------------------------------------
(* SELECT *: Operator::FilterLoad for each column, then InnerJoinColumns.  *)
ScanList_Overwritten(k) == Stored(at[k]).values
ScanList(k) == lists[k][col[k]] \o Stored(at[k]).values

ScanBlock(k) ==
  /\ Visit(k, "select")
  /\ ~IsLast(at[k])
  /\ lists' = [lists EXCEPT ![k][col[k]] = ScanList(k)]
  /\ at' = [at EXCEPT ![k] = NextBlock(k)]
  /\ UNCHANGED <<server, data, stmt, row, col, answer, rows, crashes, history>>

(* A record for each tag that every column has.                            *)
InnerJoinColumns(ls) ==
  LET tags == {i \in 1 .. Len(ls[1]) : \A c \in Column : i <= Len(ls[c])}
  IN  [i \in tags |-> [c \in Column |-> ls[c][i]]]

ScanLastBlock(k) ==
  LET read == [lists[k] EXCEPT ![col[k]] = ScanList(k)]
  IN  /\ Visit(k, "select")
      /\ IsLast(at[k])
      /\ NextColumn(k, "select")
      /\ IF stmt'[k] = Idle
         THEN /\ answer' = [answer EXCEPT ![k] = InnerJoinColumns(read)]
              /\ lists' = [lists EXCEPT ![k] = Nothing]
         ELSE /\ lists' = [lists EXCEPT ![k] = read]
              /\ UNCHANGED answer
      /\ UNCHANGED <<server, data, row, rows, crashes, history>>

-----------------------------------------------------------------------------
(* Two visits of one block overlap, or one comes to a block that is being  *)
(* filled.                                                                 *)
Meet(k) ==
  /\ server = "up"
  /\ stmt[k] \in {"insert", "select"}
  /\ \E j \in Client \ {k} : stmt[j] # Idle /\ at[j] = at[k]
  /\ server' = "hung"
  /\ UNCHANGED <<data, stmt, place, lists, answer, rows, crashes, history>>

(* A link leads behind the end of the file: the slot keeps the bytes it    *)
(* had, and the model says nothing of what follows.                        *)
ReadBeyondEnd(k) ==
  /\ server = "up"
  /\ stmt[k] \in {"insert", "select"}
  /\ ~IsStored(at[k])
  /\ \A j \in Client \ {k} : stmt[j] = "fill" => at[j] # at[k]
  /\ server' = "undefined"
  /\ UNCHANGED <<data, stmt, place, lists, answer, rows, crashes, history>>

(* The process ends and is started again: the file is as the last flush    *)
(* left it.                                                                *)
Crash ==
  /\ server \in {"up", "hung"}
  /\ crashes < MaxCrashes
  /\ crashes' = crashes + 1
  /\ server' = "up"
  /\ stmt' = [k \in Client |-> Idle]
  /\ lists' = [k \in Client |-> Nothing]
  /\ answer' = [k \in Client |-> <<>>]
  /\ UNCHANGED <<data, place, rows, history>>

Step(k) == FollowLink(k) \/ InsertValue(k) \/ LinkNewBlock(k) \/ FillNewBlock(k)
           \/ ScanBlock(k) \/ ScanLastBlock(k)

Next ==
  \/ \E k \in Client : \/ Insert(k)
                       \/ Select(k)
                       \/ FollowLink(k)
                       \/ InsertValue(k)
                       \/ LinkNewBlock(k)
                       \/ FillNewBlock(k)
                       \/ ReleaseOther(k)
                       \/ ScanBlock(k)
                       \/ ScanLastBlock(k)
                       \/ Meet(k)
                       \/ ReadBeyondEnd(k)
  \/ Crash

Spec == Init /\ [][Next]_vars

(* A worker that can go on does.                                           *)
FairSpec == Spec /\ \A k \in Client : WF_vars(Step(k))

-----------------------------------------------------------------------------
(* The blocks of a column: what its links lead to from its first block.    *)
NoBlock == -1

Follow(a) ==
  IF ~IsStored(a) \/ a = NoBlock THEN NoBlock
  ELSE IF IsLast(a) THEN NoBlock ELSE Stored(a).next

Blocks(c) ==
  LET nth[n \in 0 .. Len(data)] == IF n = 0 THEN First(c) ELSE Follow(nth[n - 1])
  IN  {nth[n] : n \in 0 .. Len(data)} \ {NoBlock}

Values(a) == {Stored(a).values[i] : i \in DOMAIN Stored(a).values}

ValuesOf(c) == UNION {Values(a) : a \in {b \in Blocks(c) : IsStored(b)}}

(* The type invariant: statements and files keep their types.              *)
TypeOK ==
  /\ server \in {"up", "hung", "undefined"}
  /\ data \in Seq([values : Seq(Row), used : Nat, next : Nat])
  /\ stmt \in [Client -> {Idle, "insert", "fill", "select"}]
  /\ row \in [Client -> Nat]
  /\ col \in [Client -> Column]
  /\ at \in [Client -> Nat]
  /\ lists \in [Client -> [Column -> Seq(Row)]]
  /\ answer \in [Client -> Seq([Column -> Row])]
  /\ rows \in 0 .. MaxRows
  /\ crashes \in 0 .. MaxCrashes
  /\ written \in [Column -> SUBSET Row]
  /\ before \in [Client -> [Column -> SUBSET Row]]

(* Each record a SELECT answers with is one row that was inserted: joining *)
(* by position brings together what one INSERT wrote.                      *)
RecordsWhole ==
  \A k \in Client : \A i \in DOMAIN answer[k] :
    \A c, d \in Column : answer[k][i][c] = answer[k][i][d]

(* No block's values outgrow it.                                           *)
BlocksFit == \A i \in DOMAIN data : data[i].used <= Space

(* Each block stores the data of one column only.                          *)
BlocksOfOneColumn ==
  \A c, d \in Column : c # d => Blocks(c) \cap Blocks(d) = {}

(* ... however the workers interleave, as long as no process ended between *)
(* a link and the block it leads to, and nothing undefined happened.       *)
BlocksOfOneColumnUntilCrash ==
  crashes = 0 /\ (\A k \in Client : ~Collides(k)) /\ server # "undefined"
    => BlocksOfOneColumn

(* A value that reached the file stays in its column's chain, whoever else *)
(* appends to the chain and whenever the process ends.                     *)
NoValueLost ==
  (\A k \in Client : ~Collides(k)) /\ server # "undefined"
    => \A c \in Column : written[c] \subseteq ValuesOf(c)

(* A SELECT that reads a column while others append to it gets every value *)
(* that was there when it began, and none twice, until a crash.            *)
ScansComplete ==
  crashes = 0 =>
    \A k \in Client : stmt[k] = "select" =>
      \A c \in 1 .. col[k] - 1 :
        LET read == lists[k][c]
        IN  /\ before[k][c] \subseteq {read[i] : i \in DOMAIN read}
            /\ Cardinality({read[i] : i \in DOMAIN read}) = Len(read)

(* Every INSERT and SELECT comes to its end: chains have one.              *)
StatementsEnd ==
  \A k \in Client : stmt[k] # Idle ~> stmt[k] = Idle

(* A row is in the table when its value is in every column.                *)
Record == {[c \in Column |-> r] : r \in Row}

Abstract ==
  INSTANCE Table WITH
    Record <- Record,
    records <- {[c \in Column |-> r] : r \in {s \in Row : \A c \in Column : s \in written[c]}}

(* Statements that come one at a time see a table: an INSERT adds its      *)
(* record, a SELECT answers with all of them.                              *)
IsTable == Abstract!Spec
=============================================================================
