------------------------------- MODULE Catalog -------------------------------
(***************************************************************************)
(* The tables of one user database: the header file, a chain of header     *)
(* blocks with the tables' descriptors; CREATE TABLE, which gives a table  *)
(* its data blocks and enters it in the last header block; and the list of *)
(* tables that each session caches when it connects, and reloads when it   *)
(* has created a table itself.                                             *)
(*                                                                         *)
(* As in ColumnStore, an action is one visit of a block, from its load to  *)
(* its release, and two visits of one block that overlap stop the server.  *)
(***************************************************************************)
EXTENDS Integers, Sequences, SequencesExt

CONSTANTS
  Session,      \* sessions of the database
  Definition,   \* the tables users create: records [name, columns, length]
  Default,      \* default_table, which CREATE DATABASE makes
  HeaderSpace,  \* bytes of a header block behind its fixed fields
  AddressSize,  \* bytes of an entry of tables_begin_address
  MaxCreates,   \* bound: CREATE TABLE statements
  MaxCrashes    \* bound: crashes

Name == {d.name : d \in Definition \cup {Default}}

ASSUME DefinitionAssumption ==
  /\ \A d \in Definition \cup {Default} : d.columns \in Nat \ {0} /\ d.length \in Nat
  /\ Default.columns = 1

ASSUME SpaceAssumption ==
  /\ HeaderSpace \in Nat
  /\ AddressSize \in Nat
  /\ AddressSize + Default.length <= HeaderSpace
  /\ MaxCreates \in Nat
  /\ MaxCrashes \in Nat

VARIABLES
  server,   \* "up", "hung" (LockWatcher stopped) or "undefined"
  header,   \* the header file: a sequence of blocks
  files,    \* length of each table's data file, in blocks
  stmt,     \* what each session is doing
  table,    \* CREATE TABLE: the table, with the first blocks it has so far
  at,       \* the address of the block it goes to next
  cache,    \* cached_db->tables
  result,   \* the answer to the last CREATE TABLE
  creates, crashes

vars == <<server, header, files, stmt, table, at, cache, result, creates, crashes>>

Null == 0   \* next_block_pointer of the last block
EmptyBlock == [tables |-> <<>>, next |-> Null]
DefaultTable == [def |-> Default, first |-> <<0>>]

Stored(a) == header[a + 1]
IsStored(a) == a < Len(header)
IsLast(a) == Stored(a).next = Null

(* CREATE DATABASE has left the default table in the first header block.   *)
Init ==
  /\ server = "up"
  /\ header = <<[EmptyBlock EXCEPT !.tables = <<DefaultTable>>]>>
  /\ files = [n \in Name |-> IF n = Default.name THEN 1 ELSE 0]
  /\ stmt = [k \in Session |-> "off"]
  /\ table = [k \in Session |-> DefaultTable]
  /\ at = [k \in Session |-> 0]
  /\ cache = [k \in Session |-> <<>>]
  /\ result = [k \in Session |-> "none"]
  /\ creates = 0
  /\ crashes = 0

-----------------------------------------------------------------------------
(* Header blocks: the descriptors grow from the end of the block down, the *)
(* entries of tables_begin_address from the fixed fields up.               *)
Lengths(b) == FoldSeq(LAMBDA t, sum : t.def.length + sum, 0, b.tables)

(* CalBeginAddress: what is left for descriptors. The entries are not      *)
(* counted.                                                                *)
HaveSpace(b, t) == t.def.length <= HeaderSpace - Lengths(b)

(* SerializeHeader has not written over the last descriptor.               *)
Intact(b) == AddressSize * Len(b.tables) <= HeaderSpace - Lengths(b)

InsertTable_First(b, t) == [b EXCEPT !.tables = <<t>> \o @]

InsertTable(b, t) == [b EXCEPT !.tables = Append(@, t)]

(* GetTable: the first table of that name.                                 *)
Resolve_Last(ts, n) == ts[Max({i \in DOMAIN ts : ts[i].def.name = n})].def

Resolve(ts, n) == ts[Min({i \in DOMAIN ts : ts[i].def.name = n})].def

-----------------------------------------------------------------------------
(* Who is at a header block. A session that fills a new one holds it.      *)
AtHeader == {"open", "chain", "fill", "reload"}

Visit(k, s) ==
  /\ server = "up"
  /\ stmt[k] = s
  /\ IsStored(at[k])
  /\ \A j \in Session \ {k} : stmt[j] = "fill" => at[j] # at[k]

(* Connector: one session is opened at a time.                             *)
OpenDB(k) ==
  /\ server = "up"
  /\ stmt[k] = "off"
  /\ \A j \in Session : stmt[j] # "open"
  /\ stmt' = [stmt EXCEPT ![k] = "open"]
  /\ at' = [at EXCEPT ![k] = 0]
  /\ UNCHANGED <<server, header, files, table, cache, result, creates, crashes>>

(* LoadTables: the tables of one block are pushed behind those in the      *)
(* cache.                                                                  *)
LoadTables(k) ==
  /\ \E s \in {"open", "reload"} : Visit(k, s)
  /\ Intact(Stored(at[k]))
  /\ cache' = [cache EXCEPT ![k] = @ \o Stored(at[k]).tables]
  /\ IF IsLast(at[k])
     THEN /\ stmt' = [stmt EXCEPT ![k] = "idle"]
          /\ UNCHANGED at
     ELSE /\ at' = [at EXCEPT ![k] = Stored(at[k]).next]
          /\ UNCHANGED stmt
  /\ UNCHANGED <<server, header, files, table, result, creates, crashes>>

-----------------------------------------------------------------------------
(* CREATE TABLE. Whether the name is taken is not asked.                   *)
CreateTable(k, d) ==
  /\ server = "up"
  /\ stmt[k] = "idle"
  /\ creates < MaxCreates
  /\ creates' = creates + 1
  /\ stmt' = [stmt EXCEPT ![k] = "columns"]
  /\ table' = [table EXCEPT ![k] = [def |-> d, first |-> <<>>]]
  /\ result' = [result EXCEPT ![k] = "none"]
  /\ UNCHANGED <<server, header, files, at, cache, crashes>>

NewBlockAddress_LastBlock(n) == files[n] - 1
NewBlockAddress(n) == files[n]

(* InsertIntoTableHeader: a new data block for the next column, ...        *)
NewDataBlock(k) ==
  /\ server = "up"
  /\ stmt[k] = "columns"
  /\ at' = [at EXCEPT ![k] = NewBlockAddress(table[k].def.name)]
  /\ stmt' = [stmt EXCEPT ![k] = "column"]
  /\ UNCHANGED <<server, header, files, table, cache, result, creates, crashes>>

(* ... which another session may take for its table of the same name, and  *)
(* the first release then unlocks the other's slot.                        *)
Collides(k) ==
  \E j \in Session \ {k} :
    /\ stmt[j] = "column" /\ at[j] = at[k]
    /\ table[j].def.name = table[k].def.name

LengthAfterFlush_NotWritten(n, a) == files[n]

LengthAfterFlush(n, a) == IF a < files[n] THEN files[n] ELSE a + 1

FlushDataBlock(k) ==
  LET d == table[k].def
      first == Append(table[k].first, at[k])
  IN  /\ server = "up"
      /\ stmt[k] = "column"
      /\ ~Collides(k)
      /\ files' = [files EXCEPT ![d.name] = LengthAfterFlush(d.name, at[k])]
      /\ table' = [table EXCEPT ![k].first = first]
      /\ IF Len(first) < d.columns
         THEN /\ stmt' = [stmt EXCEPT ![k] = "columns"]
              /\ UNCHANGED at
         ELSE /\ stmt' = [stmt EXCEPT ![k] = "chain"]
              /\ at' = [at EXCEPT ![k] = 0]
      /\ UNCHANGED <<server, header, cache, result, creates, crashes>>

ReleaseOther(k) ==
  /\ server = "up"
  /\ stmt[k] = "column"
  /\ Collides(k)
  /\ server' = "undefined"
  /\ UNCHANGED <<header, files, stmt, table, at, cache, result, creates, crashes>>

(* The last header block is looked for.                                    *)
NextBlock_Same(k) == at[k]
NextBlock(k) == Stored(at[k]).next

FollowLink(k) ==
  /\ Visit(k, "chain")
  /\ ~IsLast(at[k])
  /\ at' = [at EXCEPT ![k] = NextBlock(k)]
  /\ UNCHANGED <<server, header, files, stmt, table, cache, result, creates, crashes>>

(* The table is in, or is not; the session's cache is loaded again.        *)
ReLoadTables_Forgotten(k, outcome) ==
  /\ result' = [result EXCEPT ![k] = outcome]
  /\ stmt' = [stmt EXCEPT ![k] = "idle"]
  /\ UNCHANGED <<server, files, table, at, cache, creates, crashes>>

ReLoadTables(k, outcome) ==
  /\ result' = [result EXCEPT ![k] = outcome]
  /\ stmt' = [stmt EXCEPT ![k] = "reload"]
  /\ at' = [at EXCEPT ![k] = 0]
  /\ cache' = [cache EXCEPT ![k] = <<>>]
  /\ UNCHANGED <<server, files, table, creates, crashes>>

InsertIntoLastBlock(k) ==
  /\ Visit(k, "chain")
  /\ IsLast(at[k])
  /\ HaveSpace(Stored(at[k]), table[k])
  /\ header' = [header EXCEPT ![at[k] + 1] = InsertTable(@, table[k])]
  /\ ReLoadTables(k, "success")

(* The last block is linked to a new one, and flushed, before the new one  *)
(* is.                                                                     *)
LinkNewBlock(k) ==
  /\ Visit(k, "chain")
  /\ IsLast(at[k])
  /\ ~HaveSpace(Stored(at[k]), table[k])
  /\ header' = [header EXCEPT ![at[k] + 1].next = Len(header)]
  /\ at' = [at EXCEPT ![k] = Len(header)]
  /\ stmt' = [stmt EXCEPT ![k] = "fill"]
  /\ UNCHANGED <<server, files, table, cache, result, creates, crashes>>

(* A table that is too big for a block leaves the new one empty.           *)
FillNewBlock(k) ==
  /\ server = "up"
  /\ stmt[k] = "fill"
  /\ \/ /\ HaveSpace(EmptyBlock, table[k])
        /\ header' = Append(header, InsertTable(EmptyBlock, table[k]))
        /\ ReLoadTables(k, "success")
     \/ /\ ~HaveSpace(EmptyBlock, table[k])
        /\ header' = Append(header, EmptyBlock)
        /\ ReLoadTables(k, "failure")

-----------------------------------------------------------------------------
(* Two visits of one header block overlap.                                 *)
Meet(k) ==
  /\ server = "up"
  /\ stmt[k] \in AtHeader \ {"fill"}
  /\ \E j \in Session \ {k} : stmt[j] \in AtHeader /\ at[j] = at[k]
  /\ server' = "hung"
  /\ UNCHANGED <<header, files, stmt, table, at, cache, result, creates, crashes>>

(* A link leads behind the end of the file, or a descriptor is             *)
(* overwritten: what is read is anything.                                  *)
ReadGarbage(k) ==
  /\ server = "up"
  /\ \/ /\ stmt[k] \in AtHeader \ {"fill"}
        /\ ~IsStored(at[k])
        /\ \A j \in Session \ {k} : stmt[j] = "fill" => at[j] # at[k]
     \/ /\ \E s \in {"open", "reload"} : Visit(k, s)
        /\ ~Intact(Stored(at[k]))
  /\ server' = "undefined"
  /\ UNCHANGED <<header, files, stmt, table, at, cache, result, creates, crashes>>

(* The process ends and is started again; the sessions are gone.           *)
Crash ==
  /\ server \in {"up", "hung"}
  /\ crashes < MaxCrashes
  /\ crashes' = crashes + 1
  /\ server' = "up"
  /\ stmt' = [k \in Session |-> "off"]
  /\ cache' = [k \in Session |-> <<>>]
  /\ result' = [k \in Session |-> "none"]
  /\ UNCHANGED <<header, files, table, at, creates>>

Step(k) == LoadTables(k) \/ NewDataBlock(k) \/ FlushDataBlock(k) \/ FollowLink(k)
           \/ InsertIntoLastBlock(k) \/ LinkNewBlock(k) \/ FillNewBlock(k)
           \/ ReleaseOther(k) \/ ReadGarbage(k)

Next ==
  \/ \E k \in Session : \/ OpenDB(k)
                        \/ LoadTables(k)
                        \/ \E d \in Definition : CreateTable(k, d)
                        \/ NewDataBlock(k)
                        \/ FlushDataBlock(k)
                        \/ ReleaseOther(k)
                        \/ FollowLink(k)
                        \/ InsertIntoLastBlock(k)
                        \/ LinkNewBlock(k)
                        \/ FillNewBlock(k)
                        \/ Meet(k)
                        \/ ReadGarbage(k)
  \/ Crash

Spec == Init /\ [][Next]_vars

(* A thread that can go on does.                                           *)
FairSpec == Spec /\ \A k \in Session : WF_vars(Step(k))

-----------------------------------------------------------------------------
(* The tables of the database, in the order in which LoadTables comes to   *)
(* them.                                                                   *)
Gather(list) ==
  IF ~IsStored(list.at) THEN list
  ELSE [tables |-> list.tables \o Stored(list.at).tables,
        at |-> IF IsLast(list.at) THEN Len(header) ELSE Stored(list.at).next]

Gathered ==
  LET list[n \in 0 .. Len(header)] ==   \* what the first n blocks list, and where they lead
        IF n = 0 THEN [tables |-> <<>>, at |-> 0] ELSE Gather(list[n - 1])
  IN  list

Tables == Gathered[Len(header)].tables

Names(ts) == {ts[i].def.name : i \in DOMAIN ts}

Table == [def : Definition \cup {Default}, first : Seq(Nat)]

(* The type invariant: header file, sessions and caches keep their types.  *)
TypeOK ==
  /\ server \in {"up", "hung", "undefined"}
  /\ header \in Seq([tables : Seq(Table), next : Nat])
  /\ files \in [Name -> Nat]
  /\ stmt \in [Session -> {"off", "idle", "columns", "column"} \cup AtHeader]
  /\ table \in [Session -> Table]
  /\ at \in [Session -> Nat]
  /\ cache \in [Session -> Seq(Table)]
  /\ result \in [Session -> {"none", "success", "failure"}]
  /\ creates \in 0 .. MaxCreates
  /\ crashes \in 0 .. MaxCrashes

(* However stale the list of tables a session has cached is, and while it  *)
(* is loaded too, it is how the database's own list begins: two sessions   *)
(* that both know a name mean the same table by it.                        *)
CachesAgree ==
  \A k \in Session : IsPrefix(cache[k], Tables)

(* A table that can be found has a first block for each of its columns in  *)
(* its data file, and no other table or column has that block, also when a *)
(* name was created twice and whenever the process ended.                  *)
ColumnsOwnBlocks ==
  server # "undefined" =>
    \A i, j \in DOMAIN Tables :
      LET t == Tables[i]
          u == Tables[j]
      IN  /\ Len(t.first) = t.def.columns
          /\ \A c \in DOMAIN t.first : t.first[c] < files[t.def.name]
          /\ \A c \in DOMAIN t.first, d \in DOMAIN u.first :
               t.def.name = u.def.name /\ t.first[c] = u.first[d] => i = j /\ c = d

(* A session that was told its table is created finds one of that name.    *)
CreatedIsFound ==
  \A k \in Session :
    stmt[k] = "idle" /\ result[k] = "success" => table[k].def.name \in Names(cache[k])

(* Every statement and every connection comes to its end, unless the       *)
(* server stops.                                                           *)
CreatesEnd ==
  \A k \in Session :
    stmt[k] \notin {"off", "idle"} ~> stmt[k] \in {"off", "idle"} \/ server # "up"

(* What a name means is what GetTable finds first.                         *)
Meanings(ts) == {Resolve(ts, n) : n \in Names(ts)}

Abstract ==
  INSTANCE Directory WITH
    tables <- Meanings(Tables),
    known <- [k \in Session |-> IF stmt[k] = "idle" THEN Meanings(cache[k]) ELSE {}]

(* A name keeps its first definition for everybody and for good, and a     *)
(* session that connects, or has created a table, knows all the tables.    *)
IsDirectory == Abstract!Spec
=============================================================================
