# A formal model of tiny-dbms

tiny-dbms is a small column store with a client/server front end, written in
C++ (almost all of it in headers under `src/include`). This directory holds TLA+
models of its parts, TLC configurations that check them on small instances, and
proofs that the TLA+ proof system (`tlapm`) checks for every instance.

- [1. The system](#1-the-system): components, state, operations, what is hard
- [2. The modules](#2-the-modules) and how they correspond to the code
- [3. The runs](#3-the-runs): what each shows, bounds, fairness
- [4. What the models say against the documents](#4-findings)
- [5. What is proved](#5-what-is-proved)
- [6. What is only model-checked, and what is not modelled](#6-limits)
- [7. Plan](#7-plan)

Paths are relative to `src/include` unless they start otherwise. To run:

    tlc -config MCOwnFiles.cfg MCLockWatcher      # any .cfg with its MC module
    tlapm SessionsProofs.tla                      # any module named ...Proofs, or Induction

## 1. The system

A client program (`client/client.h`) and the server (`bench/server.h`) are
separate processes that talk through System V message queues. In the server a
*connector* thread accepts clients and starts a *worker* thread for each; one
more thread, the *base-db thread*, creates databases. Workers parse and execute
SQL through the *Operator* (`sql/executer/operator.h`), which keeps tables in
files of 4096-byte blocks, which all threads reach through one *block cache*
(`storage/memory`). Nothing else synchronises workers: the document says that
concurrency is not considered (`src/document/dbms_design.md:6`) and yet gives
each client a thread (`:175`), so interleavings are where most of the hazards are.

| Component | State | Operations | Talks to | What is hard | What makes it correct |
|---|---|---|---|---|---|
| **Block cache**: `LockWatcher`, `BufferPool`, `BlockSlot`, `Replacer` | `slots_map` (block -> slot), its mutex; per slot: bytes, `in_use`, `user_amount`, a `shared_mutex`; `slots_read_list`, `no_space_failure_times`, a condition variable | load for read / write, create a block, release; wait for space | called by Operator in every thread; block files below | interleaving, lock order, waiting for space, stale entries, crash with unsaved slots, uninitialised counters | writers exclude all; readers see the last change; what was released is in the file; a slot is home to one block; calls return; slots come back |
| **Block files**: `BlockFileManagement` | file of blocks, its length | read, write back, address of a new block | below the cache | the address is handed out before the file grows | a block once written is never overwritten by another |
| **Operator**, rows: INSERT, SELECT | chain of data blocks per column | insert value by value, scan, join by position | cache | no lock on a row, link flushed before block, crash between columns | rows stay whole, no value lost, scans complete |
| **Data blocks, values** | values newest first, free space, link | insert, has space, convert, compare | Operator | values of several lengths; numbers cut by `stoi` | no block outgrown, a comparison means what was written |
| **Operator**, schema: CREATE TABLE, opening | chain of header blocks; per session a cached list of tables | create, load, reload, look up | cache, sessions | stale caches, blocks linked before they are written, names used twice | a name means one table to everybody; columns own their blocks |
| **Optimizer** | none (one statement) | plan, filter, join | Operator | dropped conditions and connectives, columns filtered apart | the answer is the selection |
| **Sessions**: server, connector, workers, base-db thread | install path, base_db's table of names, `session_map`, `worker_map`, three queues shared by all processes | install, start, connect, execute, create database | client; Operator | two-message protocols, queue types shared by programs, death of either side, crash during installation, names compared without an end mark, unlocked maps | statements run in their own database, answers go to who asked, everybody is answered, what was created is there |
| **Client**, `ClientManager` | current queue id, statement outstanding | build client, log in, send, read, quit | sessions | queues outlive processes | as above |
| **Tokenizer, patterns, parser, AST** | tokens; `match_length` in each pattern, shared by all threads | tokenize, match, build, dispatch | worker | patterns keep the length of their last match; reads beyond tokens and beyond the statement's buffer; constructors that throw where nothing catches | what is executed is what was written; every parse ends |
| **Log manager and its replacer** | table of slots by name | insert, look up, free | nothing: never called | - | - |
| **Database descriptors** | list of tables; a file of three lines | load, store | Operator | - | see schema |
| Paths, configuration, vector distances, index and resolver stubs | none | - | - | - | - |

Hazards are listed, each with its source line and the properties that speak
of it, in `PROJECT.json`.

At this commit the program does not build as it stands
(`sql/parser/sql_pattern.h:404` and `:436` use `DELETE_FROM_TABLE_NODE`, which `NodeType`
lacks; static members of `LogCentralManagement` have no definition; a test includes
a header that was moved). The models take the code as it reads, without the DELETE
pattern and without the log manager, which nothing calls.

## 2. The modules

| Module | About | Extends / refines |
|---|---|---|
| `LockWatcher` | block cache, buffer pool, block files | |
| `MCLockWatcher` | its instances | `LockWatcher` |
| `LockWatcherProofs` | proofs: types, slots, who holds what, one thread per file | `LockWatcher`, TLAPS |
| `Table` | abstract: a set of records, INSERT, SELECT | |
| `ColumnStore`, `MCColumnStore` | rows as chains of blocks per column | implements `Table` |
| `ColumnStoreProofs` | proofs: types, block sizes, chains, values, scans; whole records, the refinement of `Table` | `ColumnStore`, `Induction` |
| `Selection`, `MCSelection` | SELECT with conditions | `Lists`; rests on `ColumnStore` being a `Table` |
| `SelectionProofs` | proofs: all safety properties | `Selection`, `Induction` |
| `Directory` | abstract: names and their definitions, what sessions know | |
| `Catalog`, `MCCatalog` | header blocks, cached lists of tables | implements `Directory` |
| `CatalogProofs` | proofs: all safety properties, the refinement | `Catalog`, `Induction` |
| `Sessions`, `MCSessions` | installation, clients, queues, threads | |
| `SessionsProofs` | proofs: all safety properties | `Sessions` |
| `Sql` | words, tokens, trees | `Lists` |
| `Parser`, `MCParser` | matching in many threads, dispatch, INSERT's values | `Sql` |
| `StatementProofs` | lemmas about statements, tokens, trees, and the language of the patterns | `Parser`, `Induction` |
| `ParserProofs` | proofs: types, inserted rows, verdicts, executed trees, who ends the server | `StatementProofs` |
| `Lists` | the elements of a list that lie in a set | |
| `Induction` | least elements and induction for sets of naturals, recursive functions, lists | `Lists` |

The modules are stacked by what they assume of one another. `LockWatcher` shows
that two users of a block at once stop the server. So in `ColumnStore` and
`Catalog` a visit of a block (load, change, release) is one step, and the overlap
of two is a step to `"hung"`. `Selection` assumes the table that `ColumnStore`
shows to be one when statements come one at a time. `Sessions` says which thread
executes a statement in which database, and takes the work itself as a step.
`Parser` is what a worker does first in that step: its tree goes on to `Catalog`
(CREATE TABLE), `Selection` (SELECT) or `Sessions` (a root's CREATE DATABASE), or into
a row (INSERT), which is `ColumnStore`'s value-by-value insert.

**States after which nothing is said.** Where the code runs into undefined
behaviour (unlocking another thread's `shared_mutex`, reading through an
unset pointer, a racing map), the models go to `server = "undefined"` (in
`Sessions` `"broken"`), where they stop; `"hung"` is a server that only a restart
helps; `"ended"` one ended by an exception; `"astray"` (in `LockWatcher`) one that holds
another block's bytes for the block it asked for. Properties are not weakened for them, save
where the text of a property says so. Because of these states, and because users
need not type anything, some runs switch deadlock checking off; where the
system can always go on, it is on.

### LockWatcher

| TLA+ | Code |
|---|---|
| `slots_map`, `map_mutex` | `slots_map`, `slots_map_mutex`; `map_mutex` is its owner |
| `in_use`, `user_amount`, `writer`, `readers`, `mem` | a `BlockSlot`: its fields, the holders of its `shared_mutex`, its bytes as the version they hold |
| `slots_read_list`, `no_space_failure_times` | of `Replacer` and `BufferPool` |
| `pc`, `req`, `target` | where a thread stands in a call of LockWatcher, for which block, with which slot |
| `held` | the blocks a caller has been given and has not released |
| `disk`, `length` | version of each block in its file; length of each file |
| `dangling` | the blocks a link in a file names that the file does not have (yet) |
| `latest` (history) | last version any holder made of each block |
| `space` (history) | whether a slot was free for every call since the start |
| `CallLoad`, `CallCreate` | a call begins; the callers' protocol is that of `operator.h`: nothing is held when a block is loaded, and what is loaded is in the file or named by a link in it; at most one block is held when one is created |
| `Hit` | the block is in the table: its slot is locked inside `slots_map_mutex`, which then is never unlocked |
| `FindSlot`, `MissSpace`, `GiveUp`, `WaitForSpace`, `SpuriousWakeup` | `GetFreeSlot` / `FreeSpace` / `WaitForSpace` |
| `LockSlot` | the slot's mutex, the block's bytes, the table's entry |
| `ReadsNothing` | `ReadFromFile` behind the end of the file: no bytes come, the slot keeps those it has |
| `Modify` | a holder for writing changes the bytes |
| `ReleaseReadingBlock`, `ReleaseWritingBlock`, `ReleaseLostBlock`, `UnlockByNonOwner` | the releases, by what they find in the table; a block for writing is flushed, with its link to a new one (`LinksAfterFlush`) |
| `Start`, `Crash`, `CrashAstray` | construction with uninitialised fields; end of the process |

Each action is one critical section of `slots_map_mutex`, or one blocking lock.
INSERT flushes the block with the link before the block it links (`operator.h:1343`, `:1353`). If the
process ends in between, `dangling` keeps the link; a later server that follows it goes
`"astray"`: it takes what a slot held before for the block, follows the links in it and writes it back.
What such a server does is not modelled; what it leaves behind when it ends is: `CrashAstray`
gives the files any bytes, links and no smaller lengths, and the next server starts from those.
Waiting for space deserves a note. `FreeSpace` is called only when a scan found
each slot in use, with the mutex held; so its own search of `slots_read_list`
finds nothing, `WakeUpWaitingThread` is not reached, and only a spurious wakeup
ends a wait, although the comment at `storage/memory/buffer_pool.h:50` has it
otherwise. (`easy_replacer.cpp:31` uses an iterator it has just erased; for
the same reason it never gets there.) The real pool has 655,360 slots, so this
is rare; the models use pools of two.

### ColumnStore

`data` is the data file, `at` the address of the block a worker goes to next,
`col` the column it is at. INSERT is `FollowLink` to the last block of a chain, then
`InsertValue` into it, or `LinkNewBlock` and `FillNewBlock`, for each column in
turn (`InsertRow`, `InsertIntoTable`). SELECT is `ScanBlock` and
`ScanLastBlock` for each column, then `InnerJoinColumns`. A row is a number and its
value in each column is that number, so that a record tells whether it was put together
from one row. `written` and `before` are history. Two workers whose new blocks
get one address meet in `ReleaseOther`; a link that leads behind the end of the
file ends in `ReadBeyondEnd`. `Table` is refined by the records whose value is in
every column.

### Selection

A statement is a select list and a WHERE clause; each condition has the connective
before it (`or`), which the code parses and then never looks at. A compare value is a
number with or without a fraction, or no number; `InitValue` is the `stoi` that cuts
the fraction off.
`ParseCondition` and `ThrowInParser` are what the constructor in `ast.h` makes of
the clause, `ExecuteSelect` the planning (`MergeUsedCols`), `FilterLoad` one column's
load and filter, `InnerJoinColumns` the join by position and the cut to the
selected columns. A column is a sequence in the order a scan finds it: block by block,
newest value of a block first. `ThrowInCompare`, `ThrowInParser` and `MissColumn` are the
ways a legal statement ends the server.

### Catalog

`header` is the chain of header blocks, `files` the lengths of the tables' data
files, `cache[k]` the list of tables of session k's DB. `OpenDB` and
`LoadTables` read block by block when a session connects. CREATE TABLE is
`CreateTable`, then `NewDataBlock` and `FlushDataBlock` for each column, then
`FollowLink` to the last header block, then `InsertIntoLastBlock`, or
`LinkNewBlock` and `FillNewBlock`, then the reload of the creator's cache.
A table too big for any block fails and leaves an empty block linked. Nothing
asks whether the name is taken. `Directory` is refined by what `GetTable` finds
first for each name.

### Sessions

`server` goes through the installation (`WriteInstallPath`, `CreateBaseDB`,
`CreateDefaultTableForBaseDb`, `NameBaseDB`; skipped where `installed` says that the file
of the install path is not empty) and `OpenBaseDB` to `"up"`. A `Restart` can come between any
two of these.

One queue per name (`connector_queue`, `worker_queue`, `base_queue`), each a
sequence per message type, as `msgrcv` with a type sees it. `program[p]` is where
a client program stands, `built[p]` the logins of its clients so far; each client
has the next queue id of the program's own array. `Connect` is the lookup in
`session_map` by ip and port (a *place* of the model is the two written one behind the
other, which is the map's key) and all its outcomes; `CREATE DATABASE` goes from a
root worker to the base-db thread as two messages (`ForwardQueueId`, `ForwardName`)
and is three steps there (`InsertName`, `WriteDBFile`, `CreateFiles`). `names` are the rows of
base_db's table, `complete` the databases whose files are all there. `CheckDBExist` may
miss a name that is there: the bytes it compares with `strcmp` have no end mark. So a
database can be created twice, over itself. `Kill` ends a program
anywhere, `Restart` the server; queues survive both. `Overlap` is what threads do to
shared maps and blocks at once. DROP DATABASE has no pattern and is refused.

### Sql and Parser

| TLA+ | Code |
|---|---|
| `Tokenize`, `TokenOf` | `word_separater.h`: a word is what its scan cuts out at once |
| `CreateTableSql`, `InsertIntoTableSql`, `SelectFromOneTableSql`, ... | the constructors of `ast.h`; `Thrown` is an exception |
| `CREATE_TABLE_SQL_PATTERN`, ... | the patterns of `sql_pattern.h`, as sequences of elements; an element is needed, or optional and then repeated |
| `match_length` | of the patterns that are ranges; global, so shared |
| `at[w]` | where worker w stands: pattern, element, part, tokens taken |
| `ReadStatement`, `Receive` | `Worker::ListenThread`: the statement is read from a buffer without an end mark, with what lies behind it |
| `MatchCertain`, `RangeCheck` | a check of one part; a range stores its `match_length` |
| `ReadLength`, `ReadSum` | the reads of it, in `Match` and in `GetMatchLength` |
| `ReadBeyondEnd` | `RangeCheck` of a token that does not exist |
| `BuildAST` | `ParseSql`, `NodeBuilder` |
| `Dispatch` | `Work`, `RootIdentityWork`: who may do what; a SELECT's answer is `Selection`'s |
| `InsertRow`, `InsertNothing`, `ThrowInJointParamRow` | `InsertIntoTable`, `JointParamRow`, `InitValue`: a value is converted when its column is known |
| `MissColumn`, `ThrowInCompare` | `ExecuteSelect`: a column the table does not have; a compare value that is not of its column's type |
| `said`, `disturbed` (history) | the tree the user meant; whether another worker changed a length between its match and its last use |

A step of a worker is a check or a read of a `match_length`; nothing else is shared.

## 3. The runs

| Run | Question | Bounds | States |
|---|---|---|---|
| `own_files` | With a file per thread: does each release find its block, does each see the last change, is all that was released in the file, across crashes and restarts, waits and garbage? | 2 threads, 2 slots, 2 blocks per file (one stored, one to create), one change per block | 1,447,456 |
| `shared_file` | In one file, with a pool that runs out: is a slot ever given twice, do writers exclude others? | 3 threads, 2 slots, 3 blocks | 184,478 |
| `calls_return` | With a file per thread and slots enough: do calls return, does everything come back? | 2 threads, 4 slots | 3,393 |
| `hang` | The same for a shared file | violation | |
| `one_at_a_time` | Is the column store a table? | 2 clients, 2 columns, 5 rows, 2 values per block: 3 blocks per column | 1,132 |
| `workers` | Two workers at once, strings of two lengths, one crash: what survives? | 2 workers, 4 rows, 1 crash | 448,000 |
| `wide_column` | The same with a wide column | violation | |
| `selections` | Is the answer the selection? | 2 columns, 4 rows from 3, blocks of 2, 3 select lists with 21 WHERE clauses | 89,459 |
| `statements` | Is what is executed what was written? Does every parse end? | 2 workers (a user's, a root's), one statement each: 11 legal ones, 7 others, 3 things behind them | 398,848 |
| `catalog` | Is the catalog a directory? | 2 sessions, 3 CREATE TABLEs of 3 definitions, 1 crash | 86,302 |
| `clients` | Do statements and answers go where they should, is what was created there? | 2 programs (one with 2 clients), 3 logins, 1 statement each, 1 kill or restart, which may hit the installation | 1,329,843 |
| `two_programs` | The same with equal queue ids | violation | |

**Why the bounds are enough.** Two threads reach every pair of steps of the code,
and no handler refers to more than one other thread; a third fills the pool of
`shared_file` while the other two meet at one block. Threads and blocks of that run are
symmetric (it checks invariants only). Two slots are
the fewest with which one block can leave a slot while another one enters; four are
two per thread, the most a caller holds, so that nobody waits. Five rows in blocks of
two make a chain of three blocks: first, middle, last. A header block of eight holds
two tables, so three creations link a block, and the definition that fits none
fails. Two queue ids and two clients per program reach every way in which queue ids, places
and sessions can be shared. The statements of `statements` have each pattern with its
optional elements absent, once and twice, each exception, a column and a compare value that do not
fit the table, and each slip a pattern lets pass; as two parses only meet in the length of a range, one statement per
worker lets each length be changed at each place.

**Where deadlock is not checked:** `shared_file` (`"undefined"`, and waits nobody ends), `workers`, `catalog`
(`"hung"`, `"undefined"`, sessions that need not begin a statement once the bound is
reached), `selections` and `statements` (`"ended"`, `"undefined"`), `clients` and `two_programs` (`"broken"`; users
need not type). In the others a deadlock would be an error of the model or of the code.

**What each property is there for.**

- `ReleaseFindsItsBlock`, `CoherentView`, `DurableBlocks`, `FlushedNeverLost` (`own_files`):
  a release looks its slot up again by name, a creator holds an address that no file has
  yet, and a slot's bytes are those of its last block until a load replaces them. They hold of each
  server until it is `Astray`. A file per thread means that no block is loaded twice and no two threads
  create in one file: what sharing does is `shared_file` and `hang`.
- `OneBlockPerSlot`, `MutualExclusion` (`shared_file`): a slot is not marked when it is found,
  threads that waited do not search the table again and load a block twice, and
  the release of one of two copies erases the entry of the other. Slots stay apart even so, and holders
  exclude each other, by block as long as nobody had to wait, by slot always. After the first
  hit of a loaded block no thread completes a call any more, so the run covers shared use up
  to that point only (`hang`).
- `NoSlotLeak`, `CallReturns`, `EverythingReleased` (`calls_return`): count and flag of a
  slot are kept apart and set in different places.
- `RecordsWhole`, `IsTable`, `StatementsEnd` (`one_at_a_time`): equally long values
  are the region in which joining by position is right.
- `BlocksFit`, `BlocksOfOneColumnUntilCrash`, `NoValueLost`, `ScansComplete` (`workers`):
  what is left of the table when workers overlap. Rows are not kept whole: two INSERTs can
  write different columns in different orders, a SELECT between two columns of an INSERT
  sees positions shift, and a crash in mid-row shifts them for good. No property claims
  otherwise.
- `AnswerIsSelection`, `RowsOfTheTable` (`selections`): the answer against SQL's reading of the
  numbers as they are written. It is stated for statements the code can get right: no column compared
  twice, AND only, and fractions behind `>` only, where cutting them changes nothing (`c < 1.5` is
  answered as `c < 1`). The run has the others too; that rows are at least rows of the table, each
  once, is checked for all.
- `CachesAgree`, `ColumnsOwnBlocks`, `CreatedIsFound`, `IsDirectory`, `CreatesEnd`
  (`catalog`): each session works on its own, possibly old, list.
- `OwnDatabaseIfExclusive`, `AnswersOwn`, `Served`, `AllAnswered`
  (`clients`): they speak of clients whose queue id and place nobody else has used
  (`Exclusive`), whatever the others do. The run includes clients that do share, so the
  premise does work; `two_programs` shows that it is needed.
- `HeldUpByDead` (`clients`): the connector takes a call, then waits for its login and hears
  nobody else. That this ends, whoever shares a queue id and whatever a restart left in the
  queues, unless a client died between the two, is a fact about all messages together.
- `CreatedIsThere` (`clients`): an installation or a CREATE DATABASE that was cut short, and
  one that is done twice because its name was missed, do not show up as success.
- `VerdictIsGrammar` (`statements`): the matcher against the language of its patterns, given as
  the places where a sentence may end, for all statements of the run and with other workers about.
  `TreeIsStatement`, `RowIsStatement` compare trees and rows with what the user meant;
  `CarefulIsSafe` says which statements can end the server from their text to their tree, in an
  INSERT's making of the row, and in a SELECT's check of its columns and comparison of its values.
  What can end it later has nothing to do with how a statement is written and is in the other modules:
  the lost mutex (`hang`), a full cache (`GiveUp`), blocks a crash left (`Astray`,
  `ReadBeyondEnd`, `ReadGarbage`). `ParseEnds` is that no length makes a loop stand still.

**Fairness.** `LockWatcher`: strong fairness of each thread's step inside a call and
of its release. Strong, because `slots_map_mutex` and the slots' mutexes are taken and given
again and again by others; that a mutex starves no thread is what the platform's
`std::mutex` gives in practice, and callers do release what they loaded (`operator.h`
has no path that keeps a block). Wakeups without cause, new calls and crashes are
not fair. `ColumnStore`, `Catalog`: weak fairness of each worker's next step; a block
is free again after a visit. `Sessions`: weak fairness of each thread and of a client program
while it waits to be connected or answered; nothing makes users type, programs end, or servers
start. `Parser`: weak fairness of each worker, which has a step to take until its statement is done.

## 4. Findings

Each is a run that TLC finds violated, with the line it contradicts quoted
in `PROJECT.json`.

- **`hang`**: a load that finds its block loaded returns without unlocking
  `slots_map_mutex` (`storage/memory/lock_watcher.cpp:51-61`, and alike in the three
  other loads). From then on no thread completes a call.
- **`wide_column`**: a block keeps its newest value first, positions are counted block
  by block, so columns that need a second block at different rows are joined out of step. This is
  the very table of `dbms_design.md:121`.
- **`two_programs`**: every client program starts with the same queue id
  (`client/client.h:167`): two programs at once take each other's statements.

Met while modelling, visible in the models, without a run of their own:

- `ast.h:158` and `sql_pattern.h:311` have conditions joined by AND or OR, but what joins them is
  read by nobody: the optimizer filters each column on its own and joins the columns
  (`optimizer.h:246`), so OR is answered as AND;
- the link to a new block is flushed before the block (`operator.h:1343`, `:1412`): after a
  crash in between, a column's chain leads into another column's block, a statement that follows it
  gets whatever its slot held before (`block_file_management.h:216`), or a database's
  tables can no longer be read;
- a header block's free space leaves out `tables_begin_address`
  (`table_block.h:84`): a nearly full block overwrites its own last descriptor;
- CREATE TABLE does not look for the name, though `dbms_design.md:104` has it do so;
- of several conditions on one column only the first is used (`optimizer.h:314`);
- a compare value loses what stands behind its point where the column is INT (`value.h:133`): `c < 1.5`
  does not find 1, `c = 1.5` does;
- `WHERE c != v`, a condition value that is no number, a column that does not exist,
  a column of type VECTOR or of any other keyword, fewer values than columns, and anything in memory
  behind the semicolon of a SELECT end the server (`ast.h:352`, `optimizer.h:260`, `:82`,
  `value.h:376`, `operator.h:336`, `worker.h:232`);
- a legal statement is refused because another worker's: a `SELECT * ...` loses the length of
  its `*` to a `SELECT FROM t;` that fails at the same place (`sql_pattern.h:132`); a text
  without its semicolon, or such a race, makes the matcher read behind the tokens (`:127`);
- what follows a complete statement is ignored, but for SELECT;
- a call that waited for a slot loads a second copy of a block that was loaded meanwhile
  (`lock_watcher.cpp:65`);
- a crash between the install path and base_db leaves a server that takes itself for installed and
  never serves (`operator.h:121`);
- a database whose name the lookup misses is refused to its users, or created over itself
  (`value.h:331`);
- a client that connects again from the same place is told so but has no worker
  that listens to it (`connector.h:90`);
- the header line of an answer names the compared columns too, its rows do not carry them.

Seen, without an effect on what is modelled: `ast.h:339` keeps the address of a condition that lives in
the block around it, and `:262` moves out of it later (into `operation_vector`, which nobody
reads; the tree's conditions are not touched); `connector.h:243-245` and `:262-264` make strings
of a host and a database name without an end mark, so that what lies behind them in memory belongs
to them (the models take names as they were sent).

## 5. What is proved

All theorems hold for every value of the constants that the modules' named
assumptions allow (any numbers of threads, clients, blocks, statements and
crashes). Further hypotheses are in the theorem, as `ASSUME`, and named below. Every
inductive invariant was checked with TLC before it was proved.

| Theorem | States | Under |
|---|---|---|
| `LockWatcherProofs!TypeCorrect`, `SlotsNotShared` | `[]TypeOK`, `[]OneBlockPerSlot` | |
| `LockWatcherProofs!SlotsExclusive` | `[]SlotExclusion`: two holders of one slot both read | |
| `LockWatcherProofs!Exclusive` | `[]MutualExclusion` | `OneCreator` |
| `LockWatcherProofs!ReleasesFind`, `Coherent`, `Durable`, `NeverLost` | `[]ReleaseFindsItsBlock`, `[]CoherentView`, `[]DurableBlocks`, `FlushedNeverLost` | `PrivateFiles` |
| `LockWatcherProofs!NothingLeaks` | `[]NoSlotLeak` | `PrivateFiles`, `CleanSlots` |
| `ColumnStoreProofs!StoreTypeCorrect`, `ValuesFit` | `[]TypeOK`, `[]BlocksFit` | |
| `ColumnStoreProofs!ValuesKept`, `ColumnsApart`, `ScansGetAll` | `[]NoValueLost`, `[]BlocksOfOneColumnUntilCrash`, `[]ScansComplete` | |
| `ColumnStoreProofs!RecordsStayWhole` | `[]RecordsWhole` | `OneAtATime` |
| `ColumnStoreProofs!TableImplemented` | `IsTable`: `ColumnStore` implements `Table` | `OneAtATime` |
| `CatalogProofs!CatalogTypeCorrect`, `CachesCorrect`, `CreatedFound`, `ColumnsCorrect` | `[]TypeOK`, `[]CachesAgree`, `[]CreatedIsFound`, `[]ColumnsOwnBlocks` | |
| `CatalogProofs!DirectoryImplemented` | `IsDirectory`: `Catalog` implements `Directory` | |
| `SessionsProofs!SessionsTypeCorrect`, `StatementsStayHome`, `ConnectedServed`, `OwnAnswers`, `OnlyDeadHoldUp` | `[]TypeOK`, `[]OwnDatabaseIfExclusive`, `[]Served`, `[]AnswersOwn`, `[]HeldUpByDead` | |
| `SessionsProofs!CreatedKept` | `[]CreatedIsThere` | `BaseDb \notin Db` |
| `SelectionProofs!SelectionTypeCorrect`, `AnswersOfTheTable`, `AnswersSelected` | `[]TypeOK`, `[]RowsOfTheTable`, `[]AnswerIsSelection` | |
| `ParserProofs!ParserTypeCorrect`, `RowsAreStatements`, `VerdictsCorrect` | `[]TypeOK`, `[]RowIsStatement`, `[]VerdictIsGrammar` | |
| `ParserProofs!TreesAreStatements`, `CarefulStatementsAreSafe` | `[]TreeIsStatement`, `[]CarefulIsSafe` | |

In each module there is one lemma per action (or per group of actions that move the
same state), with one step per conjunct it can disturb; a `...Next` lemma combines
them, and the theorem adds the initial state and the temporal step.

**The block cache.** `OneBlockPerSlot` is not inductive. A slot that `GetFreeSlot` found is
not marked until it is locked, in a later step; in between another thread could
be given the same slot. What prevents it is that the thread keeps `slots_map_mutex`
between the two. So `LockWatcherProofs` strengthens it to

    CacheInv == TypeOK /\ Locking /\ OneBlockPerSlot /\ Stopped

`Locking`: a thread between search and lock owns `map_mutex`, and one that came from a search
has a free target slot, so at most one thread is there. `OneBlockPerSlot` includes that
a mapped slot is marked in use, so a slot that a search offers is no block's home, and
a release that frees a slot also erases its entry. `Stopped`: a process that
is down or just started has an empty table.

A second part adds the holders, for any use of files:

    HolderInv == CacheInv /\ Locks /\ OneHolderPerSlot /\ MappedIsHeld /\ HeldApart
                   /\ LoadsAlone /\ CreatesApart /\ NoHolders

`Locks` says that who holds a block has the lock of its slot, always. The others say
more, but only until a call returns with `slots_map_mutex` locked (`Stuck`, finding `hang`): up to there a
slot has one holder, a mapped block is held where the table says, and new blocks have
addresses apart. After that nobody enters a call any more, and what `Locks` says
suffices. Exclusion by block needs `OneCreator`: in no file do two threads create blocks.
TLC has a counterexample with two creators: both get the same address, before the file
grows. `ExclusionInv` adds `EnoughSpace`: as long as nobody had to wait, a held block
is where the table says (one that waited loads a second copy).

The third part is about `PrivateFiles`, each file with one thread, as when no
two clients use one database:

    OwnFilesInv == HolderInv /\ OwnWork /\ NeverStuck /\ Placed /\ NewAtEnd
                     /\ NothingBehind /\ DiskNotAhead /\ CoherentView /\ DurableBlocks

Then no load hits (`NeverStuck`), every held block is where the table says (`Placed`), and a new block is
the one behind the end of its file, from the choice of its address to its release. A load behind the end
of a file makes a server `Astray`, and what the properties say ends there; the
invariant covers such servers too, as nothing else changes in them, and the files that `CrashAstray`
leaves meet it again: bytes that are in a file are the ones that a new server starts from. `NothingLeaks` also
assumes that the fields of the slots, which no constructor sets, start as
zeros: the code does not see to it, fresh memory does.

**Rows.** `Blocks(c)` follows links by a recursive function. Nothing about such a
function holds before it is shown to exist; that takes induction, which
`Induction` states with a set in place of a predicate, so that it can be used without a
parameter. From it `ColumnStoreProofs` shows once that `Blocks(c)` is the least set that has
the column's first block and is closed under links (`BlocksChain`), and everything later
is shown by giving a closed set. `StoreInv` adds to `TypeOK` that links lead
forward in the file and that a block that is being filled is at its end. `KeptInv`: a
statement is at a block of its column, and what was written to a column is in its chain.
`ApartInv`: without crashes two chains share at most the address behind the
file's end, and a chain leads there only while an INSERT is about to fill that block. `ScanInv`:
INSERTs at work have different rows; a column's blocks have what was written, each value
once; a SELECT has read values only of blocks before the one it is at, and what it still
has to find is in that one or later.

**The table.** The second half of `ColumnStoreProofs` is about `OneAtATime`: `Alone`, no crashes, and the values of one row
equally long in all columns (from row to row they may differ). Each hypothesis is needed:
TLC has records put together from two rows with overlapping INSERTs and with a crash between two
columns, and run `wide_column` shows what longer values in one column do. `RecordsWhole` is far
from inductive, as it speaks of answers only. `Layout` says why the answers
come out whole: there are a sequence of pages, the same for every column, and addresses for
them, of which no two are equal; each column has these pages at its own addresses, in
this order, except that the INSERT under way is ahead (`More`) in the columns before the one it is at.
It holds for equally long values because then every column finds its last block full at the
same row. A SELECT under way has of each column what is read up to a page (`IsRead`), the whole of it
in the columns before; so the lists it joins in the end are equal. `TableInv` adds that the columns
have the same rows written (`AllWritten`). In the refinement an INSERT adds its
record in the step that writes its last column. That a SELECT gets exactly the complete rows, each
once, comes from `ScanInv`: the list of the last column is distinct and has what is written.

**The catalog.** `HeaderInv`: the header blocks are one chain in the file's order, and one session
at most fills a new one. `CacheInv`: a session that loads has the tables of the first
n blocks (`Gathered`, again shown to exist), so each cache is a prefix of the list of
tables. `OwnerInv`: tables, finished or being created, have first blocks of their own in
their file. In the refinement, a new table changes what a name means only if the
name had no meaning (`Meanings`, `FirstIsDefault`), as `GetTable` finds the oldest first.

**Sessions.** `TypeInv` types every queue by message type. `OriginInv`: each message, session
and job comes from a client that was built with its queue id. `ConnectedInv`: who was told it is
connected has a session, until a restart. `CreatedInv`: a database somebody was or will be told of is
named, complete, and not about to be created, unless twice; that needs that users do not name a database `base_db`.
`MailInv` is the argument for `AnswersOwn`: counting, for a queue id, the statements on their way, the workers
and the base-db thread that have one, and the answers, there is at most one for a client that
shares its id with nobody, none unless it waits, and it is about that client's newest statement.
`PairedInv` is the one for `HeldUpByDead`: for each queue id, calls that wait or were taken are no more than
logins that wait or are still owed.

**Selections.** Filters are `Sifted(list, set)` of `Lists`, a recursive function: `Induction` proves
once that its result has the elements that lie in the set, in the order of the list. With it, what is loaded of a column is
exactly the positions that pass its condition, in order (`IsLoaded`), and the join of the first n columns the
positions that pass in all of them (`IsJoin`). Two rising lists of positions with the same members are
equal (`RisingUnique`), so the answer is the selection itself, and not only has its rows. This
needs that columns are equally long and that a statement compares no column twice, as in
the property. The property reads values as they are written and ANDs and ORs as SQL has them;
`MeetsHolds` shows that the cut value decides alike behind `>`, and for the others if there is nothing to cut.

**Statements.** `TypeOK` of `Parser` is not inductive: that an offset stays within the tokens (plus one)
takes that a certain part matches tokens only, and that a length that another worker left in a
range is 1 or 2. `Typed` adds this. `RowIsStatement` compares a row with what the user meant, so it needs that the
tokens are still those of his statement (`Meant`), that a pattern that got beyond its first element has
found that element's words at the beginning (`BeganAt`), and that the tree was built for the pattern found
(`Built`). First words tell the kinds of statements apart (`BeginningsTell`), so an INSERT that is executed is one
that was meant, in spite of all that other workers do to the lengths. That its tree is the
one meant (`ExecutedInsert`) rests on how statements are written: where each list lies among the tokens
(`SeparatedSpread`, `InsertLies`), and that reading a list back gives what was written (`ItemsAre`).

`VerdictIsGrammar` is about a matcher that takes what it can and never goes back, against a grammar
that lets an optional element match any number of times. `SentenceEnds` is shown to be what its
recursion says (`EndsAtIs`), by a rank that falls with each element left and each token taken. Then `Sound`: where an
undisturbed worker stands, no pattern before its own has a sentence, and its pattern
has one exactly if the elements from its own on have one behind its offset. Such a step is right because in these
patterns an element that can match must not be left out: what may follow it begins with another token
(`Greedy`). The lengths it reads are
those it found, as long as it is not `disturbed` (`SameUnread`).

`TreeIsStatement` and `CarefulIsSafe` need all of that and two facts about every legal statement. One
is what the constructors read back from its tokens (`BuiltIs`): the tree meant, or an exception, which a
careful user gets only from a SELECT with something behind it. That the execution of a SELECT does
not end the server takes `TreeIsStatement` itself: the columns and values that are looked at are those
the user wrote, and so of the table and of its types (`SelectHarmless`). For a SELECT it goes through the loop over
conditions, again shown to exist first: where each condition lies among the tokens (`SelectPlaces`), and that the loop
comes from each one to the next (`RestStep`). The other is that its pattern derives it (`LegalDerives`): a
way through the pattern, element by element (`OnWay`), with the lists by induction (`WayAlong`). So an
undisturbed worker that found no pattern for it has no tokens, because of a quote behind the
statement. A read beyond the tokens needs that an undisturbed worker at a range has looked at one or
two tokens behind those taken, and at no semicolon yet (`SeenSoFar`, `Clear`); and the values of an
INSERT run out only where it has more columns than values (`MoreColumns`).

## 6. Limits

*Only model-checked:*

- liveness: `CallReturns`, `EverythingReleased`, `StatementsEnd`, `CreatesEnd`, `AllAnswered`, `ParseEnds`.
  Fairness and `ENABLED` are out of the prover's reach. Every other property that a passing run
  checks is a theorem.

*Abstracted:* bytes of blocks, descriptors, values and messages (versions, lengths
and records instead); lengths of messages; characters of statements (words instead); wording and
layout of answers; FLOAT and VCHAR comparison in conditions (the VCHAR branch runs `strcmp` over
bytes without an end mark; `Sessions` models what that does to database names);
queues are unbounded, as no run fills one; what a server does that is `Astray`, but for what it leaves
in its files.

*Not modelled, and why:* the pattern of DELETE (its node type does not exist, so it does not
compile); the log manager, its replacer and the record-log functions of `operator.h` (dead code:
nothing calls them, and their static members have no definition); paths and configuration
(strings, constants; that the path is written and read is in `Sessions`); the vector
distances (floating-point arithmetic nothing calls); index, resolver, plan and executer stubs (no
behaviour); `database_manager.h` (not included by the program); DROP DATABASE
(`DropDB` has no caller); OR over values and rows (`SameColOrOp` and the `DifferentColOrOP` functions have no caller).

## 7. State of the project

All models and runs above are done, and all safety properties of `LockWatcher`, `Sessions`, `Catalog`,
`ColumnStore`, `Selection` and `Parser` are proved, with the refinements of `Directory` and `Table`. What the
prover cannot reach is in section 6.
