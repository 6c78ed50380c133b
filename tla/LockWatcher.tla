----------------------------- MODULE LockWatcher -----------------------------
(***************************************************************************)
(* The block cache of tiny-dbms: LockWatcher (the table of loaded blocks), *)
(* BufferPool (the slots they are loaded into), Replacer and the block     *)
(* files below them, as the worker, base-db and connector threads of one   *)
(* server drive them.                                                      *)
(*                                                                         *)
(* Every operation of LockWatcher is one critical section of               *)
(* slots_map_mutex, so an action is a whole critical section, cut where    *)
(* the code can block inside it: at a slot's read_or_write_mutex, and in   *)
(* BufferPool::WaitForSpace. The TableBlock and the DataBlock overloads    *)
(* run the same code and share the actions.                                *)
(*                                                                         *)
(* The bytes of a block are a number: 0 for a cleared block, then one more *)
(* for each change a writer makes.                                         *)
(***************************************************************************)
EXTENDS Integers

CONSTANTS
  Thread,          \* threads that call the one LockWatcher of the server
  NoThread,        \* "no owner" of a mutex
  File,            \* data and header files
  Work,            \* Work[t]: the files thread t works on
  Creates,         \* the files in which blocks are created
  SlotAmount,      \* number of slots in the pool (SLOT_AMOUNT)
  MaxFailTimes,    \* MAX_FAIL_TIMES
  GarbageInUse,    \* values an uninitialised in_use flag may have
  GarbageUsers,    \* values an uninitialised user_amount may have
  GarbageFailures, \* values an uninitialised no_space_failure_times may have
  StoredBlocks,    \* blocks each file has at first
  MaxBlock,        \* bound: blocks per file
  MaxVersion       \* bound: changes made to one block

ASSUME ThreadAssumption == NoThread \notin Thread

ASSUME WorkAssumption ==
  /\ File # {}
  /\ Work \in [Thread -> SUBSET File]
  /\ Creates \subseteq File

ASSUME BoundAssumption ==
  /\ SlotAmount \in Nat
  /\ MaxFailTimes \in Nat
  /\ MaxBlock \in Nat \ {0}
  /\ StoredBlocks \in 1 .. MaxBlock
  /\ MaxVersion \in Nat

ASSUME GarbageAssumption ==
  /\ GarbageInUse \subseteq BOOLEAN
  /\ GarbageUsers \subseteq Int
  /\ GarbageFailures \subseteq Int

Slot == 1 .. SlotAmount
NoSlot == 0
Sign == [file : File, addr : 0 .. MaxBlock - 1]

VARIABLES
  server,      \* "up", "down", "undefined" after an unlock by a non-owner,
               \* or "astray" after a load from behind the end of a file
  slots_map,   \* the slot each block is loaded in, or NoSlot
  map_mutex,   \* the thread inside (or stuck inside) slots_map_mutex
  in_use, user_amount,    \* the fields of each slot
  writer, readers,        \* holders of each slot's read_or_write_mutex
  mem,                    \* the bytes in each slot
  slots_read_list,        \* the replacer's slots (nothing reads their order)
  no_space_failure_times,
  pc,          \* where each thread stands in its LockWatcher call
  req,         \* the call: operation and block
  target,      \* the slot GetFreeSlot or the table returned to the call
  held,        \* the blocks a thread has loaded and not yet released
  disk, length,           \* bytes of each block, number of blocks per file
  dangling,    \* blocks their files link and do not have
  latest,      \* history: the bytes the last change of each block left
  space        \* history: whether slots were free for all calls

pool == <<in_use, user_amount, writer, readers, mem>>
files == <<disk, length, dangling>>
calls == <<pc, req, target>>
history == <<latest, space>>
vars == <<server, slots_map, map_mutex, pool, slots_read_list,
          no_space_failure_times, calls, held, files, history>>

Op == {"read", "write", "create"}
PC == {"idle", "enter", "lock_slot", "no_space", "wait", "woken"}
Block == [sign : Sign, slot : Slot, op : Op]

(***************************************************************************)
(* The type invariant: every variable of the cache has its type.           *)
(***************************************************************************)
TypeOK ==
  /\ server \in {"up", "down", "undefined", "astray"}
  /\ slots_map \in [Sign -> Slot \cup {NoSlot}]
  /\ map_mutex \in Thread \cup {NoThread}
  /\ in_use \in [Slot -> BOOLEAN]
  /\ user_amount \in [Slot -> Int]
  /\ writer \in [Slot -> Thread \cup {NoThread}]
  /\ readers \in [Slot -> SUBSET Thread]
  /\ mem \in [Slot -> Nat]
  /\ slots_read_list \in SUBSET Slot
  /\ no_space_failure_times \in Int
  /\ pc \in [Thread -> PC]
  /\ req \in [Thread -> [op : Op, sign : Sign]]
  /\ target \in [Thread -> Slot \cup {NoSlot}]
  /\ held \in [Thread -> SUBSET Block]
  /\ disk \in [Sign -> Nat]
  /\ length \in [File -> 0 .. MaxBlock]
  /\ dangling \in SUBSET Sign
  /\ latest \in [Sign -> Nat]
  /\ space \in {"enough", "ran_out"}

-----------------------------------------------------------------------------
(* A process that is not running; every file holds blocks already, as      *)
(* CREATE TABLE leaves a block per column.                                 *)
AnyRequest == [op |-> "read", sign |-> CHOOSE s \in Sign : TRUE]

Init ==
  /\ server = "down"
  /\ slots_map = [s \in Sign |-> NoSlot]
  /\ map_mutex = NoThread
  /\ in_use = [s \in Slot |-> FALSE]
  /\ user_amount = [s \in Slot |-> 0]
  /\ writer = [s \in Slot |-> NoThread]
  /\ readers = [s \in Slot |-> {}]
  /\ mem = [s \in Slot |-> 0]
  /\ slots_read_list = {}
  /\ no_space_failure_times = 0
  /\ pc = [t \in Thread |-> "idle"]
  /\ req = [t \in Thread |-> AnyRequest]
  /\ target = [t \in Thread |-> NoSlot]
  /\ held = [t \in Thread |-> {}]
  /\ disk = [s \in Sign |-> 0]
  /\ length = [f \in File |-> StoredBlocks]
  /\ dangling = {}
  /\ latest = [s \in Sign |-> 0]
  /\ space = "enough"

(* LockWatcher is built: the constructors leave in_use, user_amount and    *)
(* no_space_failure_times uninitialised.                                   *)
Start ==
  /\ server = "down"
  /\ server' = "up"
  /\ in_use' \in [Slot -> GarbageInUse]
  /\ user_amount' \in [Slot -> GarbageUsers]
  /\ no_space_failure_times' \in GarbageFailures
  /\ UNCHANGED <<slots_map, map_mutex, writer, readers, mem, slots_read_list,
                 calls, held, files, history>>

(* The process ends: what is not in a file is gone.                        *)
Stop ==
  /\ server' = "down"
  /\ slots_map' = [s \in Sign |-> NoSlot]
  /\ map_mutex' = NoThread
  /\ in_use' = [s \in Slot |-> FALSE]
  /\ user_amount' = [s \in Slot |-> 0]
  /\ writer' = [s \in Slot |-> NoThread]
  /\ readers' = [s \in Slot |-> {}]
  /\ mem' = [s \in Slot |-> 0]
  /\ slots_read_list' = {}
  /\ no_space_failure_times' = 0
  /\ pc' = [t \in Thread |-> "idle"]
  /\ req' = [t \in Thread |-> AnyRequest]
  /\ target' = [t \in Thread |-> NoSlot]
  /\ held' = [t \in Thread |-> {}]
  /\ latest' = disk'
  /\ space' = "enough"

Exit == UNCHANGED files /\ Stop

Crash == server = "up" /\ Exit

(* A server that has gone astray takes the bytes of one block for another, *)
(* follows their links and writes them back where it likes. The model says *)
(* nothing of it but what it can leave behind: files no shorter, with any  *)
(* bytes and any links.                                                    *)
CrashAstray ==
  /\ server = "astray"
  /\ length' \in {l \in [File -> 1 .. MaxBlock] : \A f \in File : length[f] <= l[f]}
  /\ disk' \in {d \in [Sign -> 0 .. MaxVersion] :
                \A s \in Sign : s.addr >= length'[s.file] => d[s] = 0}
  /\ dangling' = {s \in Sign : s.addr >= length'[s.file]}
  /\ Stop

-----------------------------------------------------------------------------
(* The callers' protocol, read off sql/executer/operator.h: a block is     *)
(* loaded with nothing held; a block is created with at most one block     *)
(* held, loaded for writing or itself new, and never two in one file.      *)
(* A statement follows the links of its file, which lead to blocks the     *)
(* file has, or to a new block whose creator has flushed the link and not  *)
(* yet the block, and may have died in between.                            *)
GetSign_NoFile(f, a) == [file |-> CHOOSE g \in File : TRUE, addr |-> a]
GetSign(f, a) == [file |-> f, addr |-> a]

Call(t, op, sign) ==
  /\ server = "up"
  /\ pc[t] = "idle"
  /\ pc' = [pc EXCEPT ![t] = "enter"]
  /\ req' = [req EXCEPT ![t] = [op |-> op, sign |-> sign]]
  /\ UNCHANGED <<server, slots_map, map_mutex, pool, slots_read_list,
                 no_space_failure_times, target, held, files, history>>

CallLoad(t) ==
  /\ held[t] = {}
  /\ \E op \in {"read", "write"}, f \in Work[t], a \in 0 .. MaxBlock - 1 :
       LET sign == GetSign(f, a)
       IN  /\ a < length[f] \/ sign \in dangling
           /\ Call(t, op, sign)

CallCreate(t) ==
  \E f \in Work[t] \cap Creates :
    /\ \A g, h \in held[t] : g = h
    /\ \A h \in held[t] : h.op = "write" \/ (h.op = "create" /\ h.sign.file # f)
    /\ length[f] < MaxBlock
    /\ Call(t, "create", GetSign(f, 0))

(* The address of the block after the last one written to the file.        *)
GetNewBlockAddress_LastBlock(f) == length[f] - 1
GetNewBlockAddress(f) == length[f]

(* CreateNewBlock asks for the address first, and keeps it while it waits. *)
Wanted(t) ==
  IF pc[t] = "enter" /\ req[t].op = "create"
  THEN GetSign(req[t].sign.file, GetNewBlockAddress(req[t].sign.file))
  ELSE req[t].sign

-----------------------------------------------------------------------------
(* BufferPool. GetFreeSlot scans the slots in order; it does not mark the  *)
(* slot it returns.                                                        *)
GetFreeSlot(s) == ~in_use[s] /\ \A r \in 1 .. s - 1 : in_use[r]

NoFreeSlot == \A s \in Slot : in_use[s]

(* Replacer::GetFreeSlots, asked by FreeSpace after a scan that failed.    *)
Freeable == {s \in slots_read_list : ~in_use[s]}

(* A call for a block that is loaded: the map's slot is locked with        *)
(* slots_map_mutex still held.                                             *)
Hit(t) ==
  /\ server = "up"
  /\ pc[t] = "enter"
  /\ req[t].op # "create"
  /\ map_mutex = NoThread
  /\ slots_map[req[t].sign] # NoSlot
  /\ map_mutex' = t
  /\ target' = [target EXCEPT ![t] = slots_map[req[t].sign]]
  /\ pc' = [pc EXCEPT ![t] = "lock_slot"]
  /\ UNCHANGED <<server, slots_map, pool, slots_read_list,
                 no_space_failure_times, req, held, files, history>>

(* The table is looked up on entry, and not again after a wait.            *)
WantsSlot(t) ==
  /\ server = "up"
  /\ map_mutex = NoThread
  /\ \/ pc[t] = "enter" /\ req[t].op # "create" /\ slots_map[req[t].sign] = NoSlot
     \/ pc[t] = "enter" /\ req[t].op = "create"
     \/ pc[t] = "woken"
  /\ Wanted(t) \in Sign \* bound MaxBlock

FindSlot(t) ==
  /\ WantsSlot(t)
  /\ \E s \in Slot :
       /\ GetFreeSlot(s)
       /\ target' = [target EXCEPT ![t] = s]
       /\ slots_read_list' = slots_read_list \cup {s}
  /\ no_space_failure_times' = 0
  /\ map_mutex' = t
  /\ req' = [req EXCEPT ![t].sign = Wanted(t)]
  /\ pc' = [pc EXCEPT ![t] = "lock_slot"]
  /\ UNCHANGED <<server, slots_map, pool, held, files, history>>

(* No slot: FreeSpace wakes the waiters if it finds one free after all,    *)
(* and the call leaves slots_map_mutex to wait.                            *)
MissSpace(t) ==
  /\ WantsSlot(t)
  /\ NoFreeSlot
  /\ no_space_failure_times + 1 < MaxFailTimes
  /\ no_space_failure_times' = no_space_failure_times + 1
  /\ slots_read_list' = slots_read_list \ Freeable
  /\ space' = "ran_out"
  /\ req' = [req EXCEPT ![t].sign = Wanted(t)]
  /\ pc' = [u \in Thread |->
              IF u = t THEN "no_space"
              ELSE IF Freeable # {} /\ pc[u] = "wait" THEN "woken" ELSE pc[u]]
  /\ UNCHANGED <<server, slots_map, map_mutex, pool, target, held, files, latest>>

(* MAX_FAIL_TIMES failures in a row throw; no thread catches it.           *)
GiveUp(t) ==
  /\ WantsSlot(t)
  /\ NoFreeSlot
  /\ no_space_failure_times + 1 >= MaxFailTimes
  /\ Exit

WaitForSpace(t) ==
  /\ server = "up"
  /\ pc[t] = "no_space"
  /\ pc' = [pc EXCEPT ![t] = "wait"]
  /\ UNCHANGED <<server, slots_map, map_mutex, pool, slots_read_list,
                 no_space_failure_times, req, target, held, files, history>>

(* no_space_cv is waited for without a predicate: a wakeup of its own      *)
(* accord, which the library allows, ends the wait.                        *)
SpuriousWakeup(t) ==
  /\ server = "up"
  /\ pc[t] = "wait"
  /\ pc' = [pc EXCEPT ![t] = "woken"]
  /\ UNCHANGED <<server, slots_map, map_mutex, pool, slots_read_list,
                 no_space_failure_times, req, target, held, files, history>>

-----------------------------------------------------------------------------
(* The slot's shared_mutex is free for this kind of access.                *)
Lockable_IgnoreReaders(s, op) == writer[s] = NoThread

Lockable(s, op) ==
  /\ writer[s] = NoThread
  /\ op = "read" \/ readers[s] = {}

MarkInUse_Forgotten(s) == in_use

MarkInUse(s) == [in_use EXCEPT ![s] = TRUE]

(* A load for writing sets the count, the others add to what is there.     *)
AddUser(s, op) ==
  [user_amount EXCEPT ![s] = IF op = "write" THEN 1 ELSE @ + 1]

(* ReadFromFile checks nothing: from behind the end of the file it reads   *)
(* no bytes.                                                               *)
ReadsNothing(s, op, sign) ==
  slots_map[sign] # s /\ op # "create" /\ sign.addr >= length[sign.file]

(* What the slot holds once the block is in it: what it held before, if    *)
(* there was nothing to read.                                              *)
Loaded_NotCleared(s, op, sign) ==
  IF slots_map[sign] = s \/ op = "create" \/ ReadsNothing(s, op, sign)
  THEN mem[s] ELSE disk[sign]

Loaded(s, op, sign) ==
  IF slots_map[sign] = s \/ ReadsNothing(s, op, sign) THEN mem[s]
  ELSE IF op = "create" THEN 0 ELSE disk[sign]

(* A hit returns without unlocking slots_map_mutex.                        *)
MutexAfterLoad_Unlocked(t, s, sign) == NoThread
MutexAfterLoad_Kept(t, s, sign) == t

MutexAfterLoad(t, s, sign) == IF slots_map[sign] = s THEN t ELSE NoThread

LockSlot(t) ==
  LET s == target[t]
      op == req[t].op
      sign == req[t].sign
  IN  /\ server = "up"
      /\ pc[t] = "lock_slot"
      /\ Lockable(s, op)
      /\ server' = IF ReadsNothing(s, op, sign) THEN "astray" ELSE "up"
      /\ writer' = IF op = "read" THEN writer ELSE [writer EXCEPT ![s] = t]
      /\ readers' = IF op = "read" THEN [readers EXCEPT ![s] = @ \cup {t}] ELSE readers
      /\ in_use' = MarkInUse(s)
      /\ user_amount' = AddUser(s, op)
      /\ mem' = [mem EXCEPT ![s] = Loaded(s, op, sign)]
      /\ slots_map' = [slots_map EXCEPT ![sign] = s]
      /\ map_mutex' = MutexAfterLoad(t, s, sign)
      /\ held' = [held EXCEPT ![t] = @ \cup {[sign |-> sign, slot |-> s, op |-> op]}]
      /\ latest' = IF op = "create" THEN [latest EXCEPT ![sign] = 0] ELSE latest
      /\ pc' = [pc EXCEPT ![t] = "idle"]
      /\ req' = [req EXCEPT ![t] = AnyRequest]
      /\ target' = [target EXCEPT ![t] = NoSlot]
      /\ UNCHANGED <<slots_read_list, no_space_failure_times, files, space>>

(* A writer changes the bytes of its block in place (DataBlock::InsertData *)
(* and the like).                                                          *)
Modify(t) ==
  /\ server = "up"
  /\ pc[t] = "idle"
  /\ \E h \in held[t] :
       /\ h.op # "read"
       /\ latest[h.sign] < MaxVersion
       /\ mem' = [mem EXCEPT ![h.slot] = @ + 1]
       /\ latest' = [latest EXCEPT ![h.sign] = @ + 1]
  /\ UNCHANGED <<server, slots_map, map_mutex, in_use, user_amount, writer, readers,
                 slots_read_list, no_space_failure_times, calls, held, files, space>>

-----------------------------------------------------------------------------
(* Releases. Each enters slots_map_mutex and looks its block up again.     *)
Releases(t, h) ==
  /\ server = "up"
  /\ pc[t] = "idle"
  /\ map_mutex = NoThread
  /\ h \in held[t]
  /\ held' = [held EXCEPT ![t] = @ \ {h}]

Forget(sign) == [slots_map EXCEPT ![sign] = NoSlot]

ReleaseReadingBlock(t) ==
  \E h \in held[t] :
    LET s == slots_map[h.sign]
    IN  /\ Releases(t, h)
        /\ h.op = "read"
        /\ s # NoSlot
        /\ t \in readers[s]
        /\ user_amount' = [user_amount EXCEPT ![s] = @ - 1]
        /\ in_use' = [in_use EXCEPT ![s] = @ /\ user_amount[s] # 1]
        /\ slots_map' = Forget(h.sign)
        /\ readers' = [readers EXCEPT ![s] = @ \ {t}]
        /\ UNCHANGED <<server, map_mutex, writer, mem, slots_read_list,
                       no_space_failure_times, calls, files, history>>

(* WriteBackBlock: the bytes of a slot reach the block's place in its file *)
Flush_Nothing(sign, s) == disk

Flush(sign, s) == [disk EXCEPT ![sign] = mem[s]]

(* ... and the file ends no earlier than behind that block.                *)
LengthAfterFlush_TooFar(sign) ==
  [length EXCEPT ![sign.file] = IF sign.addr < @ THEN @ ELSE sign.addr + 2]

LengthAfterFlush(sign) ==
  [length EXCEPT ![sign.file] = IF sign.addr < @ THEN @ ELSE sign.addr + 1]

(* The block before a new one names it and is released first: its file     *)
(* gets the link to the new block before it gets the block.                *)
LinksAfterFlush(t, h) ==
  (dangling \ {h.sign})
    \cup {k.sign : k \in {b \in held[t] \ {h} :
                          b.op = "create" /\ b.sign.file = h.sign.file}}

(* BufferPool::ReleaseSlot                                                 *)
ReleaseSlot_CountOnly(s) ==
  /\ in_use' = in_use
  /\ user_amount' = [user_amount EXCEPT ![s] = 0]

ReleaseSlot(s) ==
  /\ in_use' = [in_use EXCEPT ![s] = FALSE]
  /\ user_amount' = [user_amount EXCEPT ![s] = 0]

ReleaseWritingBlock(t) ==
  \E h \in held[t] :
    LET s == slots_map[h.sign]
    IN  /\ Releases(t, h)
        /\ h.op # "read"
        /\ s # NoSlot
        /\ writer[s] = t
        /\ disk' = Flush(h.sign, s)
        /\ length' = LengthAfterFlush(h.sign)
        /\ dangling' = LinksAfterFlush(t, h)
        /\ ReleaseSlot(s)
        /\ slots_map' = Forget(h.sign)
        /\ writer' = [writer EXCEPT ![s] = NoThread]
        /\ UNCHANGED <<server, map_mutex, readers, mem, slots_read_list,
                       no_space_failure_times, calls, history>>

(* A block the table has lost: nothing is flushed, freed or unlocked.      *)
ReleaseLostBlock(t) ==
  \E h \in held[t] :
    /\ Releases(t, h)
    /\ slots_map[h.sign] = NoSlot
    /\ UNCHANGED <<server, slots_map, map_mutex, pool, slots_read_list,
                   no_space_failure_times, calls, files, history>>

(* The table leads to a slot another thread has locked: unlocking a        *)
(* shared_mutex one does not own is undefined behaviour, and the model     *)
(* says nothing of what follows.                                           *)
UnlockByNonOwner(t) ==
  \E h \in held[t] :
    LET s == slots_map[h.sign]
    IN  /\ Releases(t, h)
        /\ s # NoSlot
        /\ IF h.op = "read" THEN t \notin readers[s] ELSE writer[s] # t
        /\ server' = "undefined"
        /\ UNCHANGED <<slots_map, map_mutex, pool, slots_read_list,
                       no_space_failure_times, calls, files, history>>

-----------------------------------------------------------------------------
(* The steps of a thread inside LockWatcher, and those that end a call.    *)
CallStep(t) == Hit(t) \/ FindSlot(t) \/ MissSpace(t) \/ GiveUp(t)
               \/ WaitForSpace(t) \/ LockSlot(t)

Release(t) == ReleaseReadingBlock(t) \/ ReleaseWritingBlock(t)
              \/ ReleaseLostBlock(t) \/ UnlockByNonOwner(t)

Next ==
  \/ \E t \in Thread : \/ CallLoad(t)
                       \/ CallCreate(t)
                       \/ Hit(t)
                       \/ FindSlot(t)
                       \/ MissSpace(t)
                       \/ GiveUp(t)
                       \/ WaitForSpace(t)
                       \/ SpuriousWakeup(t)
                       \/ LockSlot(t)
                       \/ Modify(t)
                       \/ ReleaseReadingBlock(t)
                       \/ ReleaseWritingBlock(t)
                       \/ ReleaseLostBlock(t)
                       \/ UnlockByNonOwner(t)
  \/ Start
  \/ Crash
  \/ CrashAstray

Spec == Init /\ [][Next]_vars

(* A thread that can go on does, its caller gives back what it loaded, and *)
(* slots_map_mutex, when it is free again and again, is granted to each in *)
(* the end (strong fairness). Nothing makes a spurious wakeup, a new call  *)
(* or a crash happen.                                                      *)
Fairness ==
  \A t \in Thread : SF_vars(CallStep(t)) /\ SF_vars(Release(t))

FairSpec == Spec /\ Fairness

-----------------------------------------------------------------------------
(* Two threads never work on one file.                                     *)
PrivateFiles == \A t, u \in Thread : t # u => Work[t] \cap Work[u] = {}

(* No slot is the home of two loaded blocks, and the slot of a loaded      *)
(* block is never offered to another: GetFreeSlot hands a slot out before  *)
(* it is marked, readers release in any order, a wait is not followed by a *)
(* second lookup, and the first release erases the entry of all.           *)
OneBlockPerSlot ==
  \A s1 \in Sign :
    slots_map[s1] # NoSlot =>
      /\ in_use[slots_map[s1]]
      /\ \A s2 \in Sign : slots_map[s1] = slots_map[s2] => s1 = s2

(* INSERT and CREATE TABLE flush the link to a new block before the block, *)
(* so a process that dies in between leaves a link to nothing. A server    *)
(* that follows it later loads no bytes, goes on with those of another     *)
(* block, and may create the block it believes to hold. The properties     *)
(* below are about each server until it does that.                         *)
Astray == server = "astray"

(* What a thread holds, the table still leads to, under the lock the       *)
(* thread took: its release will find it, flush it and unlock its own.     *)
ReleaseFindsItsBlock ==
  ~Astray =>
    /\ server # "undefined"
    /\ \A t \in Thread : \A h \in held[t] :
         /\ slots_map[h.sign] = h.slot
         /\ IF h.op = "read" THEN t \in readers[h.slot] ELSE writer[h.slot] = t

(* A block a thread may change is in no other thread's hands, neither in   *)
(* its slot nor, as long as slots have been free for all calls, in a       *)
(* second copy. (A call that waited does not look again whether its block  *)
(* has been loaded meanwhile.)                                             *)
MutualExclusion ==
  ~Astray =>
    \A t, u \in Thread : \A h \in held[t], k \in held[u] :
      t # u /\ (h.slot = k.slot \/ (h.sign = k.sign /\ space = "enough")) =>
        h.op = "read" /\ k.op = "read"

(* Who holds a block sees the last change anyone made to it and that the   *)
(* last crash, if there was one after it, left over.                       *)
CoherentView ==
  ~Astray => \A t \in Thread : \A h \in held[t] : mem[h.slot] = latest[h.sign]

(* Once no writer holds a block, its file has the last change: nothing is  *)
(* left in a slot that is given away.                                      *)
DurableBlocks ==
  server \notin {"undefined", "astray"} =>
    \A sign \in Sign :
      \/ disk[sign] = latest[sign]
      \/ \E t \in Thread : \E h \in held[t] : h.sign = sign /\ h.op # "read"

(* A change that reached its file is never overwritten by an older state   *)
(* of the block or by another block, across crashes too.                   *)
FlushedNeverLost ==
  [][~Astray => \A sign \in Sign : disk[sign] <= disk'[sign]]_vars

(* A slot in use is in someone's hands: none leaks out of the pool.        *)
NoSlotLeak ==
  ~Astray =>
    \A s \in Slot : in_use[s] => \E t \in Thread : \E h \in held[t] : h.slot = s

(* Every call of LockWatcher returns, and every block is given back.       *)
CallReturns ==
  \A t \in Thread : pc[t] # "idle" ~> pc[t] = "idle" \/ Astray

EverythingReleased ==
  \A t \in Thread : held[t] # {} ~> held[t] = {} \/ Astray
=============================================================================
