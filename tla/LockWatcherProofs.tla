-------------------------- MODULE LockWatcherProofs --------------------------
(***************************************************************************)
(* Proofs about LockWatcher, for any number of threads, slots, files and   *)
(* blocks: about its table, about those who hold blocks, and about threads *)
(* that have their files to themselves.                                    *)
(***************************************************************************)
EXTENDS LockWatcher, TLAPS

(* The thread inside a call that is about to lock a slot owns              *)
(* slots_map_mutex, and the slot is the block's own or still unmarked.     *)
Locking ==
  \A t \in Thread :
    pc[t] = "lock_slot" =>
      /\ map_mutex = t
      /\ target[t] \in Slot
      /\ slots_map[req[t].sign] = target[t] \/ ~in_use[target[t]]

TableInv == TypeOK /\ Locking /\ OneBlockPerSlot

(* A process that is not running has no table and no calls.                *)
Stopped ==
  server = "down" =>
    /\ slots_map = [s \in Sign |-> NoSlot]
    /\ pc = [t \in Thread |-> "idle"]

(* The inductive strengthening of TypeOK and OneBlockPerSlot.              *)
CacheInv == TableInv /\ Stopped

-----------------------------------------------------------------------------
(* Some block exists, so a thread's idle request is one.                   *)
LEMMA AnyRequestType == AnyRequest \in [op : Op, sign : Sign]
<1>1. PICK f \in File : TRUE
  BY WorkAssumption
<1>2. [file |-> f, addr |-> 0] \in Sign
  BY BoundAssumption DEF Sign
<1>3. (CHOOSE s \in Sign : TRUE) \in Sign
  BY <1>2
<1> QED
  BY <1>3 DEF AnyRequest, Op

LEMMA SlotType == NoSlot \notin Slot /\ Slot \subseteq Nat
BY BoundAssumption DEF Slot, NoSlot

LEMMA TableInit == Init => TableInv
<1> SUFFICES ASSUME Init PROVE TableInv
  OBVIOUS
<1>1. TypeOK
  BY AnyRequestType, BoundAssumption DEF Init, TypeOK, PC
<1>2. Locking
  BY DEF Init, Locking
<1>3. OneBlockPerSlot
  BY DEF Init, OneBlockPerSlot
<1> QED
  BY <1>1, <1>2, <1>3 DEF TableInv

LEMMA TableCallLoad ==
  ASSUME TableInv, NEW t \in Thread, CallLoad(t)
  PROVE  TableInv'
<1> USE SlotType DEF TableInv
<1>1. PICK op \in {"read", "write"}, f \in Work[t], a \in 0 .. MaxBlock - 1 :
        Call(t, op, GetSign(f, a))
  BY DEF CallLoad
<1>2. GetSign(f, a) \in Sign /\ op \in Op
  BY WorkAssumption DEF GetSign, Sign, Op
<1>3. TypeOK'
  <2>1. req' \in [Thread -> [op : Op, sign : Sign]]
    BY <1>1, <1>2 DEF TypeOK, Call
  <2>2. pc' \in [Thread -> PC]
    BY <1>1 DEF TypeOK, Call, PC
  <2> QED
    BY <1>1, <2>1, <2>2 DEF TypeOK, Call, pool, files, history
<1>4. Locking'
  BY <1>1 DEF TypeOK, Locking, Call, pool, files, history
<1>5. OneBlockPerSlot'
  BY <1>1 DEF OneBlockPerSlot, Call, pool, files, history
<1> QED
  BY <1>3, <1>4, <1>5

LEMMA TableCallCreate ==
  ASSUME TableInv, NEW t \in Thread, CallCreate(t)
  PROVE  TableInv'
<1> USE SlotType DEF TableInv
<1>1. TypeOK'
  BY WorkAssumption, BoundAssumption
  DEF TypeOK, CallCreate, Call, GetSign, Sign, Op, PC, pool, files, history
<1>2. Locking'
  BY DEF TypeOK, Locking, OneBlockPerSlot, CallCreate, Call, GetSign, Sign, Op, PC, pool, files, history
<1>3. OneBlockPerSlot'
  BY DEF TypeOK, Locking, OneBlockPerSlot, CallCreate, Call, GetSign, Sign, Op, PC, pool, files, history
<1> QED
  BY <1>1, <1>2, <1>3

LEMMA TableHit ==
  ASSUME TableInv, NEW t \in Thread, Hit(t)
  PROVE  TableInv'
<1> USE SlotType DEF TableInv
<1>1. TypeOK'
  BY DEF TypeOK, Hit, Sign, Op, PC, pool, files, history
<1>2. Locking'
  <2>1. \A u \in Thread : u # t => pc[u] # "lock_slot"
    BY ThreadAssumption DEF Locking, Hit, pool, files, history
  <2> QED
    BY <2>1 DEF TypeOK, Hit, pool, files, history, Locking
<1>3. OneBlockPerSlot'
  BY DEF TypeOK, Locking, OneBlockPerSlot, Hit, Sign, Op, PC, pool, files, history
<1> QED
  BY <1>1, <1>2, <1>3

LEMMA TableFindSlot ==
  ASSUME TableInv, NEW t \in Thread, FindSlot(t)
  PROVE  TableInv'
<1> USE SlotType DEF TableInv
<1>1. TypeOK'
  BY DEF TypeOK, FindSlot, WantsSlot, GetFreeSlot, Sign, Op, PC, pool, files, history
<1>2. Locking'
  <2>1. \A u \in Thread : u # t => pc[u] # "lock_slot"
    BY ThreadAssumption DEF Locking, FindSlot, WantsSlot, GetFreeSlot, pool, files, history
  <2> QED
    BY <2>1 DEF TypeOK, FindSlot, WantsSlot, GetFreeSlot, pool, files, history, Locking
<1>3. OneBlockPerSlot'
  BY DEF TypeOK, Locking, OneBlockPerSlot, FindSlot, WantsSlot, GetFreeSlot, Sign, Op, PC, pool, files, history
<1> QED
  BY <1>1, <1>2, <1>3

LEMMA TableMissSpace ==
  ASSUME TableInv, NEW t \in Thread, MissSpace(t)
  PROVE  TableInv'
<1> USE SlotType DEF TableInv
<1>1. TypeOK'
  BY DEF TypeOK, MissSpace, WantsSlot, Sign, Op, PC, pool, files, history
<1>2. Locking'
  BY DEF TypeOK, Locking, OneBlockPerSlot, MissSpace, WantsSlot, Sign, Op, PC, pool, files, history
<1>3. OneBlockPerSlot'
  BY DEF TypeOK, Locking, OneBlockPerSlot, MissSpace, WantsSlot, Sign, Op, PC, pool, files, history
<1> QED
  BY <1>1, <1>2, <1>3

LEMMA TableWaitForSpace ==
  ASSUME TableInv, NEW t \in Thread, WaitForSpace(t)
  PROVE  TableInv'
<1> USE SlotType DEF TableInv
<1>1. TypeOK'
  BY DEF TypeOK, WaitForSpace, PC, pool, files, history
<1>2. Locking'
  BY DEF TypeOK, Locking, OneBlockPerSlot, WaitForSpace, PC, pool, files, history
<1>3. OneBlockPerSlot'
  BY DEF TypeOK, Locking, OneBlockPerSlot, WaitForSpace, PC, pool, files, history
<1> QED
  BY <1>1, <1>2, <1>3

LEMMA TableSpuriousWakeup ==
  ASSUME TableInv, NEW t \in Thread, SpuriousWakeup(t)
  PROVE  TableInv'
<1> USE SlotType DEF TableInv
<1>1. TypeOK'
  BY DEF TypeOK, SpuriousWakeup, PC, pool, files, history
<1>2. Locking'
  BY DEF TypeOK, Locking, OneBlockPerSlot, SpuriousWakeup, PC, pool, files, history
<1>3. OneBlockPerSlot'
  BY DEF TypeOK, Locking, OneBlockPerSlot, SpuriousWakeup, PC, pool, files, history
<1> QED
  BY <1>1, <1>2, <1>3

LEMMA TableLockSlot ==
  ASSUME TableInv, NEW t \in Thread, LockSlot(t)
  PROVE  TableInv'
<1> USE SlotType DEF TableInv
<1>1. TypeOK'
  <2> DEFINE s == target[t]
             op == req[t].op
             sign == req[t].sign
             block == [sign |-> sign, slot |-> s, op |-> op]
  <2>1. s \in Slot /\ op \in Op /\ sign \in Sign
    BY DEF Locking, LockSlot, TypeOK
  <2>2. block \in Block
    BY <2>1 DEF Block
  <2>3. held' \in [Thread -> SUBSET Block]
    BY <2>2 DEF LockSlot, TypeOK
  <2>4. mem' \in [Slot -> Nat] /\ latest' \in [Sign -> Nat]
    BY <2>1 DEF LockSlot, Loaded, ReadsNothing, TypeOK
  <2>5. /\ in_use' \in [Slot -> BOOLEAN]
        /\ user_amount' \in [Slot -> Int]
    <3>1. in_use' \in [Slot -> BOOLEAN]
      BY <2>1 DEF LockSlot, MarkInUse, TypeOK
    <3>2. user_amount[s] \in Int
      BY <2>1 DEF TypeOK
    <3>3. PICK n \in Int : n = IF op = "write" THEN 1 ELSE user_amount[s] + 1
      BY <3>2
    <3>4. user_amount' = [user_amount EXCEPT ![s] = n]
      BY <2>1, <3>3 DEF LockSlot, AddUser, TypeOK
    <3>5. user_amount' \in [Slot -> Int]
      BY <3>4 DEF TypeOK
    <3> QED
      BY <3>1, <3>5
  <2>6. /\ writer' \in [Slot -> Thread \cup {NoThread}]
        /\ readers' \in [Slot -> SUBSET Thread]
    BY <2>1 DEF LockSlot, TypeOK
  <2>7. /\ slots_map' \in [Sign -> Slot \cup {NoSlot}]
        /\ map_mutex' \in Thread \cup {NoThread}
        /\ server' \in {"up", "astray"}
    BY <2>1 DEF LockSlot, MutexAfterLoad, TypeOK
  <2>8. /\ pc' \in [Thread -> PC]
        /\ req' \in [Thread -> [op : Op, sign : Sign]]
        /\ target' \in [Thread -> Slot \cup {NoSlot}]
    BY AnyRequestType DEF LockSlot, TypeOK, PC
  <2> QED
    BY <2>3, <2>4, <2>5, <2>6, <2>7, <2>8 DEF LockSlot, TypeOK, files
<1>2. Locking'
  BY DEF TypeOK, Locking, OneBlockPerSlot, LockSlot, MarkInUse, MutexAfterLoad, Sign, Op, PC, pool, files, history
<1>3. OneBlockPerSlot'
  BY DEF TypeOK, Locking, OneBlockPerSlot, LockSlot, MarkInUse, MutexAfterLoad, Sign, Op, PC, pool, files, history
<1> QED
  BY <1>1, <1>2, <1>3

LEMMA TableModify ==
  ASSUME TableInv, NEW t \in Thread, Modify(t)
  PROVE  TableInv'
<1> USE SlotType DEF TableInv
<1>1. TypeOK'
  <2>1. PICK h \in held[t] : /\ mem' = [mem EXCEPT ![h.slot] = @ + 1]
                            /\ latest' = [latest EXCEPT ![h.sign] = @ + 1]
    BY DEF Modify
  <2>2. h.slot \in Slot /\ h.sign \in Sign
    BY DEF TypeOK, Block
  <2>3. mem[h.slot] \in Nat /\ latest[h.sign] \in Nat
    BY <2>2 DEF TypeOK
  <2>4. mem[h.slot] + 1 \in Nat /\ latest[h.sign] + 1 \in Nat
    BY <2>3
  <2>5. mem' \in [Slot -> Nat]
    BY <2>1, <2>4 DEF TypeOK
  <2>6. latest' \in [Sign -> Nat]
    BY <2>1, <2>4 DEF TypeOK
  <2> QED
    BY <2>5, <2>6 DEF TypeOK, Modify, calls, files, history
<1>2. Locking'
  BY DEF TypeOK, Locking, OneBlockPerSlot, Modify, PC, calls, files, history
<1>3. OneBlockPerSlot'
  BY DEF TypeOK, Locking, OneBlockPerSlot, Modify, PC, calls, files, history
<1> QED
  BY <1>1, <1>2, <1>3

LEMMA TableReleaseReadingBlock ==
  ASSUME TableInv, NEW t \in Thread, ReleaseReadingBlock(t)
  PROVE  TableInv'
<1> USE SlotType DEF TableInv
<1>1. TypeOK'
  <2>1. PICK h \in held[t] :
          LET s == slots_map[h.sign]
          IN  /\ Releases(t, h)
              /\ s # NoSlot
              /\ user_amount' = [user_amount EXCEPT ![s] = @ - 1]
              /\ in_use' = [in_use EXCEPT ![s] = @ /\ user_amount[s] # 1]
              /\ slots_map' = Forget(h.sign)
              /\ readers' = [readers EXCEPT ![s] = @ \ {t}]
    BY DEF ReleaseReadingBlock
  <2>2. h.sign \in Sign /\ slots_map[h.sign] \in Slot
    BY <2>1 DEF TypeOK, Block
  <2>3. in_use' \in [Slot -> BOOLEAN]
    <3>1. in_use \in [Slot -> BOOLEAN]
      BY DEF TypeOK
    <3>2. PICK b \in BOOLEAN : b = (in_use[slots_map[h.sign]]
                                    /\ user_amount[slots_map[h.sign]] # 1)
      OBVIOUS
    <3>3. in_use' = [in_use EXCEPT ![slots_map[h.sign]] = b]
      BY <2>1, <3>2, Zenon
    <3> QED
      BY <3>1, <3>3
  <2>4. user_amount' \in [Slot -> Int] /\ readers' \in [Slot -> SUBSET Thread]
    <3>1. user_amount[slots_map[h.sign]] \in Int
      BY <2>2 DEF TypeOK
    <3>2. PICK n \in Int : n = user_amount[slots_map[h.sign]] - 1
      BY <3>1
    <3>3. user_amount' = [user_amount EXCEPT ![slots_map[h.sign]] = n]
      BY <2>1, <3>2
    <3>4. user_amount' \in [Slot -> Int]
      BY <3>3 DEF TypeOK
    <3> QED
      BY <2>1, <2>2, <3>4 DEF TypeOK
  <2>5. slots_map' \in [Sign -> Slot \cup {NoSlot}] /\ held' \in [Thread -> SUBSET Block]
    BY <2>1, <2>2 DEF TypeOK, Forget, Releases
  <2> QED
    BY <2>3, <2>4, <2>5 DEF TypeOK, ReleaseReadingBlock, calls, files, history
<1>2. Locking'
  <2>1. \A u \in Thread : pc[u] # "lock_slot"
    BY ThreadAssumption DEF Locking, ReleaseReadingBlock, Releases
  <2> QED
    BY <2>1 DEF Locking, ReleaseReadingBlock, calls
<1>3. OneBlockPerSlot'
  BY DEF TypeOK, Locking, OneBlockPerSlot, ReleaseReadingBlock, Releases, Forget, Block, calls, files, history
<1> QED
  BY <1>1, <1>2, <1>3

LEMMA TableReleaseWritingBlock ==
  ASSUME TableInv, NEW t \in Thread, ReleaseWritingBlock(t)
  PROVE  TableInv'
<1> USE SlotType DEF TableInv
<1>1. TypeOK'
  <2>1. PICK h \in held[t] :
          LET s == slots_map[h.sign]
          IN  /\ Releases(t, h)
              /\ s # NoSlot
              /\ disk' = Flush(h.sign, s)
              /\ length' = LengthAfterFlush(h.sign)
              /\ dangling' = LinksAfterFlush(t, h)
              /\ ReleaseSlot(s)
              /\ slots_map' = Forget(h.sign)
              /\ writer' = [writer EXCEPT ![s] = NoThread]
    BY DEF ReleaseWritingBlock
  <2>2. h.sign \in Sign /\ slots_map[h.sign] \in Slot
    BY <2>1 DEF TypeOK, Block
  <2>3. h.sign.file \in File /\ h.sign.addr \in 0 .. MaxBlock - 1
    BY <2>2 DEF Sign
  <2>4. length' \in [File -> 0 .. MaxBlock]
    BY <2>1, <2>3, BoundAssumption DEF TypeOK, LengthAfterFlush
  <2>5. disk' \in [Sign -> Nat] /\ writer' \in [Slot -> Thread \cup {NoThread}]
    BY <2>1, <2>2 DEF TypeOK, Flush
  <2>6. in_use' \in [Slot -> BOOLEAN] /\ user_amount' \in [Slot -> Int]
    BY <2>1, <2>2 DEF TypeOK, ReleaseSlot
  <2>7. slots_map' \in [Sign -> Slot \cup {NoSlot}] /\ held' \in [Thread -> SUBSET Block]
    BY <2>1, <2>2 DEF TypeOK, Forget, Releases
  <2>8. dangling' \in SUBSET Sign
    <3>1. \A k \in held[t] : k.sign \in Sign
      BY DEF TypeOK, Block
    <3> QED
      BY <2>1, <3>1 DEF TypeOK, LinksAfterFlush
  <2> QED
    BY <2>4, <2>5, <2>6, <2>7, <2>8 DEF TypeOK, ReleaseWritingBlock, calls, history
<1>2. Locking'
  <2>1. \A u \in Thread : pc[u] # "lock_slot"
    BY ThreadAssumption DEF Locking, ReleaseWritingBlock, Releases
  <2> QED
    BY <2>1 DEF Locking, ReleaseWritingBlock, calls
<1>3. OneBlockPerSlot'
  BY DEF TypeOK, Locking, OneBlockPerSlot, ReleaseWritingBlock, Releases, Forget, Flush, LengthAfterFlush, ReleaseSlot, Block, calls, files, history
<1> QED
  BY <1>1, <1>2, <1>3

LEMMA TableReleaseLostBlock ==
  ASSUME TableInv, NEW t \in Thread, ReleaseLostBlock(t)
  PROVE  TableInv'
<1> USE SlotType DEF TableInv
<1>1. TypeOK'
  BY DEF TypeOK, ReleaseLostBlock, Releases, pool, calls, files, history
<1>2. Locking'
  BY DEF TypeOK, Locking, OneBlockPerSlot, ReleaseLostBlock, Releases, pool, calls, files, history
<1>3. OneBlockPerSlot'
  BY DEF TypeOK, Locking, OneBlockPerSlot, ReleaseLostBlock, Releases, pool, calls, files, history
<1> QED
  BY <1>1, <1>2, <1>3

LEMMA TableUnlockByNonOwner ==
  ASSUME TableInv, NEW t \in Thread, UnlockByNonOwner(t)
  PROVE  TableInv'
<1> USE SlotType DEF TableInv
<1>1. TypeOK'
  BY DEF TypeOK, UnlockByNonOwner, Releases, pool, calls, files, history
<1>2. Locking'
  BY DEF TypeOK, Locking, OneBlockPerSlot, UnlockByNonOwner, Releases, pool, calls, files, history
<1>3. OneBlockPerSlot'
  BY DEF TypeOK, Locking, OneBlockPerSlot, UnlockByNonOwner, Releases, pool, calls, files, history
<1> QED
  BY <1>1, <1>2, <1>3

(* What a server leaves in its files has their types, also one that has    *)
(* gone astray.                                                            *)
LEMMA FilesType ==
  ASSUME TypeOK, Exit \/ CrashAstray
  PROVE  /\ disk' \in [Sign -> Nat]
         /\ length' \in [File -> 0 .. MaxBlock]
         /\ dangling' \in SUBSET Sign
<1>1. CASE Exit
  BY <1>1 DEF Exit, files, TypeOK
<1>2. CASE CrashAstray
  <2>1. /\ length' \in [File -> 1 .. MaxBlock]
        /\ disk' \in [Sign -> 0 .. MaxVersion]
        /\ dangling' \in SUBSET Sign
    BY <1>2 DEF CrashAstray
  <2> QED
    BY <2>1, BoundAssumption
<1> QED
  BY <1>1, <1>2

(* A process that ends leaves an empty table.                              *)
LEMMA TableExit ==
  ASSUME TableInv, Exit \/ CrashAstray
  PROVE  TableInv'
<1>0. Stop
  BY DEF Exit, CrashAstray
<1>1. TypeOK'
  BY <1>0, AnyRequestType, FilesType DEF TableInv, TypeOK, Stop, PC
<1>2. Locking'
  BY <1>0 DEF Stop, Locking
<1>3. OneBlockPerSlot'
  BY <1>0 DEF Stop, OneBlockPerSlot
<1> QED
  BY <1>1, <1>2, <1>3 DEF TableInv

(* The constructors write over marks only while no block is loaded.        *)
LEMMA TableStart ==
  ASSUME CacheInv, Start
  PROVE  TableInv'
<1>1. /\ slots_map = [s \in Sign |-> NoSlot]
      /\ pc = [t \in Thread |-> "idle"]
  BY DEF CacheInv, Stopped, Start
<1>2. TypeOK'
  BY GarbageAssumption DEF CacheInv, TableInv, TypeOK, Start, calls, files, history
<1>3. Locking'
  BY <1>1 DEF Start, Locking, calls
<1>4. OneBlockPerSlot'
  BY <1>1 DEF Start, OneBlockPerSlot
<1> QED
  BY <1>2, <1>3, <1>4 DEF TableInv

LEMMA CacheNext ==
  ASSUME CacheInv, [Next]_vars
  PROVE  CacheInv'
<1> USE DEF CacheInv
<1>1. ASSUME NEW t \in Thread,
             \/ CallLoad(t) \/ CallCreate(t) \/ Hit(t) \/ FindSlot(t)
             \/ MissSpace(t) \/ WaitForSpace(t) \/ SpuriousWakeup(t)
             \/ LockSlot(t) \/ Modify(t)
             \/ ReleaseReadingBlock(t) \/ ReleaseWritingBlock(t)
             \/ ReleaseLostBlock(t) \/ UnlockByNonOwner(t)
      PROVE  CacheInv'
  <2>1. TableInv'
    BY <1>1, TableCallLoad, TableCallCreate, TableHit, TableFindSlot, TableMissSpace,
       TableWaitForSpace, TableSpuriousWakeup, TableLockSlot, TableModify,
       TableReleaseReadingBlock, TableReleaseWritingBlock, TableReleaseLostBlock,
       TableUnlockByNonOwner
  <2>2. server' # "down"
    BY <1>1 DEF CallLoad, CallCreate, Call, Hit, FindSlot, MissSpace, WantsSlot,
       WaitForSpace, SpuriousWakeup, LockSlot, Modify, Releases,
       ReleaseReadingBlock, ReleaseWritingBlock, ReleaseLostBlock, UnlockByNonOwner
  <2> QED
    BY <2>1, <2>2 DEF Stopped
<1>2. ASSUME Exit \/ CrashAstray PROVE CacheInv'
  BY <1>2, TableExit DEF Exit, CrashAstray, Stop, Stopped
<1>3. ASSUME NEW t \in Thread, GiveUp(t) PROVE CacheInv'
  BY <1>2, <1>3 DEF GiveUp
<1>4. CASE Crash \/ CrashAstray
  BY <1>2, <1>4 DEF Crash
<1>5. CASE Start
  BY <1>5, TableStart DEF Start, Stopped
<1>6. CASE UNCHANGED vars
  BY <1>6 DEF vars, pool, calls, files, history, TableInv, TypeOK, Locking, OneBlockPerSlot,
     Stopped
<1> QED
  BY <1>1, <1>3, <1>4, <1>5, <1>6 DEF Next

LEMMA CacheInit == Init => CacheInv
BY TableInit DEF CacheInv, Stopped, Init

LEMMA CacheCorrect == Spec => []CacheInv
<1>1. Init => CacheInv
  BY CacheInit
<1>2. CacheInv /\ [Next]_vars => CacheInv'
  BY CacheNext
<1> QED
  BY <1>1, <1>2, PTL DEF Spec

(* Every reachable state of the cache has its types, however the threads   *)
(* interleave and whenever the process dies.                               *)
THEOREM TypeCorrect == Spec => []TypeOK
<1>1. CacheInv => TypeOK
  BY DEF CacheInv, TableInv
<1> QED
  BY <1>1, CacheCorrect, PTL

(* A loaded block's slot is marked and is no other block's, for any number *)
(* of threads and slots and whatever the memory of the pool held at first. *)
THEOREM SlotsNotShared == Spec => []OneBlockPerSlot
<1>1. CacheInv => OneBlockPerSlot
  BY DEF CacheInv, TableInv
<1> QED
  BY <1>1, CacheCorrect, PTL

-----------------------------------------------------------------------------
(* Proofs about those who hold blocks of LockWatcher: what a holder has    *)
(* locked stays locked, whoever else uses the block.                       *)

(* A thread has returned from a hit and left slots_map_mutex locked: from  *)
(* now on nobody enters a call or a release any more.                      *)
Stuck == \E t \in Thread : map_mutex = t /\ pc[t] # "lock_slot"

Grows == server = "up" /\ ~Stuck

(* The lock that a holder of a block has on its slot, in this mode.        *)
HasLock(t, h) == IF h.op = "read" THEN t \in readers[h.slot] ELSE writer[h.slot] = t

Locks ==
  /\ \A t \in Thread : \A h \in held[t] : HasLock(t, h)
  /\ \A s \in Slot : writer[s] # NoThread => readers[s] = {}

(* Until a mutex is left locked, each slot has one holder and one lock at  *)
(* most, both while it is marked in use.                                   *)
OneHolderPerSlot ==
  Grows =>
    /\ \A t, u \in Thread : \A h \in held[t], k \in held[u] :
         h.slot = k.slot => t = u /\ h = k
    /\ \A t \in Thread : \A h \in held[t] : in_use[h.slot]
    /\ \A s \in Slot : writer[s] # NoThread => in_use[s]
    /\ \A t \in Thread, s \in Slot : t \in readers[s] => in_use[s] /\ readers[s] = {t}

(* A loaded block is in the hands of someone, in the slot the table names. *)
MappedIsHeld ==
  Grows =>
    \A sign \in Sign : slots_map[sign] # NoSlot =>
      \E t \in Thread : \E h \in held[t] : h.sign = sign /\ h.slot = slots_map[sign]

(* What a thread holds are different blocks, and those it has loaded are   *)
(* in their files.                                                         *)
HeldApart ==
  Grows =>
    \A t \in Thread : \A h \in held[t] :
      /\ \A k \in held[t] : h.sign = k.sign => h = k
      /\ h.op # "create" => h.sign.addr < length[h.sign.file]

(* Nothing is held while a block is being loaded.                          *)
LoadsAlone ==
  Grows => \A t \in Thread : pc[t] # "idle" /\ req[t].op # "create" => held[t] = {}

(* A block that is being created is none that its creator holds.           *)
CreatesApart ==
  Grows =>
    \A t \in Thread : pc[t] # "idle" /\ req[t].op = "create" =>
      \A h \in held[t] :
        IF h.op = "create" THEN h.sign.file # req[t].sign.file
        ELSE pc[t] = "enter" \/ h.sign # req[t].sign

(* Nobody holds anything of a process that is not running.                 *)
NoHolders ==
  server = "down" =>
    /\ held = [t \in Thread |-> {}]
    /\ writer = [s \in Slot |-> NoThread]
    /\ readers = [s \in Slot |-> {}]

HolderInv ==
  /\ CacheInv
  /\ Locks
  /\ OneHolderPerSlot
  /\ MappedIsHeld
  /\ HeldApart
  /\ LoadsAlone
  /\ CreatesApart
  /\ NoHolders

-----------------------------------------------------------------------------
(* A step that leaves table, locks, marks, holders and files alone keeps   *)
(* all that is said of them.                                               *)
LEMMA HoldersKept ==
  ASSUME HolderInv, Grows' => Grows, server' # "down",
         UNCHANGED <<slots_map, in_use, writer, readers, held, length>>
  PROVE  Locks' /\ OneHolderPerSlot' /\ MappedIsHeld' /\ HeldApart' /\ NoHolders'
<1>1. Locks'
  BY DEF HolderInv, Locks, HasLock
<1>2. OneHolderPerSlot'
  BY DEF HolderInv, OneHolderPerSlot
<1>3. MappedIsHeld'
  BY DEF HolderInv, MappedIsHeld
<1>4. HeldApart'
  BY DEF HolderInv, HeldApart
<1> QED
  BY <1>1, <1>2, <1>3, <1>4 DEF NoHolders

LEMMA HolderCallLoad ==
  ASSUME HolderInv, CacheInv', NEW t \in Thread, CallLoad(t)
  PROVE  HolderInv'
<1> USE DEF HolderInv, CacheInv, TableInv
<1>1. PICK op \in {"read", "write"}, f \in Work[t], a \in 0 .. MaxBlock - 1 :
        /\ held[t] = {}
        /\ Call(t, op, GetSign(f, a))
  BY DEF CallLoad
<1>2. /\ server' # "down" /\ server' = server
      /\ UNCHANGED <<slots_map, map_mutex, in_use, writer, readers, held, length, target>>
      /\ pc' = [pc EXCEPT ![t] = "enter"]
      /\ req' = [req EXCEPT ![t] = [op |-> op, sign |-> GetSign(f, a)]]
  BY <1>1 DEF Call, pool, files
<1>3. Grows' => Grows
  BY <1>1, <1>2 DEF Grows, Stuck, TypeOK, Call
<1>4. LoadsAlone'
  BY <1>1, <1>2, <1>3 DEF LoadsAlone, TypeOK, GetSign
<1>5. CreatesApart'
  BY <1>1, <1>2, <1>3 DEF CreatesApart, TypeOK
<1> QED
  BY <1>2, <1>3, <1>4, <1>5, HoldersKept

LEMMA HolderCallCreate ==
  ASSUME HolderInv, CacheInv', NEW t \in Thread, CallCreate(t)
  PROVE  HolderInv'
<1> USE DEF HolderInv, CacheInv, TableInv
<1>1. PICK f \in Work[t] \cap Creates :
        /\ \A h \in held[t] : h.op = "write" \/ (h.op = "create" /\ h.sign.file # f)
        /\ Call(t, "create", GetSign(f, 0))
  BY DEF CallCreate
<1>2. /\ server' # "down" /\ server' = server
      /\ UNCHANGED <<slots_map, map_mutex, in_use, writer, readers, held, length, target>>
      /\ pc' = [pc EXCEPT ![t] = "enter"]
      /\ req' = [req EXCEPT ![t] = [op |-> "create", sign |-> GetSign(f, 0)]]
  BY <1>1 DEF Call, pool, files
<1>3. Grows' => Grows
  BY <1>1, <1>2 DEF Grows, Stuck, TypeOK, Call
<1>4. LoadsAlone'
  BY <1>1, <1>2, <1>3 DEF LoadsAlone, TypeOK, GetSign
<1>5. CreatesApart'
  BY <1>1, <1>2, <1>3 DEF CreatesApart, TypeOK, GetSign
<1> QED
  BY <1>2, <1>3, <1>4, <1>5, HoldersKept

LEMMA HolderHit ==
  ASSUME HolderInv, CacheInv', NEW t \in Thread, Hit(t)
  PROVE  HolderInv'
<1> USE DEF HolderInv, CacheInv, TableInv
<1>1. /\ server' # "down" /\ server' = server
      /\ UNCHANGED <<slots_map, in_use, writer, readers, held, length, req>>
      /\ pc[t] = "enter" /\ pc' = [pc EXCEPT ![t] = "lock_slot"]
      /\ target' = [target EXCEPT ![t] = slots_map[req[t].sign]]
      /\ map_mutex = NoThread
  BY DEF Hit, pool, files
<1>2. Grows' => Grows
  BY <1>1, ThreadAssumption DEF Grows, Stuck
<1>3. LoadsAlone'
  BY <1>1, <1>2 DEF LoadsAlone, TypeOK
<1>4. CreatesApart'
  BY <1>1, <1>2 DEF CreatesApart, TypeOK, Hit
<1> QED
  BY <1>1, <1>2, <1>3, <1>4, HoldersKept

(* A thread that looks for a slot keeps the address of the block it wants, *)
(* which for a new one is behind all blocks of the file.                   *)
LEMMA WantedApart ==
  ASSUME HolderInv, NEW t \in Thread, WantsSlot(t)
  PROVE  /\ Grows
         /\ Wanted(t) \in Sign
         /\ Wanted(t).file = req[t].sign.file
         /\ req[t].op # "create" => held[t] = {}
         /\ req[t].op = "create" =>
              \A h \in held[t] :
                IF h.op = "create" THEN h.sign.file # Wanted(t).file ELSE h.sign # Wanted(t)
<1> USE DEF HolderInv, CacheInv, TableInv
<1>1. Grows
  BY ThreadAssumption DEF WantsSlot, Grows, Stuck
<1>2. Wanted(t) \in Sign /\ Wanted(t).file = req[t].sign.file
  BY DEF WantsSlot, Wanted, GetSign
<1>3. req[t].op # "create" => held[t] = {}
  BY <1>1 DEF LoadsAlone, WantsSlot
<1>4. ASSUME req[t].op = "create", NEW h \in held[t]
      PROVE  IF h.op = "create" THEN h.sign.file # Wanted(t).file ELSE h.sign # Wanted(t)
  <2>1. CASE h.op = "create"
    BY <1>1, <1>2, <1>4, <2>1 DEF CreatesApart, WantsSlot
  <2>2. CASE h.op # "create" /\ pc[t] # "enter"
    BY <1>1, <1>4, <2>2 DEF CreatesApart, WantsSlot, Wanted
  <2>3. CASE h.op # "create" /\ pc[t] = "enter"
    <3>1. Wanted(t).addr = length[req[t].sign.file]
      BY <1>4, <2>3 DEF Wanted, GetSign, GetNewBlockAddress
    <3>2. h.sign \in Sign /\ h.sign.addr < length[h.sign.file]
      BY <1>1, <2>3 DEF HeldApart, TypeOK, Block
    <3>3. h.sign.addr \in Int /\ length[h.sign.file] \in Int
      BY <3>2 DEF Sign, TypeOK
    <3> QED
      BY <1>2, <2>3, <3>1, <3>2, <3>3
  <2> QED
    BY <2>1, <2>2, <2>3
<1> QED
  BY <1>1, <1>2, <1>3, <1>4

LEMMA HolderFindSlot ==
  ASSUME HolderInv, CacheInv', NEW t \in Thread, FindSlot(t)
  PROVE  HolderInv'
<1> USE DEF HolderInv, CacheInv, TableInv
<1>1. /\ server' # "down" /\ server' = server
      /\ UNCHANGED <<slots_map, in_use, writer, readers, held, length>>
      /\ pc' = [pc EXCEPT ![t] = "lock_slot"]
      /\ req' = [req EXCEPT ![t].sign = Wanted(t)]
      /\ \A u \in Thread \ {t} : target'[u] = target[u]
      /\ WantsSlot(t)
  BY DEF FindSlot, WantsSlot, pool, files, TypeOK
<1>2. Grows' => Grows
  BY <1>1, WantedApart
<1>3. /\ req'[t].op = req[t].op /\ req'[t].sign = Wanted(t)
      /\ \A u \in Thread \ {t} : req'[u] = req[u] /\ pc'[u] = pc[u]
      /\ pc'[t] = "lock_slot" /\ pc[t] # "idle"
  BY <1>1 DEF TypeOK, WantsSlot
<1>4. LoadsAlone'
  BY <1>1, <1>2, <1>3, WantedApart DEF LoadsAlone
<1>5. CreatesApart'
  <2>1. ASSUME req[t].op = "create", NEW h \in held[t]
        PROVE  IF h.op = "create" THEN h.sign.file # req'[t].sign.file
               ELSE h.sign # req'[t].sign
    BY <1>1, <1>3, <2>1, WantedApart
  <2> QED
    BY <1>1, <1>2, <1>3, <2>1 DEF CreatesApart
<1> QED
  BY <1>1, <1>2, <1>4, <1>5, HoldersKept

LEMMA HolderMissSpace ==
  ASSUME HolderInv, CacheInv', NEW t \in Thread, MissSpace(t)
  PROVE  HolderInv'
<1> USE DEF HolderInv, CacheInv, TableInv
<1>1. /\ server' # "down" /\ server' = server
      /\ UNCHANGED <<slots_map, in_use, writer, readers, held, length, target>>
      /\ req' = [req EXCEPT ![t].sign = Wanted(t)]
      /\ WantsSlot(t)
  BY DEF MissSpace, WantsSlot, pool, files, TypeOK
<1>2. Grows' => Grows
  BY <1>1, WantedApart
<1>3. /\ req'[t].op = req[t].op /\ req'[t].sign = Wanted(t)
      /\ pc'[t] = "no_space" /\ pc[t] # "idle"
      /\ \A u \in Thread \ {t} :
           req'[u] = req[u] /\ (pc'[u] = pc[u] \/ (pc[u] = "wait" /\ pc'[u] = "woken"))
  BY <1>1 DEF TypeOK, WantsSlot, MissSpace
<1>4. LoadsAlone'
  BY <1>1, <1>2, <1>3, WantedApart DEF LoadsAlone
<1>5. CreatesApart'
  <2>1. ASSUME req[t].op = "create", NEW h \in held[t]
        PROVE  IF h.op = "create" THEN h.sign.file # req'[t].sign.file
               ELSE h.sign # req'[t].sign
    BY <1>1, <1>3, <2>1, WantedApart
  <2> QED
    BY <1>1, <1>2, <1>3, <2>1 DEF CreatesApart
<1> QED
  BY <1>1, <1>2, <1>4, <1>5, HoldersKept

(* Going to wait and waking change where a thread stands, nothing else.    *)
LEMMA HolderWaiting ==
  ASSUME HolderInv, CacheInv', NEW t \in Thread, WaitForSpace(t) \/ SpuriousWakeup(t)
  PROVE  HolderInv'
<1> USE DEF HolderInv, CacheInv, TableInv
<1>1. /\ server' # "down" /\ server' = server
      /\ UNCHANGED <<slots_map, map_mutex, in_use, writer, readers, held, length, target, req>>
      /\ pc[t] \in {"no_space", "wait"} /\ pc'[t] \in {"wait", "woken"}
      /\ \A u \in Thread \ {t} : pc'[u] = pc[u]
  BY DEF WaitForSpace, SpuriousWakeup, pool, files, TypeOK
<1>2. Grows' => Grows
  BY <1>1 DEF Grows, Stuck
<1>3. LoadsAlone'
  BY <1>1, <1>2 DEF LoadsAlone
<1>4. CreatesApart'
  BY <1>1, <1>2 DEF CreatesApart
<1> QED
  BY <1>1, <1>2, <1>3, <1>4, HoldersKept

LEMMA HolderModify ==
  ASSUME HolderInv, CacheInv', NEW t \in Thread, Modify(t)
  PROVE  HolderInv'
<1> USE DEF HolderInv, CacheInv, TableInv
<1>1. /\ server' # "down" /\ server' = server
      /\ UNCHANGED <<slots_map, map_mutex, in_use, writer, readers, held, length>>
      /\ UNCHANGED <<pc, req, target>>
  BY DEF Modify, calls, files
<1>2. Grows' => Grows
  BY <1>1 DEF Grows, Stuck
<1>3. LoadsAlone'
  BY <1>1, <1>2 DEF LoadsAlone
<1>4. CreatesApart'
  BY <1>1, <1>2 DEF CreatesApart
<1> QED
  BY <1>1, <1>2, <1>3, <1>4, HoldersKept

(* What LockSlot does to the holders: its thread holds one block more, in  *)
(* a slot it has locked in a way that others' locks allow.                 *)
LEMMA LockTaken ==
  ASSUME HolderInv, CacheInv', NEW t \in Thread, LockSlot(t)
  PROVE  /\ Locks'
         /\ \E b \in Block :
              /\ b = [sign |-> req[t].sign, slot |-> target[t], op |-> req[t].op]
              /\ HasLock(t, b)'
              /\ held' = [held EXCEPT ![t] = @ \cup {b}]
              /\ writer[b.slot] = NoThread
              /\ b.op # "read" => readers[b.slot] = {}
<1> USE DEF HolderInv, CacheInv, TableInv
<1>1. target[t] \in Slot
  BY DEF Locking, LockSlot
<1>2. PICK b \in Block : b = [sign |-> req[t].sign, slot |-> target[t], op |-> req[t].op]
  BY <1>1 DEF TypeOK, Block
<1>3. /\ held' = [held EXCEPT ![t] = @ \cup {b}]
      /\ writer[b.slot] = NoThread
      /\ b.op # "read" => readers[b.slot] = {}
  BY <1>2 DEF LockSlot, Lockable
<1>4. HasLock(t, b)'
  BY <1>1, <1>2 DEF LockSlot, HasLock, TypeOK
<1>5. Locks'
  <2>1. ASSUME NEW u \in Thread, NEW h \in held'[u] PROVE HasLock(u, h)'
    <3>1. CASE u = t /\ h = b
      BY <1>4, <3>1
    <3>2. CASE h \in held[u]
      <4>1. HasLock(u, h) /\ h.slot \in Slot
        BY <3>2 DEF Locks, TypeOK, Block
      <4>2. CASE h.op = "read"
        <5>1. u \in readers[h.slot]
          BY <4>1, <4>2 DEF HasLock
        <5>2. u \in readers'[h.slot]
          BY <1>1, <4>1, <5>1 DEF LockSlot, TypeOK
        <5> QED
          BY <4>2, <5>2 DEF HasLock
      <4>3. CASE h.op # "read"
        <5>1. writer[h.slot] = u
          BY <4>1, <4>3 DEF HasLock
        <5>2. h.slot # target[t]
          BY <1>2, <1>3, <5>1, ThreadAssumption
        <5>3. writer'[h.slot] = u
          BY <1>1, <4>1, <5>1, <5>2 DEF LockSlot, TypeOK
        <5> QED
          BY <4>3, <5>3 DEF HasLock
      <4> QED
        BY <4>2, <4>3
    <3> QED
      BY <1>3, <2>1, <3>1, <3>2 DEF TypeOK
  <2>2. ASSUME NEW s \in Slot, writer'[s] # NoThread PROVE readers'[s] = {}
    <3>1. CASE s = target[t]
      BY <1>1, <1>2, <1>3, <2>2, <3>1 DEF LockSlot, TypeOK
    <3>2. CASE s # target[t]
      <4>1. writer'[s] = writer[s] /\ readers'[s] = readers[s]
        BY <1>1, <3>2 DEF LockSlot, TypeOK
      <4> QED
        BY <2>2, <4>1 DEF Locks
    <3> QED
      BY <3>1, <3>2
  <2> QED
    BY <2>1, <2>2 DEF Locks
<1> QED
  BY <1>2, <1>3, <1>4, <1>5

(* A hit is the end of growth; every other call locks a slot that is       *)
(* nobody's.                                                               *)
LEMMA HolderLockSlot ==
  ASSUME HolderInv, CacheInv', NEW t \in Thread, LockSlot(t)
  PROVE  HolderInv'
<1> USE DEF HolderInv, CacheInv, TableInv
<1>a. PICK s \in Slot : s = target[t]
  BY DEF Locking, LockSlot
<1>b. PICK b \in Block :
        /\ b = [sign |-> req[t].sign, slot |-> target[t], op |-> req[t].op]
        /\ held' = [held EXCEPT ![t] = @ \cup {b}]
        /\ writer[b.slot] = NoThread
  BY LockTaken
<1>1. /\ Locks'
      /\ held' = [held EXCEPT ![t] = @ \cup {b}]
      /\ writer[s] = NoThread
      /\ b.slot = s /\ b.sign = req[t].sign /\ b.op = req[t].op
  BY LockTaken, <1>a, <1>b
<1>2. /\ server' # "down" /\ server = "up"
      /\ map_mutex = t /\ s \in Slot
      /\ pc[t] = "lock_slot" /\ pc'[t] = "idle"
      /\ \A u \in Thread \ {t} :
           pc'[u] = pc[u] /\ req'[u] = req[u] /\ target'[u] = target[u]
      /\ length' = length
      /\ slots_map' = [slots_map EXCEPT ![b.sign] = s]
      /\ in_use' = [in_use EXCEPT ![s] = TRUE]
  BY <1>a, <1>1 DEF LockSlot, Locking, MarkInUse, files, TypeOK
<1>c. CASE ReadsNothing(s, b.op, b.sign)
  <2>1. server' = "astray"
    BY <1>1, <1>a, <1>c DEF LockSlot
  <2>2. ~Grows'
    BY <2>1 DEF Grows
  <2> QED
    BY <1>1, <1>2, <2>2 DEF OneHolderPerSlot, MappedIsHeld, HeldApart, LoadsAlone,
       CreatesApart, NoHolders
<1>3. CASE slots_map[b.sign] = s
  <2>1. map_mutex' = t
    BY <1>1, <1>3, <1>a DEF LockSlot, MutexAfterLoad
  <2>2. ~Grows'
    BY <1>2, <2>1 DEF Grows, Stuck
  <2> QED
    BY <1>1, <1>2, <2>2 DEF OneHolderPerSlot, MappedIsHeld, HeldApart, LoadsAlone,
       CreatesApart, NoHolders
<1>4. CASE slots_map[b.sign] # s /\ ~ReadsNothing(s, b.op, b.sign)
  <2>1. Grows
    BY <1>2, ThreadAssumption DEF Grows, Stuck
  <2>2. ~in_use[s]
    BY <1>1, <1>2, <1>4, <1>a DEF Locking
  <2>3. /\ readers[s] = {}
        /\ \A u \in Thread : \A h \in held[u] : h.slot # s
    BY <1>2, <2>1, <2>2 DEF OneHolderPerSlot, TypeOK
  <2>4. \A u \in Thread : \A h \in held'[u] :
          \/ u = t /\ h = b
          \/ h \in held[u] /\ h.slot # s
    BY <1>1, <2>3 DEF TypeOK
  <2>5. OneHolderPerSlot'
    <3>1. \A u, v \in Thread : \A h \in held'[u], k \in held'[v] :
            h.slot = k.slot => u = v /\ h = k
      BY <1>1, <2>1, <2>4 DEF OneHolderPerSlot
    <3>2. \A u \in Thread : \A h \in held'[u] : in_use'[h.slot]
      <4>1. ASSUME NEW u \in Thread, NEW h \in held'[u] PROVE in_use'[h.slot]
        <5>1. CASE u = t /\ h = b
          BY <1>1, <1>2, <5>1 DEF TypeOK
        <5>2. CASE h \in held[u] /\ h.slot # s
          <6>1. in_use[h.slot] /\ h.slot \in Slot
            BY <2>1, <5>2 DEF OneHolderPerSlot, TypeOK, Block
          <6> QED
            BY <1>2, <5>2, <6>1 DEF TypeOK
        <5> QED
          BY <2>4, <5>1, <5>2
      <4> QED
        BY <4>1
    <3>3. ASSUME NEW r \in Slot, r # s
          PROVE  writer'[r] = writer[r] /\ readers'[r] = readers[r] /\ in_use'[r] = in_use[r]
      BY <1>2, <1>a, <3>3 DEF LockSlot, TypeOK
    <3>4. in_use'[s]
      BY <1>2 DEF TypeOK
    <3>5. readers'[s] \subseteq {t}
      BY <1>2, <1>a, <2>3 DEF LockSlot, TypeOK
    <3>6. \A r \in Slot : writer'[r] # NoThread => in_use'[r]
      BY <2>1, <3>3, <3>4 DEF OneHolderPerSlot
    <3>7. \A u \in Thread, r \in Slot : u \in readers'[r] => in_use'[r] /\ readers'[r] = {u}
      BY <2>1, <3>3, <3>4, <3>5 DEF OneHolderPerSlot
    <3> QED
      BY <3>1, <3>2, <3>6, <3>7 DEF OneHolderPerSlot
  <2>6. MappedIsHeld'
    <3>1. b \in held'[t] /\ b.sign \in Sign
      BY <1>1 DEF TypeOK, Block
    <3>2. \A u \in Thread : held[u] \subseteq held'[u]
      BY <1>1 DEF TypeOK
    <3>3. \A sign \in Sign : sign # b.sign => slots_map'[sign] = slots_map[sign]
      BY <1>2 DEF TypeOK
    <3>4. slots_map'[b.sign] = b.slot
      BY <1>1, <1>2, <3>1 DEF TypeOK
    <3> QED
      BY <2>1, <3>1, <3>2, <3>3, <3>4 DEF MappedIsHeld
  <2>7. HeldApart'
    <3>1. b.op # "create" => held[t] = {} /\ b.sign.addr < length[b.sign.file]
      <4>1. b.op # "create" => held[t] = {}
        BY <1>1, <1>2, <2>1 DEF LoadsAlone
      <4>2. b.sign.addr \in Int /\ length[b.sign.file] \in Int
        BY <1>b DEF Block, Sign, TypeOK
      <4>3. b.op # "create" => b.sign.addr < length[b.sign.file]
        BY <1>4, <4>2 DEF ReadsNothing
      <4> QED
        BY <4>1, <4>3
    <3>2. \A h \in held[t] : h.sign # b.sign
      BY <1>1, <1>2, <2>1, <3>1 DEF CreatesApart
    <3>3. ASSUME NEW u \in Thread, NEW h \in held'[u], NEW k \in held'[u], h.sign = k.sign
          PROVE  h = k
      BY <2>1, <2>4, <3>2, <3>3 DEF HeldApart
    <3>4. ASSUME NEW u \in Thread, NEW h \in held'[u], h.op # "create"
          PROVE  h.sign.addr < length'[h.sign.file]
      BY <1>2, <2>1, <2>4, <3>1, <3>4 DEF HeldApart
    <3> QED
      BY <3>3, <3>4 DEF HeldApart
  <2>8. LoadsAlone'
    <3>1. \A u \in Thread \ {t} : held'[u] = held[u]
      BY <1>1 DEF TypeOK
    <3> QED
      BY <1>2, <2>1, <3>1 DEF LoadsAlone
  <2>9. CreatesApart'
    BY <1>2, <2>1, <2>4 DEF CreatesApart
  <2> QED
    BY <1>1, <1>2, <2>5, <2>6, <2>7, <2>8, <2>9 DEF NoHolders
<1> QED
  BY <1>c, <1>3, <1>4

(* A release that finds its block in the table, under a lock of its own,   *)
(* finds the slot that it holds.                                           *)
LEMMA FoundIsOwn ==
  ASSUME HolderInv, Grows, NEW t \in Thread, NEW h \in held[t],
         slots_map[h.sign] # NoSlot,
         \/ t \in readers[slots_map[h.sign]]
         \/ writer[slots_map[h.sign]] = t
  PROVE  h.slot = slots_map[h.sign] /\ HasLock(t, h)
<1> USE DEF HolderInv, CacheInv, TableInv
<1>1. h.sign \in Sign /\ h \in Block
  BY DEF TypeOK, Block
<1>2. PICK u \in Thread : \E k \in held[u] : k.sign = h.sign /\ k.slot = slots_map[h.sign]
  BY <1>1 DEF MappedIsHeld
<1>3. PICK k \in held[u] : k.sign = h.sign /\ k.slot = slots_map[h.sign]
  BY <1>2
<1>4. k.slot \in Slot
  BY DEF TypeOK, Block
<1>5. u = t
  BY <1>3, <1>4, ThreadAssumption DEF Locks, HasLock, OneHolderPerSlot
<1>6. k = h
  BY <1>3, <1>5 DEF HeldApart
<1> QED
  BY <1>3, <1>6 DEF Locks

(* What is left of the holders when a thread gives a block back.           *)
LEMMA HolderReleased ==
  ASSUME HolderInv, CacheInv', NEW t \in Thread, NEW h \in held[t], Releases(t, h),
         server' = server, UNCHANGED <<map_mutex, pc, req, target>>,
         h.sign \in Sign,
         slots_map' = [slots_map EXCEPT ![h.sign] = NoSlot],
         \A f \in File : length[f] <= length'[f],
         Locks', OneHolderPerSlot'
  PROVE  HolderInv'
<1> USE DEF HolderInv, CacheInv, TableInv
<1>1. /\ Grows /\ map_mutex = NoThread /\ server' # "down"
      /\ held' = [held EXCEPT ![t] = @ \ {h}]
  BY ThreadAssumption DEF Releases, Grows, Stuck
<1>2. \A u \in Thread : held'[u] \subseteq held[u]
  BY <1>1 DEF TypeOK
<1>3. \A f \in File : length[f] \in Int /\ length'[f] \in Int
  BY DEF TypeOK
<1>4. \A u \in Thread : \A k \in held[u] : k.sign \in Sign /\ k.sign.file \in File /\ k.sign.addr \in Int
  BY DEF TypeOK, Block, Sign
<1>6. MappedIsHeld'
  <2>1. ASSUME NEW sign \in Sign, slots_map'[sign] # NoSlot
        PROVE  \E u \in Thread : \E k \in held'[u] : k.sign = sign /\ k.slot = slots_map'[sign]
    <3>1. sign # h.sign /\ slots_map'[sign] = slots_map[sign]
      BY <2>1 DEF TypeOK
    <3>2. PICK u \in Thread : \E k \in held[u] : k.sign = sign /\ k.slot = slots_map[sign]
      BY <1>1, <2>1, <3>1 DEF MappedIsHeld
    <3>3. PICK k \in held[u] : k.sign = sign /\ k.slot = slots_map[sign]
      BY <3>2
    <3>4. k \in held'[u]
      BY <1>1, <3>1, <3>3 DEF TypeOK
    <3> QED
      BY <3>1, <3>3, <3>4
  <2> QED
    BY <2>1 DEF MappedIsHeld
<1>7. HeldApart'
  BY <1>1, <1>2, <1>3, <1>4 DEF HeldApart
<1>8. LoadsAlone'
  BY <1>1, <1>2 DEF LoadsAlone
<1>9. CreatesApart'
  BY <1>1, <1>2 DEF CreatesApart
<1> QED
  BY <1>1, <1>6, <1>7, <1>8, <1>9 DEF NoHolders

LEMMA HolderReleaseReadingBlock ==
  ASSUME HolderInv, CacheInv', NEW t \in Thread, ReleaseReadingBlock(t)
  PROVE  HolderInv'
<1> USE DEF HolderInv, CacheInv, TableInv
<1>1. PICK h \in held[t] :
        /\ Releases(t, h)
        /\ h.op = "read"
        /\ slots_map[h.sign] # NoSlot
        /\ t \in readers[slots_map[h.sign]]
        /\ in_use' = [in_use EXCEPT ![slots_map[h.sign]] = @ /\ user_amount[slots_map[h.sign]] # 1]
        /\ slots_map' = Forget(h.sign)
        /\ readers' = [readers EXCEPT ![slots_map[h.sign]] = @ \ {t}]
  BY DEF ReleaseReadingBlock
<1>2. /\ server' = server
      /\ UNCHANGED <<map_mutex, pc, req, target, length, writer>>
  BY DEF ReleaseReadingBlock, calls, files
<1>3. Grows
  BY <1>1, ThreadAssumption DEF Releases, Grows, Stuck
<1>4. h.slot = slots_map[h.sign] /\ h \in Block /\ h.sign \in Sign /\ h.slot \in Slot
  BY <1>1, <1>3, FoundIsOwn DEF TypeOK, Block
<1>5. ASSUME NEW u \in Thread, NEW k \in held'[u] PROVE k \in held[u] /\ k.slot # h.slot
  <2>1. k \in held[u] /\ (u # t \/ k # h)
    BY <1>1, <1>5 DEF Releases, TypeOK
  <2> QED
    BY <1>3, <2>1 DEF OneHolderPerSlot
<1>6. ASSUME NEW r \in Slot, r # h.slot
      PROVE  readers'[r] = readers[r] /\ in_use'[r] = in_use[r]
  <2>1. readers'[r] = readers[r]
    BY <1>1, <1>4, <1>6 DEF TypeOK
  <2>2. in_use'[r] = in_use[r]
    BY <1>1, <1>4, <1>6, Zenon DEF TypeOK
  <2> QED
    BY <2>1, <2>2
<1>7. readers'[h.slot] = {} /\ writer'[h.slot] = NoThread
  <2>1. readers[h.slot] = {t}
    BY <1>1, <1>3, <1>4 DEF OneHolderPerSlot
  <2> QED
    BY <1>1, <1>2, <1>4, <2>1 DEF TypeOK, Locks
<1>8. \A u \in Thread : \A k \in held'[u] : k.slot \in Slot
  BY <1>5 DEF TypeOK, Block
<1>9. Locks'
  BY <1>2, <1>5, <1>6, <1>7, <1>8 DEF Locks, HasLock
<1>10. OneHolderPerSlot'
  BY <1>2, <1>3, <1>5, <1>6, <1>7, <1>8 DEF OneHolderPerSlot
<1>11. \A f \in File : length[f] <= length'[f]
  BY <1>2 DEF TypeOK
<1> QED
  BY <1>1, <1>2, <1>4, <1>9, <1>10, <1>11, HolderReleased DEF Forget

LEMMA HolderReleaseWritingBlock ==
  ASSUME HolderInv, CacheInv', NEW t \in Thread, ReleaseWritingBlock(t)
  PROVE  HolderInv'
<1> USE DEF HolderInv, CacheInv, TableInv
<1>1. PICK h \in held[t] :
        /\ Releases(t, h)
        /\ h.op # "read"
        /\ slots_map[h.sign] # NoSlot
        /\ writer[slots_map[h.sign]] = t
        /\ length' = LengthAfterFlush(h.sign)
        /\ in_use' = [in_use EXCEPT ![slots_map[h.sign]] = FALSE]
        /\ slots_map' = Forget(h.sign)
        /\ writer' = [writer EXCEPT ![slots_map[h.sign]] = NoThread]
  BY DEF ReleaseWritingBlock, ReleaseSlot
<1>2. /\ server' = server
      /\ UNCHANGED <<map_mutex, pc, req, target, readers>>
  BY DEF ReleaseWritingBlock, calls
<1>3. Grows
  BY <1>1, ThreadAssumption DEF Releases, Grows, Stuck
<1>4. h.slot = slots_map[h.sign] /\ h \in Block /\ h.sign \in Sign /\ h.slot \in Slot
  BY <1>1, <1>3, FoundIsOwn DEF TypeOK, Block
<1>5. ASSUME NEW u \in Thread, NEW k \in held'[u] PROVE k \in held[u] /\ k.slot # h.slot
  <2>1. k \in held[u] /\ (u # t \/ k # h)
    BY <1>1, <1>5 DEF Releases, TypeOK
  <2> QED
    BY <1>3, <2>1 DEF OneHolderPerSlot
<1>6. ASSUME NEW r \in Slot, r # h.slot
      PROVE  writer'[r] = writer[r] /\ in_use'[r] = in_use[r]
  BY <1>1, <1>4, <1>6 DEF TypeOK
<1>7. readers'[h.slot] = {} /\ writer'[h.slot] = NoThread
  <2>1. writer[h.slot] # NoThread
    BY <1>1, <1>4, ThreadAssumption
  <2> QED
    BY <1>1, <1>2, <1>4, <2>1 DEF TypeOK, Locks
<1>8. \A u \in Thread : \A k \in held'[u] : k.slot \in Slot
  BY <1>5 DEF TypeOK, Block
<1>9. Locks'
  BY <1>2, <1>5, <1>6, <1>7, <1>8 DEF Locks, HasLock
<1>10. OneHolderPerSlot'
  BY <1>2, <1>3, <1>5, <1>6, <1>7, <1>8 DEF OneHolderPerSlot
<1>11. h.sign.file \in File /\ h.sign.addr \in Int
  BY <1>4 DEF Sign
<1>12. \A f \in File : length[f] <= length'[f]
  BY <1>1, <1>11 DEF TypeOK, LengthAfterFlush
<1> QED
  BY <1>1, <1>2, <1>4, <1>9, <1>10, <1>12, HolderReleased DEF Forget

LEMMA HolderReleaseLostBlock ==
  ASSUME HolderInv, CacheInv', NEW t \in Thread, ReleaseLostBlock(t)
  PROVE  HolderInv'
<1> USE DEF HolderInv, CacheInv, TableInv
<1>1. PICK h \in held[t] : Releases(t, h) /\ slots_map[h.sign] = NoSlot
  BY DEF ReleaseLostBlock
<1>2. /\ server' = server /\ server' # "down"
      /\ UNCHANGED <<slots_map, map_mutex, pc, req, target, length, writer, readers, in_use>>
  BY <1>1 DEF ReleaseLostBlock, Releases, pool, calls, files
<1>3. Grows
  BY <1>1, ThreadAssumption DEF Releases, Grows, Stuck
<1>4. \A u \in Thread : held'[u] \subseteq held[u]
  BY <1>1 DEF Releases, TypeOK
<1>5. Locks'
  BY <1>2, <1>4 DEF Locks, HasLock
<1>6. OneHolderPerSlot'
  BY <1>2, <1>3, <1>4 DEF OneHolderPerSlot
<1>7. MappedIsHeld'
  <2>1. ASSUME NEW sign \in Sign, slots_map[sign] # NoSlot
        PROVE  \E u \in Thread : \E k \in held'[u] : k.sign = sign /\ k.slot = slots_map[sign]
    <3>1. PICK u \in Thread : \E k \in held[u] : k.sign = sign /\ k.slot = slots_map[sign]
      BY <1>3, <2>1 DEF MappedIsHeld
    <3>2. PICK k \in held[u] : k.sign = sign /\ k.slot = slots_map[sign]
      BY <3>1
    <3>3. k # h
      BY <1>1, <2>1, <3>2
    <3>4. k \in held'[u]
      BY <1>1, <3>2, <3>3 DEF Releases, TypeOK
    <3> QED
      BY <3>2, <3>4
  <2> QED
    BY <1>2, <2>1 DEF MappedIsHeld
<1>8. HeldApart'
  BY <1>2, <1>3, <1>4 DEF HeldApart
<1>9. LoadsAlone'
  BY <1>2, <1>3, <1>4 DEF LoadsAlone
<1>10. CreatesApart'
  BY <1>2, <1>3, <1>4 DEF CreatesApart
<1> QED
  BY <1>2, <1>5, <1>6, <1>7, <1>8, <1>9, <1>10 DEF NoHolders

LEMMA HolderUnlockByNonOwner ==
  ASSUME HolderInv, CacheInv', NEW t \in Thread, UnlockByNonOwner(t)
  PROVE  HolderInv'
<1> USE DEF HolderInv, CacheInv, TableInv
<1>1. PICK h \in held[t] : Releases(t, h)
  BY DEF UnlockByNonOwner
<1>2. server' = "undefined" /\ UNCHANGED <<writer, readers>>
  BY DEF UnlockByNonOwner, pool
<1>3. \A u \in Thread : held'[u] \subseteq held[u]
  BY <1>1 DEF Releases, TypeOK
<1>4. Locks'
  BY <1>2, <1>3 DEF Locks, HasLock
<1>5. ~Grows' /\ server' # "down"
  BY <1>2 DEF Grows
<1> QED
  BY <1>4, <1>5 DEF OneHolderPerSlot, MappedIsHeld, HeldApart, LoadsAlone, CreatesApart, NoHolders

LEMMA HolderExit ==
  ASSUME HolderInv, CacheInv', Exit \/ CrashAstray
  PROVE  HolderInv'
<1>0. Stop
  BY DEF Exit, CrashAstray
<1>1. Locks' /\ NoHolders'
  BY <1>0 DEF Stop, Locks, NoHolders
<1>2. ~Grows'
  BY <1>0 DEF Stop, Grows
<1> QED
  BY <1>1, <1>2 DEF HolderInv, OneHolderPerSlot, MappedIsHeld, HeldApart, LoadsAlone, CreatesApart

LEMMA HolderStart ==
  ASSUME HolderInv, CacheInv', Start
  PROVE  HolderInv'
<1> USE DEF HolderInv, CacheInv, TableInv
<1>1. /\ held' = [t \in Thread |-> {}]
      /\ writer' = [s \in Slot |-> NoThread]
      /\ readers' = [s \in Slot |-> {}]
      /\ slots_map' = [s \in Sign |-> NoSlot]
      /\ pc' = [t \in Thread |-> "idle"]
      /\ server' = "up"
  BY DEF Start, Stopped, NoHolders, calls
<1>2. Locks' /\ NoHolders'
  BY <1>1 DEF Locks, NoHolders
<1>3. OneHolderPerSlot' /\ MappedIsHeld'
  BY <1>1 DEF OneHolderPerSlot, MappedIsHeld
<1>4. HeldApart' /\ LoadsAlone' /\ CreatesApart'
  BY <1>1 DEF HeldApart, LoadsAlone, CreatesApart
<1> QED
  BY <1>2, <1>3, <1>4

LEMMA HolderInit == Init => HolderInv
<1> SUFFICES ASSUME Init PROVE HolderInv
  OBVIOUS
<1>1. Locks /\ NoHolders
  BY DEF Init, Locks, NoHolders
<1>2. ~Grows
  BY DEF Init, Grows
<1> QED
  BY <1>1, <1>2, CacheInit
  DEF HolderInv, OneHolderPerSlot, MappedIsHeld, HeldApart, LoadsAlone, CreatesApart

LEMMA HolderNext ==
  ASSUME HolderInv, [Next]_vars
  PROVE  HolderInv'
<1>1. CacheInv'
  BY CacheNext DEF HolderInv
<1>2. ASSUME NEW t \in Thread,
             \/ CallLoad(t) \/ CallCreate(t) \/ Hit(t) \/ FindSlot(t)
             \/ MissSpace(t) \/ WaitForSpace(t) \/ SpuriousWakeup(t)
             \/ LockSlot(t) \/ Modify(t)
             \/ ReleaseReadingBlock(t) \/ ReleaseWritingBlock(t)
             \/ ReleaseLostBlock(t) \/ UnlockByNonOwner(t)
      PROVE  HolderInv'
  BY <1>1, <1>2, HolderCallLoad, HolderCallCreate, HolderHit, HolderFindSlot, HolderMissSpace,
     HolderWaiting, HolderLockSlot, HolderModify, HolderReleaseReadingBlock,
     HolderReleaseWritingBlock, HolderReleaseLostBlock, HolderUnlockByNonOwner
<1>3. ASSUME NEW t \in Thread, GiveUp(t) PROVE HolderInv'
  BY <1>1, <1>3, HolderExit DEF GiveUp
<1>4. CASE Crash \/ CrashAstray
  BY <1>1, <1>4, HolderExit DEF Crash
<1>5. CASE Start
  BY <1>1, <1>5, HolderStart
<1>6. CASE UNCHANGED vars
  <2>1. UNCHANGED <<server, slots_map, map_mutex, in_use, writer, readers, pc, req, target,
                    held, length>>
    BY <1>6 DEF vars, pool, calls, files
  <2>2. Grows' => Grows
    BY <2>1 DEF Grows, Stuck
  <2> QED
    BY <1>1, <2>1, <2>2 DEF HolderInv, Locks, HasLock, OneHolderPerSlot, MappedIsHeld,
       HeldApart, LoadsAlone, CreatesApart, NoHolders
<1> QED
  BY <1>2, <1>3, <1>4, <1>5, <1>6 DEF Next

LEMMA HolderCorrect == Spec => []HolderInv
<1>1. HolderInv /\ [Next]_vars => HolderInv'
  BY HolderNext
<1> QED
  BY HolderInit, <1>1, PTL DEF Spec

(* Whatever happens, a slot that one thread may change is in no other      *)
(* thread's hands.                                                         *)
SlotExclusion ==
  \A t, u \in Thread : \A h \in held[t], k \in held[u] :
    t # u /\ h.slot = k.slot => h.op = "read" /\ k.op = "read"

LEMMA LocksExclude == HolderInv => SlotExclusion
<1> SUFFICES ASSUME HolderInv, NEW t \in Thread, NEW u \in Thread,
                    NEW h \in held[t], NEW k \in held[u], t # u, h.slot = k.slot
             PROVE  h.op = "read"
  BY DEF SlotExclusion
<1>1. h.slot \in Slot
  BY DEF HolderInv, CacheInv, TableInv, TypeOK, Block
<1>2. HasLock(t, h) /\ HasLock(u, k) /\ (writer[h.slot] # NoThread => readers[h.slot] = {})
  BY <1>1 DEF HolderInv, Locks
<1> QED
  BY <1>2, ThreadAssumption DEF HasLock

-----------------------------------------------------------------------------
(* Blocks are created in no file that two threads work on.                 *)
OneCreator ==
  \A t, u \in Thread : t # u => Work[t] \cap Work[u] \cap Creates = {}

(* Threads keep to their files, ...                                        *)
OwnWork ==
  \A t \in Thread :
    /\ pc[t] # "idle" => req[t].sign.file \in Work[t]
    /\ pc[t] # "idle" /\ req[t].op = "create" => req[t].sign.file \in Creates
    /\ \A h \in held[t] :
         /\ h.sign.file \in Work[t]
         /\ h.op = "create" => h.sign.file \in Creates

(* ... and as long as nobody had to wait, a block is held where the table  *)
(* says.                                                                   *)
EnoughSpace ==
  space = "enough" =>
    /\ \A t \in Thread : pc[t] \notin {"no_space", "wait", "woken"}
    /\ Grows => \A t \in Thread : \A h \in held[t] : slots_map[h.sign] = h.slot
    /\ Grows => \A t \in Thread :
         pc[t] = "lock_slot" /\ slots_map[req[t].sign] # target[t] =>
           slots_map[req[t].sign] = NoSlot

(* ... and a block two threads hold, both have loaded for reading.         *)
SharedIsRead ==
  space = "enough" =>
    \A t, u \in Thread : \A h \in held[t], k \in held[u] :
      t # u /\ h.sign = k.sign => h.op = "read" /\ k.op = "read"

ExclusionInv == HolderInv /\ OwnWork /\ EnoughSpace /\ SharedIsRead

LEMMA OwnWorkNext ==
  ASSUME HolderInv, OwnWork, [Next]_vars
  PROVE  OwnWork'
<1> USE DEF HolderInv, CacheInv, TableInv
<1>1. ASSUME NEW t \in Thread, CallLoad(t) PROVE OwnWork'
  <2>1. PICK op \in {"read", "write"}, f \in Work[t], a \in 0 .. MaxBlock - 1 :
          Call(t, op, GetSign(f, a))
    BY <1>1 DEF CallLoad
  <2> QED
    BY <2>1 DEF OwnWork, Call, GetSign, TypeOK
<1>2. ASSUME NEW t \in Thread, CallCreate(t) PROVE OwnWork'
  BY <1>2 DEF OwnWork, CallCreate, Call, GetSign, TypeOK
<1>3. ASSUME NEW t \in Thread, Hit(t) PROVE OwnWork'
  BY <1>3 DEF OwnWork, Hit, TypeOK
<1>4. ASSUME NEW t \in Thread, FindSlot(t) \/ MissSpace(t) PROVE OwnWork'
  <2>1. /\ WantsSlot(t) /\ held' = held
        /\ req' = [req EXCEPT ![t].sign = Wanted(t)]
        /\ \A u \in Thread \ {t} : pc'[u] # "idle" => pc[u] # "idle"
    BY <1>4 DEF FindSlot, MissSpace, TypeOK
  <2>2. /\ pc[t] # "idle" /\ req'[t].op = req[t].op
        /\ req'[t].sign.file = req[t].sign.file
    BY <2>1, WantedApart DEF WantsSlot, TypeOK
  <2>3. \A u \in Thread \ {t} : req'[u] = req[u]
    BY <2>1 DEF TypeOK
  <2> QED
    BY <2>1, <2>2, <2>3 DEF OwnWork
<1>5. ASSUME NEW t \in Thread, WaitForSpace(t) \/ SpuriousWakeup(t) PROVE OwnWork'
  BY <1>5 DEF OwnWork, WaitForSpace, SpuriousWakeup, TypeOK
<1>6. ASSUME NEW t \in Thread, LockSlot(t) PROVE OwnWork'
  <2>1. PICK b \in Block :
          /\ b = [sign |-> req[t].sign, slot |-> target[t], op |-> req[t].op]
          /\ held' = [held EXCEPT ![t] = @ \cup {b}]
    BY <1>6, CacheNext, LockTaken DEF Next
  <2>2. /\ pc[t] # "idle" /\ pc'[t] = "idle"
        /\ \A u \in Thread \ {t} : pc'[u] = pc[u] /\ req'[u] = req[u]
    BY <1>6 DEF LockSlot, TypeOK
  <2> QED
    BY <2>1, <2>2 DEF OwnWork, TypeOK
<1>7. ASSUME NEW t \in Thread, Modify(t) PROVE OwnWork'
  BY <1>7 DEF OwnWork, Modify, calls
<1>8. ASSUME NEW t \in Thread,
             \/ ReleaseReadingBlock(t) \/ ReleaseWritingBlock(t)
             \/ ReleaseLostBlock(t) \/ UnlockByNonOwner(t)
      PROVE  OwnWork'
  <2>1. \A u \in Thread : held'[u] \subseteq held[u]
    BY <1>8 DEF ReleaseReadingBlock, ReleaseWritingBlock, ReleaseLostBlock, UnlockByNonOwner,
       Releases, TypeOK
  <2>2. UNCHANGED <<pc, req>>
    BY <1>8 DEF ReleaseReadingBlock, ReleaseWritingBlock, ReleaseLostBlock, UnlockByNonOwner,
       calls
  <2> QED
    BY <2>1, <2>2 DEF OwnWork
<1>9. ASSUME Exit \/ CrashAstray PROVE OwnWork'
  BY <1>9 DEF Exit, CrashAstray, Stop, OwnWork
<1>10. ASSUME Start \/ UNCHANGED vars PROVE OwnWork'
  BY <1>10 DEF Start, vars, calls, OwnWork
<1>11. CASE \E t \in Thread : GiveUp(t)
  BY <1>9, <1>11 DEF GiveUp
<1>12. CASE Crash \/ CrashAstray
  BY <1>9, <1>12 DEF Crash
<1> QED
  BY <1>1, <1>2, <1>3, <1>4, <1>5, <1>6, <1>7, <1>8, <1>10, <1>11, <1>12 DEF Next

(* Under OneCreator, the address kept for a new block is nobody's.         *)
LEMMA NewIsNobodys ==
  ASSUME OneCreator, HolderInv, OwnWork, NEW t \in Thread, WantsSlot(t), req[t].op = "create"
  PROVE  slots_map[Wanted(t)] = NoSlot
<1> USE DEF HolderInv, CacheInv, TableInv
<1>1. ASSUME NEW u \in Thread, NEW h \in held[u] PROVE h.sign # Wanted(t)
  <2>1. CASE u = t
    BY <2>1, WantedApart
  <2>2. CASE u # t
    <3>1. Wanted(t).file \in Work[t] \cap Creates
      BY WantedApart DEF OwnWork, WantsSlot
    <3> QED
      BY <2>2, <3>1 DEF OwnWork, OneCreator
  <2> QED
    BY <2>1, <2>2
<1> QED
  BY <1>1, WantedApart DEF MappedIsHeld

(* A step of a call that is in no slot yet leaves the holders as they are. *)
LEMMA SpaceKept ==
  ASSUME HolderInv, EnoughSpace, SharedIsRead, Grows' => Grows,
         UNCHANGED <<slots_map, held>>, space' = space,
         \A t \in Thread :
           \/ pc'[t] = pc[t] /\ req'[t] = req[t] /\ target'[t] = target[t]
           \/ pc'[t] \in {"idle", "enter"}
  PROVE  EnoughSpace' /\ SharedIsRead'
<1>1. SharedIsRead'
  BY DEF SharedIsRead
<1>2. EnoughSpace'
  BY DEF EnoughSpace
<1> QED
  BY <1>1, <1>2

LEMMA SpaceFindSlot ==
  ASSUME OneCreator, HolderInv, OwnWork, EnoughSpace, NEW t \in Thread, FindSlot(t)
  PROVE  EnoughSpace'
<1> USE DEF HolderInv, CacheInv, TableInv
<1>1. /\ WantsSlot(t) /\ server' = server
      /\ UNCHANGED <<slots_map, held, space>>
      /\ pc'[t] = "lock_slot" /\ req'[t].sign = Wanted(t)
      /\ \A u \in Thread \ {t} : pc'[u] = pc[u] /\ pc[u] # "lock_slot"
  BY ThreadAssumption DEF FindSlot, WantsSlot, TypeOK, history, Locking
<1>2. Grows
  BY <1>1, WantedApart
<1>3. ASSUME space = "enough" PROVE slots_map[Wanted(t)] = NoSlot
  <2>1. CASE req[t].op = "create"
    BY <1>1, <2>1, NewIsNobodys
  <2>2. CASE req[t].op # "create"
    <3>1. pc[t] = "enter"
      BY <1>1, <1>3 DEF EnoughSpace, WantsSlot
    <3> QED
      BY <1>1, <2>2, <3>1 DEF WantsSlot, Wanted
  <2> QED
    BY <2>1, <2>2
<1> QED
  BY <1>1, <1>2, <1>3 DEF EnoughSpace

LEMMA SpaceLockSlot ==
  ASSUME HolderInv, EnoughSpace, SharedIsRead, NEW t \in Thread, LockSlot(t)
  PROVE  EnoughSpace' /\ SharedIsRead'
<1> USE DEF HolderInv, CacheInv, TableInv
<1>1. PICK b \in Block :
        /\ b = [sign |-> req[t].sign, slot |-> target[t], op |-> req[t].op]
        /\ held' = [held EXCEPT ![t] = @ \cup {b}]
        /\ writer[b.slot] = NoThread
        /\ b.op # "read" => readers[b.slot] = {}
  BY CacheNext, LockTaken DEF Next
<1>2. /\ b.sign = req[t].sign /\ b.slot = target[t] /\ b.op = req[t].op
      /\ b.sign \in Sign /\ b.slot \in Slot
  BY <1>1 DEF Block
<1>3. /\ server = "up" /\ pc[t] = "lock_slot" /\ map_mutex = t /\ space' = space
      /\ pc'[t] = "idle" /\ \A u \in Thread \ {t} : pc'[u] = pc[u] /\ pc[u] # "lock_slot"
      /\ slots_map' = [slots_map EXCEPT ![b.sign] = b.slot]
  BY <1>2 DEF LockSlot, Locking, TypeOK
<1>4. Grows
  BY <1>3 DEF Grows, Stuck
<1>5. ASSUME space = "enough", NEW u \in Thread, NEW k \in held[u], k.sign = b.sign
      PROVE  slots_map[b.sign] = b.slot /\ k.slot = b.slot
  <2>1. slots_map[b.sign] = k.slot /\ k.slot \in Slot
    BY <1>4, <1>5 DEF EnoughSpace, TypeOK, Block
  <2>2. slots_map[b.sign] # NoSlot
    BY <2>1, SlotType
  <2> QED
    BY <1>2, <1>3, <1>4, <1>5, <2>1, <2>2 DEF EnoughSpace
<1>6. EnoughSpace'
  <2>1. ASSUME space = "enough", NEW u \in Thread, NEW k \in held'[u]
        PROVE  slots_map'[k.sign] = k.slot
    <3>1. CASE k = b
      BY <1>2, <1>3, <3>1 DEF TypeOK
    <3>2. CASE k # b
      <4>1. k \in held[u] /\ k.sign \in Sign
        BY <1>1, <2>1, <3>2 DEF TypeOK, Block
      <4>2. k.sign = b.sign => slots_map'[k.sign] = k.slot
        BY <1>2, <1>3, <1>5, <2>1, <4>1 DEF TypeOK
      <4>3. k.sign # b.sign => slots_map'[k.sign] = slots_map[k.sign]
        BY <1>2, <1>3, <4>1 DEF TypeOK
      <4> QED
        BY <1>4, <2>1, <4>1, <4>2, <4>3 DEF EnoughSpace
    <3> QED
      BY <3>1, <3>2
  <2> QED
    BY <1>3, <2>1 DEF EnoughSpace
<1>7. ASSUME space = "enough", NEW u \in Thread \ {t}, NEW k \in held[u], k.sign = b.sign
      PROVE  k.op = "read" /\ b.op = "read"
  BY <1>1, <1>2, <1>5, <1>7, ThreadAssumption DEF Locks, HasLock
<1>8. \A u \in Thread : \A k \in held'[u] : k \in held[u] \/ (u = t /\ k = b)
  BY <1>1 DEF TypeOK
<1>9. SharedIsRead'
  BY <1>3, <1>7, <1>8 DEF SharedIsRead
<1> QED
  BY <1>6, <1>9

LEMMA SpaceRelease ==
  ASSUME HolderInv, EnoughSpace, SharedIsRead, NEW t \in Thread,
         \/ ReleaseReadingBlock(t) \/ ReleaseWritingBlock(t)
         \/ ReleaseLostBlock(t) \/ UnlockByNonOwner(t)
  PROVE  EnoughSpace' /\ SharedIsRead'
<1> USE DEF HolderInv, CacheInv, TableInv
<1>1. PICK h \in held[t] :
        /\ Releases(t, h)
        /\ slots_map' \in {slots_map, Forget(h.sign)}
  BY DEF ReleaseReadingBlock, ReleaseWritingBlock, ReleaseLostBlock, UnlockByNonOwner
<1>2. /\ UNCHANGED <<pc, req, target, space, map_mutex>>
      /\ server' = server \/ server' = "undefined"
  BY DEF ReleaseReadingBlock, ReleaseWritingBlock, ReleaseLostBlock, UnlockByNonOwner,
     calls, history
<1>3. Grows /\ \A u \in Thread : pc[u] # "lock_slot"
  BY <1>1, ThreadAssumption DEF Releases, Grows, Stuck, Locking
<1>4. held' = [held EXCEPT ![t] = @ \ {h}]
  BY <1>1 DEF Releases
<1>5. SharedIsRead'
  BY <1>2, <1>4 DEF SharedIsRead, TypeOK
<1>6. ASSUME space = "enough", NEW u \in Thread, NEW k \in held'[u]
      PROVE  slots_map'[k.sign] = k.slot
  <2>1. k \in held[u] /\ (u # t \/ k # h) /\ k.sign \in Sign
    BY <1>4, <1>6 DEF TypeOK, Block
  <2>2. slots_map[k.sign] = k.slot /\ slots_map[h.sign] = h.slot
    BY <1>3, <1>6, <2>1 DEF EnoughSpace
  <2>3. k.sign # h.sign
    BY <1>3, <2>1, <2>2 DEF OneHolderPerSlot
  <2> QED
    BY <1>1, <2>1, <2>2, <2>3 DEF Forget, TypeOK
<1> QED
  BY <1>2, <1>3, <1>5, <1>6 DEF EnoughSpace

LEMMA ExclusionNext ==
  ASSUME OneCreator, ExclusionInv, [Next]_vars
  PROVE  ExclusionInv'
<1> USE DEF ExclusionInv
<1>1. HolderInv' /\ OwnWork'
  BY HolderNext, OwnWorkNext
<1>2. ASSUME NEW t \in Thread, CallLoad(t) \/ CallCreate(t)
      PROVE  EnoughSpace' /\ SharedIsRead'
  <2>1. \E op \in Op, sign \in {GetSign(f, a) : f \in File, a \in 0 .. MaxBlock - 1} :
          Call(t, op, sign)
    BY <1>2, WorkAssumption, BoundAssumption DEF CallLoad, CallCreate, Op
  <2>2. /\ pc[t] = "idle" /\ pc'[t] = "enter"
        /\ \A u \in Thread \ {t} : pc'[u] = pc[u] /\ req'[u] = req[u]
        /\ UNCHANGED <<server, slots_map, map_mutex, held, target, space>>
    BY <2>1 DEF Call, history, HolderInv, CacheInv, TableInv, TypeOK
  <2>3. Grows' => Grows
    BY <2>2 DEF Grows, Stuck
  <2> QED
    BY <2>2, <2>3, SpaceKept
<1>3. ASSUME NEW t \in Thread, Hit(t) PROVE EnoughSpace' /\ SharedIsRead'
  <2>1. /\ pc'[t] = "lock_slot" /\ req' = req
        /\ target'[t] = slots_map[req[t].sign]
        /\ \A u \in Thread \ {t} : pc'[u] = pc[u] /\ target'[u] = target[u]
        /\ UNCHANGED <<slots_map, held, space>>
        /\ server = "up" /\ map_mutex = NoThread
    BY <1>3 DEF Hit, history, HolderInv, CacheInv, TableInv, TypeOK
  <2>2. Grows
    BY <2>1, ThreadAssumption DEF Grows, Stuck
  <2> QED
    BY <2>1, <2>2 DEF EnoughSpace, SharedIsRead
<1>4. ASSUME NEW t \in Thread, FindSlot(t) PROVE EnoughSpace' /\ SharedIsRead'
  <2>1. SharedIsRead'
    BY <1>4 DEF FindSlot, history, SharedIsRead
  <2> QED
    BY <1>4, <2>1, SpaceFindSlot
<1>5. ASSUME NEW t \in Thread, MissSpace(t) PROVE EnoughSpace' /\ SharedIsRead'
  BY <1>5 DEF MissSpace, EnoughSpace, SharedIsRead
<1>6. ASSUME NEW t \in Thread, WaitForSpace(t) \/ SpuriousWakeup(t)
      PROVE  EnoughSpace' /\ SharedIsRead'
  <2>1. space # "enough" /\ space' = space
    BY <1>6 DEF WaitForSpace, SpuriousWakeup, history, EnoughSpace
  <2> QED
    BY <2>1 DEF EnoughSpace, SharedIsRead
<1>7. ASSUME NEW t \in Thread, LockSlot(t) PROVE EnoughSpace' /\ SharedIsRead'
  BY <1>7, SpaceLockSlot
<1>8. ASSUME (\E t \in Thread : Modify(t)) \/ UNCHANGED vars
      PROVE  EnoughSpace' /\ SharedIsRead'
  <2>1. UNCHANGED <<server, slots_map, map_mutex, held, pc, req, target, space>>
    BY <1>8 DEF Modify, vars, calls, history
  <2>2. Grows' => Grows
    BY <2>1 DEF Grows, Stuck
  <2> QED
    BY <2>1, <2>2, SpaceKept
<1>9. ASSUME NEW t \in Thread,
             \/ ReleaseReadingBlock(t) \/ ReleaseWritingBlock(t)
             \/ ReleaseLostBlock(t) \/ UnlockByNonOwner(t)
      PROVE  EnoughSpace' /\ SharedIsRead'
  BY <1>9, SpaceRelease
<1>10. ASSUME Exit \/ CrashAstray PROVE EnoughSpace' /\ SharedIsRead'
  BY <1>10 DEF Exit, CrashAstray, Stop, EnoughSpace, SharedIsRead
<1>11. ASSUME Start PROVE EnoughSpace' /\ SharedIsRead'
  <2>1. held' = [t \in Thread |-> {}] /\ pc' = [t \in Thread |-> "idle"]
    BY <1>11 DEF Start, calls, HolderInv, NoHolders, CacheInv, Stopped
  <2> QED
    BY <2>1 DEF EnoughSpace, SharedIsRead
<1>12. CASE \E t \in Thread : GiveUp(t)
  BY <1>1, <1>10, <1>12 DEF GiveUp
<1>13. CASE Crash \/ CrashAstray
  BY <1>1, <1>10, <1>13 DEF Crash
<1> QED
  BY <1>1, <1>2, <1>3, <1>4, <1>5, <1>6, <1>7, <1>8, <1>9, <1>11, <1>12, <1>13 DEF Next

-----------------------------------------------------------------------------
(* Two threads that hold one slot have both loaded it for reading, in all  *)
(* uses of the cache: of any file by any thread, with any garbage in the   *)
(* slots' counters.                                                        *)
THEOREM SlotsExclusive == Spec => []SlotExclusion
BY HolderCorrect, LocksExclude, PTL

(* Nor do two threads hold one block in two slots, one of them for         *)
(* writing, while slots are free for all calls, if each file in which      *)
(* blocks are created has one thread.                                      *)
THEOREM Exclusive ==
  ASSUME OneCreator
  PROVE  Spec => []MutualExclusion
<1>1. Init => ExclusionInv
  <2> SUFFICES ASSUME Init PROVE ExclusionInv
    OBVIOUS
  <2>1. OwnWork /\ EnoughSpace /\ SharedIsRead
    BY DEF Init, OwnWork, EnoughSpace, SharedIsRead
  <2> QED
    BY <2>1, HolderInit DEF ExclusionInv
<1>2. ExclusionInv /\ [Next]_vars => ExclusionInv'
  BY ExclusionNext
<1>3. ExclusionInv => MutualExclusion
  BY LocksExclude DEF ExclusionInv, SlotExclusion, SharedIsRead, MutualExclusion
<1> QED
  BY <1>1, <1>2, <1>3, PTL DEF Spec

-----------------------------------------------------------------------------
(* Proofs about LockWatcher where each file has one thread, as it has when *)
(* no two clients use one database: releases find their blocks, nothing    *)
(* is lost, and no slot leaks.                                             *)

(* No call returns with slots_map_mutex locked, no mutex is unlocked by    *)
(* one that has not locked it.                                             *)
NeverStuck == server # "undefined" /\ ~Stuck

(* A held block is in the slot the table names, whoever else loads what.   *)
Placed == \A t \in Thread : \A h \in held[t] : slots_map[h.sign] = h.slot

(* A block that is new, from the moment it has its address, is behind all  *)
(* blocks of its file, and the only one of that file.                      *)
NewAtEnd ==
  \A t \in Thread :
    /\ pc[t] \notin {"idle", "enter"} /\ req[t].op = "create" =>
         req[t].sign.addr >= length[req[t].sign.file]
    /\ \A h \in held[t] : h.op = "create" => h.sign.addr >= length[h.sign.file]
    /\ \A h, k \in held[t] :
         h.op = "create" /\ k.op = "create" /\ h.sign.file = k.sign.file => h = k

(* Behind the end of a file nothing has been written.                      *)
NothingBehind ==
  \A sign \in Sign : sign.addr >= length[sign.file] => disk[sign] = 0

(* A file is not ahead of the last change.                                 *)
DiskNotAhead == \A sign \in Sign : disk[sign] <= latest[sign]

OwnFilesInv ==
  /\ HolderInv /\ OwnWork
  /\ NeverStuck
  /\ Placed
  /\ NewAtEnd
  /\ NothingBehind
  /\ DiskNotAhead
  /\ CoherentView
  /\ DurableBlocks

-----------------------------------------------------------------------------
(* A thread that is past the choice of its block wants one that nobody     *)
(* has loaded.                                                             *)
LEMMA OwnUnmapped ==
  ASSUME PrivateFiles, HolderInv, OwnWork, Grows, NEW t \in Thread,
         pc[t] # "idle", req[t].op = "create" => pc[t] # "enter"
  PROVE  /\ slots_map[req[t].sign] = NoSlot
         /\ \A u \in Thread : \A h \in held[u] : h.sign # req[t].sign
<1> USE DEF HolderInv, CacheInv, TableInv
<1>1. ASSUME NEW u \in Thread, NEW h \in held[u] PROVE h.sign # req[t].sign
  <2>1. CASE u = t
    BY <2>1 DEF CreatesApart, LoadsAlone
  <2>2. CASE u # t
    BY <2>2 DEF OwnWork, PrivateFiles
  <2> QED
    BY <2>1, <2>2
<1>2. req[t].sign \in Sign
  BY DEF TypeOK
<1> QED
  BY <1>1, <1>2 DEF MappedIsHeld

LEMMA OwnGrows == OwnFilesInv /\ server = "up" => Grows
BY DEF OwnFilesInv, NeverStuck, Grows

(* No two held blocks have a slot or a name in common.                     *)
LEMMA HeldOnce ==
  ASSUME OwnFilesInv, Grows, NEW t \in Thread, NEW u \in Thread,
         NEW h \in held[t], NEW k \in held[u], h.sign = k.sign \/ h.slot = k.slot
  PROVE  t = u /\ h = k
<1>1. h.slot = k.slot
  BY DEF OwnFilesInv, Placed
<1> QED
  BY <1>1 DEF OwnFilesInv, HolderInv, OneHolderPerSlot

(* Steps that change neither table, bytes nor files.                       *)
LEMMA OwnKept ==
  ASSUME OwnFilesInv, server = "astray" => server' = "astray",
         UNCHANGED <<slots_map, mem, held, disk, length, latest>>
  PROVE  Placed' /\ NothingBehind' /\ DiskNotAhead' /\ CoherentView' /\ DurableBlocks'
<1> USE DEF OwnFilesInv
<1>1. Placed' /\ NothingBehind' /\ DiskNotAhead'
  BY DEF Placed, NothingBehind, DiskNotAhead
<1>2. CoherentView' /\ DurableBlocks'
  BY DEF CoherentView, DurableBlocks, NeverStuck, Astray
<1> QED
  BY <1>1, <1>2

LEMMA OwnCall ==
  ASSUME OwnFilesInv, HolderInv', OwnWork', NEW t \in Thread, CallLoad(t) \/ CallCreate(t)
  PROVE  OwnFilesInv'
<1> USE DEF OwnFilesInv
<1>1. \E op \in Op, sign \in {GetSign(f, a) : f \in File, a \in 0 .. MaxBlock - 1} :
        Call(t, op, sign)
  BY WorkAssumption, BoundAssumption DEF CallLoad, CallCreate, Op
<1>2. /\ pc[t] = "idle" /\ pc'[t] = "enter" /\ server = "up"
      /\ \A u \in Thread \ {t} : pc'[u] = pc[u] /\ req'[u] = req[u]
      /\ UNCHANGED <<server, slots_map, map_mutex, mem, held, disk, length, latest>>
  BY <1>1 DEF Call, pool, files, history, HolderInv, CacheInv, TableInv, TypeOK
<1>3. NeverStuck'
  BY <1>2 DEF NeverStuck, Stuck
<1>4. NewAtEnd'
  BY <1>2 DEF NewAtEnd
<1> QED
  BY <1>2, <1>3, <1>4, OwnKept

LEMMA OwnNoHit ==
  ASSUME PrivateFiles, OwnFilesInv, NEW t \in Thread
  PROVE  ~Hit(t)
<1>1. SUFFICES ASSUME Hit(t) PROVE FALSE
  OBVIOUS
<1>2. slots_map[req[t].sign] = NoSlot
  BY <1>1, OwnUnmapped, OwnGrows DEF OwnFilesInv, Hit
<1> QED
  BY <1>1, <1>2 DEF Hit

(* A new block's address is the file's length, and remains it while its    *)
(* creator waits.                                                          *)
LEMMA OwnLooksForSlot ==
  ASSUME OwnFilesInv, HolderInv', OwnWork', NEW t \in Thread,
         FindSlot(t) \/ MissSpace(t)
  PROVE  OwnFilesInv'
<1> USE DEF OwnFilesInv
<1>1. /\ WantsSlot(t) /\ server' = server /\ server = "up"
      /\ UNCHANGED <<slots_map, mem, held, disk, length, latest>>
      /\ req'[t].op = req[t].op /\ req'[t].sign = Wanted(t)
      /\ \A u \in Thread \ {t} :
           /\ req'[u] = req[u]
           /\ pc'[u] = pc[u] \/ (pc[u] = "wait" /\ pc'[u] = "woken")
      /\ IF map_mutex' = t THEN pc'[t] = "lock_slot" ELSE map_mutex' = NoThread
  BY ThreadAssumption DEF FindSlot, MissSpace, WantsSlot, pool, files, history,
     HolderInv, CacheInv, TableInv, TypeOK
<1>2. map_mutex' = t \/ map_mutex' = NoThread
  BY <1>1
<1>3. NeverStuck'
  BY <1>1, <1>2, ThreadAssumption DEF NeverStuck, Stuck
<1>4. ASSUME req[t].op = "create" PROVE Wanted(t).addr >= length[Wanted(t).file]
  <2>1. CASE pc[t] = "enter"
    <3>1. Wanted(t).addr = length[Wanted(t).file] /\ Wanted(t).file \in File
      BY <1>1, <1>4, <2>1 DEF Wanted, GetSign, GetNewBlockAddress, WantsSlot, Sign
    <3>2. length[Wanted(t).file] \in Int
      BY <3>1 DEF HolderInv, CacheInv, TableInv, TypeOK
    <3> QED
      BY <3>1, <3>2
  <2>2. CASE pc[t] # "enter"
    BY <1>1, <1>4, <2>2 DEF NewAtEnd, Wanted, WantsSlot
  <2> QED
    BY <2>1, <2>2
<1>5. NewAtEnd'
  BY <1>1, <1>4 DEF NewAtEnd
<1> QED
  BY <1>1, <1>3, <1>5, OwnKept

LEMMA OwnWaiting ==
  ASSUME OwnFilesInv, HolderInv', OwnWork', NEW t \in Thread,
         WaitForSpace(t) \/ SpuriousWakeup(t)
  PROVE  OwnFilesInv'
<1> USE DEF OwnFilesInv
<1>1. /\ UNCHANGED <<server, slots_map, map_mutex, mem, held, disk, length, latest, req>>
      /\ pc[t] \in {"no_space", "wait"} /\ pc'[t] \in {"wait", "woken"}
      /\ \A u \in Thread \ {t} : pc'[u] = pc[u]
  BY DEF WaitForSpace, SpuriousWakeup, pool, files, history,
     HolderInv, CacheInv, TableInv, TypeOK
<1>2. NeverStuck'
  BY <1>1 DEF NeverStuck, Stuck
<1>3. NewAtEnd'
  BY <1>1 DEF NewAtEnd
<1> QED
  BY <1>1, <1>2, <1>3, OwnKept

(* The bytes of the slot become those of the block, of which nobody else   *)
(* has a copy, and slots_map_mutex is unlocked.                            *)
LEMMA OwnLockSlot ==
  ASSUME PrivateFiles, OwnFilesInv, HolderInv', OwnWork', NEW t \in Thread, LockSlot(t)
  PROVE  OwnFilesInv'
<1> USE DEF OwnFilesInv, HolderInv, CacheInv, TableInv
<1>1. PICK b \in Block :
        /\ b = [sign |-> req[t].sign, slot |-> target[t], op |-> req[t].op]
        /\ held' = [held EXCEPT ![t] = @ \cup {b}]
  BY LockTaken
<1>2. /\ b.sign = req[t].sign /\ b.slot = target[t] /\ b.op = req[t].op
      /\ b.sign \in Sign /\ b.slot \in Slot
  BY <1>1 DEF Block
<1>3. /\ server = "up" /\ server' \in {"up", "astray"}
      /\ pc[t] = "lock_slot" /\ pc'[t] = "idle"
      /\ map_mutex = t
      /\ \A u \in Thread \ {t} : pc'[u] = pc[u] /\ req'[u] = req[u]
      /\ UNCHANGED <<disk, length>>
  BY DEF LockSlot, Locking, TypeOK, files
<1>4. Grows
  BY <1>3, OwnGrows
<1>5. /\ slots_map[b.sign] = NoSlot
      /\ \A u \in Thread : \A h \in held[u] : h.sign # b.sign
  BY <1>2, <1>3, <1>4, OwnUnmapped
<1>6. slots_map[b.sign] # b.slot /\ ~in_use[b.slot]
  BY <1>2, <1>3, <1>5, SlotType DEF Locking
<1>7. \A u \in Thread : \A h \in held[u] : h.slot # b.slot /\ h.slot \in Slot /\ h.sign \in Sign
  BY <1>4, <1>6 DEF OneHolderPerSlot, TypeOK, Block
<1>8. /\ slots_map' = [slots_map EXCEPT ![b.sign] = b.slot]
      /\ map_mutex' = NoThread
      /\ ~Astray' =>
           mem' = [mem EXCEPT ![b.slot] = IF b.op = "create" THEN 0 ELSE disk[b.sign]]
      /\ latest' = IF b.op = "create" THEN [latest EXCEPT ![b.sign] = 0] ELSE latest
  BY <1>2, <1>6 DEF LockSlot, MutexAfterLoad, Loaded, Astray
<1>9. \A u \in Thread : \A h \in held'[u] : (u = t /\ h = b) \/ h \in held[u]
  BY <1>1 DEF TypeOK
<1>10. NeverStuck'
  BY <1>3, <1>8, ThreadAssumption DEF NeverStuck, Stuck
<1>11. Placed'
  BY <1>2, <1>5, <1>7, <1>8, <1>9 DEF Placed, TypeOK
<1>12. b.op = "create" => b.sign.addr >= length[b.sign.file]
  BY <1>2, <1>3 DEF NewAtEnd
<1>13. NewAtEnd'
  <2>1. ASSUME NEW h \in held[t], b.op = "create", h.op = "create" PROVE h.sign.file # b.sign.file
    BY <1>2, <1>3, <1>4, <2>1 DEF CreatesApart
  <2>2. \A u \in Thread : \A h \in held'[u] : h.op = "create" => h.sign.addr >= length[h.sign.file]
    BY <1>9, <1>12 DEF NewAtEnd
  <2>3. \A u \in Thread : \A h, k \in held'[u] :
          h.op = "create" /\ k.op = "create" /\ h.sign.file = k.sign.file => h = k
    BY <1>9, <2>1 DEF NewAtEnd
  <2> QED
    BY <1>3, <2>2, <2>3 DEF NewAtEnd
<1>14. b.op = "create" => disk[b.sign] = 0
  BY <1>2, <1>12 DEF NothingBehind
<1>15. NothingBehind' /\ DiskNotAhead'
  BY <1>2, <1>3, <1>8, <1>14 DEF NothingBehind, DiskNotAhead, TypeOK
<1>16. disk[b.sign] = latest[b.sign]
  BY <1>2, <1>3, <1>5 DEF DurableBlocks
<1>17. CoherentView'
  <2> SUFFICES ASSUME ~Astray' PROVE CoherentView'
    BY DEF CoherentView
  <2>1. mem'[b.slot] = latest'[b.sign]
    BY <1>2, <1>8, <1>16 DEF TypeOK
  <2>2. ASSUME NEW u \in Thread, NEW h \in held[u] PROVE mem'[h.slot] = latest'[h.sign]
    <3>1. mem'[h.slot] = mem[h.slot] /\ latest'[h.sign] = latest[h.sign]
      BY <1>5, <1>7, <1>8 DEF TypeOK
    <3> QED
      BY <1>3, <3>1 DEF CoherentView, Astray
  <2> QED
    BY <1>9, <2>1, <2>2 DEF CoherentView
<1>18. DurableBlocks'
  <2>1. \A u \in Thread : held[u] \subseteq held'[u]
    BY <1>1 DEF TypeOK
  <2>2. b \in held'[t]
    BY <1>1 DEF TypeOK
  <2>3. \A sign \in Sign : latest'[sign] = latest[sign] \/ (sign = b.sign /\ b.op # "read")
    BY <1>2, <1>8 DEF TypeOK
  <2> QED
    BY <1>3, <2>1, <2>2, <2>3 DEF DurableBlocks
<1> QED
  BY <1>10, <1>11, <1>13, <1>15, <1>17, <1>18

LEMMA OwnModify ==
  ASSUME OwnFilesInv, HolderInv', OwnWork', NEW t \in Thread, Modify(t)
  PROVE  OwnFilesInv'
<1> USE DEF OwnFilesInv, HolderInv, CacheInv, TableInv
<1>1. PICK h \in held[t] :
        /\ h.op # "read"
        /\ mem' = [mem EXCEPT ![h.slot] = @ + 1]
        /\ latest' = [latest EXCEPT ![h.sign] = @ + 1]
  BY DEF Modify
<1>2. /\ server = "up"
      /\ UNCHANGED <<server, slots_map, map_mutex, held, disk, length, pc, req>>
  BY DEF Modify, calls, files
<1>3. \A u \in Thread : \A k \in held[u] : k.slot \in Slot /\ k.sign \in Sign
  BY DEF TypeOK, Block
<1>4. NeverStuck' /\ Placed' /\ NewAtEnd' /\ NothingBehind'
  BY <1>2 DEF NeverStuck, Stuck, Placed, NewAtEnd, NothingBehind
<1>5. DiskNotAhead'
  BY <1>1, <1>2 DEF DiskNotAhead, TypeOK
<1>6. CoherentView'
  <2>1. ASSUME NEW u \in Thread, NEW k \in held[u] PROVE mem'[k.slot] = latest'[k.sign]
    <3>1. k = h \/ (k.slot # h.slot /\ k.sign # h.sign)
      BY <1>2, OwnGrows, HeldOnce
    <3>2. mem[k.slot] = latest[k.sign]
      BY <1>2 DEF CoherentView, Astray
    <3> QED
      BY <1>1, <1>3, <3>1, <3>2 DEF TypeOK
  <2> QED
    BY <1>2, <2>1 DEF CoherentView
<1>7. DurableBlocks'
  <2>1. \A sign \in Sign : latest'[sign] = latest[sign] \/ (sign = h.sign /\ h.op # "read")
    BY <1>1, <1>3 DEF TypeOK
  <2> QED
    BY <1>2, <2>1 DEF DurableBlocks
<1> QED
  BY <1>4, <1>5, <1>6, <1>7

(* Under the invariant a release finds its block and its own lock.         *)
LEMMA OwnNoLoss ==
  ASSUME OwnFilesInv, NEW t \in Thread
  PROVE  ~ReleaseLostBlock(t) /\ ~UnlockByNonOwner(t)
<1> USE DEF OwnFilesInv, HolderInv, CacheInv, TableInv
<1>1. \A h \in held[t] : slots_map[h.sign] = h.slot /\ h.slot # NoSlot /\ HasLock(t, h)
  BY SlotType DEF Placed, Locks, TypeOK, Block
<1>2. ~ReleaseLostBlock(t)
  BY <1>1 DEF ReleaseLostBlock
<1>3. ~UnlockByNonOwner(t)
  BY <1>1 DEF UnlockByNonOwner, HasLock
<1> QED
  BY <1>2, <1>3

(* What a release leaves to the others.                                    *)
LEMMA OwnReleased ==
  ASSUME OwnFilesInv, NEW t \in Thread, NEW h \in held[t], Releases(t, h),
         UNCHANGED <<server, map_mutex, pc, mem, latest>>, slots_map' = Forget(h.sign)
  PROVE  /\ NeverStuck' /\ Placed' /\ CoherentView'
         /\ \A u \in Thread : held'[u] \subseteq held[u]
         /\ \A u \in Thread : \A k \in held[u] : k # h => k \in held'[u]
<1> USE DEF OwnFilesInv, HolderInv, CacheInv, TableInv
<1>1. /\ held' = [held EXCEPT ![t] = @ \ {h}]
      /\ map_mutex = NoThread /\ server = "up"
  BY DEF Releases
<1>2. /\ \A u \in Thread : held'[u] \subseteq held[u]
      /\ \A u \in Thread : \A k \in held[u] : k # h => k \in held'[u]
      /\ h \notin held'[t]
  BY <1>1 DEF TypeOK
<1>3. NeverStuck'
  BY <1>1, ThreadAssumption DEF NeverStuck, Stuck
<1>4. Placed'
  <2>1. ASSUME NEW u \in Thread, NEW k \in held'[u] PROVE slots_map'[k.sign] = k.slot
    <3>1. k \in held[u] /\ k.sign \in Sign
      BY <1>2 DEF TypeOK, Block
    <3>2. k.sign # h.sign
      BY <1>1, <1>2, <3>1, OwnGrows, HeldOnce
    <3> QED
      BY <3>1, <3>2 DEF Forget, Placed, TypeOK
  <2> QED
    BY <2>1 DEF Placed
<1>5. CoherentView'
  BY <1>1, <1>2 DEF CoherentView, Astray
<1> QED
  BY <1>2, <1>3, <1>4, <1>5

LEMMA OwnReleaseReadingBlock ==
  ASSUME OwnFilesInv, HolderInv', OwnWork', NEW t \in Thread, ReleaseReadingBlock(t)
  PROVE  OwnFilesInv'
<1> USE DEF OwnFilesInv
<1>1. PICK h \in held[t] :
        /\ Releases(t, h)
        /\ h.op = "read"
        /\ slots_map' = Forget(h.sign)
  BY DEF ReleaseReadingBlock
<1>2. UNCHANGED <<server, map_mutex, pc, req, mem, disk, length, latest>>
  BY DEF ReleaseReadingBlock, calls, files, history
<1>3. /\ NeverStuck' /\ Placed' /\ CoherentView'
      /\ \A u \in Thread : held'[u] \subseteq held[u]
      /\ \A u \in Thread : \A k \in held[u] : k # h => k \in held'[u]
  BY <1>1, <1>2, OwnReleased
<1>4. NewAtEnd' /\ NothingBehind' /\ DiskNotAhead'
  BY <1>2, <1>3 DEF NewAtEnd, NothingBehind, DiskNotAhead
<1>5. DurableBlocks'
  BY <1>1, <1>2, <1>3 DEF DurableBlocks
<1> QED
  BY <1>3, <1>4, <1>5

(* The file gets the last change of the block, which it did not have or    *)
(* had already, and ends no earlier than before.                           *)
LEMMA FlushGrows ==
  ASSUME OwnFilesInv, NEW t \in Thread, ReleaseWritingBlock(t)
  PROVE  \E h \in held[t] :
           /\ Releases(t, h) /\ h.op # "read"
           /\ slots_map' = Forget(h.sign)
           /\ disk' = [disk EXCEPT ![h.sign] = latest[h.sign]]
           /\ length' = LengthAfterFlush(h.sign)
<1> USE DEF OwnFilesInv
<1>1. PICK h \in held[t] :
        /\ Releases(t, h) /\ h.op # "read"
        /\ slots_map' = Forget(h.sign)
        /\ disk' = Flush(h.sign, slots_map[h.sign])
        /\ length' = LengthAfterFlush(h.sign)
  BY DEF ReleaseWritingBlock
<1>2. mem[slots_map[h.sign]] = latest[h.sign]
  BY <1>1 DEF Placed, CoherentView, Releases, Astray
<1> QED
  BY <1>1, <1>2 DEF Flush

LEMMA OwnReleaseWritingBlock ==
  ASSUME PrivateFiles, OwnFilesInv, HolderInv', OwnWork', NEW t \in Thread,
         ReleaseWritingBlock(t)
  PROVE  OwnFilesInv'
<1> USE DEF OwnFilesInv, HolderInv, CacheInv, TableInv
<1>1. PICK h \in held[t] :
        /\ Releases(t, h) /\ h.op # "read"
        /\ slots_map' = Forget(h.sign)
        /\ disk' = [disk EXCEPT ![h.sign] = latest[h.sign]]
        /\ length' = LengthAfterFlush(h.sign)
  BY FlushGrows
<1>2. UNCHANGED <<server, map_mutex, pc, req, mem, latest>>
  BY DEF ReleaseWritingBlock, calls, history
<1>3. /\ NeverStuck' /\ Placed' /\ CoherentView'
      /\ \A u \in Thread : held'[u] \subseteq held[u]
      /\ \A u \in Thread : \A k \in held[u] : k # h => k \in held'[u]
  BY <1>1, <1>2, OwnReleased
<1>4. h \in Block /\ h.sign \in Sign /\ h.sign.file \in File /\ h.sign.addr \in Int
  BY DEF TypeOK, Block, Sign
<1>5. /\ Grows /\ pc[t] = "idle" /\ h \notin held'[t]
  BY <1>1, OwnGrows DEF Releases, TypeOK
<1>6. /\ \A f \in File : f # h.sign.file => length'[f] = length[f]
      /\ h.op # "create" => length' = length
      /\ \A f \in File : length[f] <= length'[f]
      /\ length'[h.sign.file] > h.sign.addr
  <2>1. \A f \in File : length[f] \in Int
    BY DEF TypeOK
  <2>2. length' = [length EXCEPT ![h.sign.file] =
                     IF h.sign.addr < @ THEN @ ELSE h.sign.addr + 1]
    BY <1>1 DEF LengthAfterFlush
  <2>3. h.op # "create" => h.sign.addr < length[h.sign.file]
    BY <1>5 DEF HeldApart
  <2>4. h.op # "create" => length' = length
    BY <1>4, <2>2, <2>3 DEF TypeOK
  <2> QED
    BY <1>4, <2>1, <2>2, <2>4 DEF TypeOK
<1>7. NewAtEnd'
  <2>1. ASSUME NEW u \in Thread, pc[u] \notin {"idle", "enter"}, req[u].op = "create"
        PROVE  req[u].sign.addr >= length'[req[u].sign.file]
    <3>1. u # t /\ req[u].sign.file \in File
      BY <1>5, <2>1 DEF TypeOK, Sign
    <3>2. req[u].sign.file # h.sign.file
      BY <2>1, <3>1 DEF OwnWork, PrivateFiles
    <3> QED
      BY <1>6, <2>1, <3>1, <3>2 DEF NewAtEnd
  <2>2. ASSUME NEW u \in Thread, NEW k \in held'[u], k.op = "create"
        PROVE  k.sign.addr >= length'[k.sign.file]
    <3>1. k \in held[u] /\ k.sign.file \in File
      BY <1>3 DEF TypeOK, Block, Sign
    <3>2. k.sign.file = h.sign.file => h.op # "create"
      <4>1. CASE u = t
        BY <1>5, <2>2, <3>1, <4>1 DEF NewAtEnd
      <4>2. CASE u # t
        BY <3>1, <4>2 DEF OwnWork, PrivateFiles
      <4> QED
        BY <4>1, <4>2
    <3> QED
      BY <1>6, <2>2, <3>1, <3>2 DEF NewAtEnd
  <2> QED
    BY <1>2, <1>3, <2>1, <2>2 DEF NewAtEnd
<1>8. NothingBehind'
  <2>1. ASSUME NEW sign \in Sign, sign.addr >= length'[sign.file] PROVE disk'[sign] = 0
    <3>1. sign # h.sign
      BY <1>4, <1>6, <2>1 DEF TypeOK
    <3>2. sign.file \in File /\ sign.addr \in Int /\ length[sign.file] \in Int
          /\ length'[sign.file] \in Int
      BY DEF Sign, TypeOK
    <3>3. sign.addr >= length[sign.file]
      BY <1>6, <2>1, <3>2
    <3> QED
      BY <1>1, <3>1, <3>3 DEF NothingBehind, TypeOK
  <2> QED
    BY <2>1 DEF NothingBehind
<1>9. DiskNotAhead'
  BY <1>1, <1>2 DEF DiskNotAhead, TypeOK
<1>10. DurableBlocks'
  <2>1. \A sign \in Sign : disk'[sign] = latest[sign] \/ (sign # h.sign /\ disk'[sign] = disk[sign])
    BY <1>1, <1>4 DEF TypeOK
  <2> QED
    BY <1>2, <1>3, <2>1 DEF DurableBlocks
<1> QED
  BY <1>3, <1>7, <1>8, <1>9, <1>10

LEMMA OwnExit ==
  ASSUME OwnFilesInv, HolderInv', OwnWork', Exit \/ CrashAstray
  PROVE  OwnFilesInv'
<1> USE DEF OwnFilesInv, HolderInv, CacheInv, TableInv
<1>1. /\ held' = [t \in Thread |-> {}] /\ pc' = [t \in Thread |-> "idle"]
      /\ latest' = disk'
      /\ server' = "down" /\ map_mutex' = NoThread
  BY DEF Exit, CrashAstray, Stop
<1>2. NeverStuck'
  BY <1>1, ThreadAssumption DEF NeverStuck, Stuck
<1>3. Placed' /\ NewAtEnd' /\ CoherentView'
  BY <1>1 DEF Placed, NewAtEnd, CoherentView
<1>4. NothingBehind'
  <2>1. CASE Exit
    BY <2>1 DEF Exit, files, NothingBehind
  <2>2. CASE CrashAstray
    BY <2>2 DEF CrashAstray, NothingBehind
  <2> QED
    BY <2>1, <2>2
<1>5. DiskNotAhead' /\ DurableBlocks'
  BY <1>1 DEF DiskNotAhead, DurableBlocks, TypeOK
<1> QED
  BY <1>2, <1>3, <1>4, <1>5

LEMMA OwnStart ==
  ASSUME OwnFilesInv, HolderInv', OwnWork', Start \/ UNCHANGED vars
  PROVE  OwnFilesInv'
<1> USE DEF OwnFilesInv
<1>1. UNCHANGED <<slots_map, mem, held, disk, length, latest, map_mutex, pc, req>>
  BY DEF Start, vars, pool, calls, files, history
<1>2. server' # "undefined" /\ (server = "astray" => server' = "astray")
  BY DEF Start, vars, NeverStuck
<1>3. NeverStuck' /\ NewAtEnd'
  BY <1>1, <1>2 DEF NeverStuck, Stuck, NewAtEnd
<1> QED
  BY <1>1, <1>2, <1>3, OwnKept

LEMMA OwnInit == Init => OwnFilesInv
<1> SUFFICES ASSUME Init PROVE OwnFilesInv
  OBVIOUS
<1>1. HolderInv /\ OwnWork
  BY HolderInit DEF Init, OwnWork
<1>2. NeverStuck
  BY ThreadAssumption DEF Init, NeverStuck, Stuck
<1>3. Placed /\ NewAtEnd /\ CoherentView
  BY DEF Init, Placed, NewAtEnd, CoherentView
<1>4. NothingBehind /\ DiskNotAhead /\ DurableBlocks
  BY DEF Init, NothingBehind, DiskNotAhead, DurableBlocks
<1> QED
  BY <1>1, <1>2, <1>3, <1>4 DEF OwnFilesInv

LEMMA OwnNext ==
  ASSUME PrivateFiles, OwnFilesInv, [Next]_vars
  PROVE  OwnFilesInv'
<1>1. HolderInv' /\ OwnWork'
  BY HolderNext, OwnWorkNext DEF OwnFilesInv
<1>2. ASSUME NEW t \in Thread,
             \/ CallLoad(t) \/ CallCreate(t) \/ Hit(t) \/ FindSlot(t)
             \/ MissSpace(t) \/ WaitForSpace(t) \/ SpuriousWakeup(t)
             \/ LockSlot(t) \/ Modify(t)
             \/ ReleaseReadingBlock(t) \/ ReleaseWritingBlock(t)
             \/ ReleaseLostBlock(t) \/ UnlockByNonOwner(t)
      PROVE  OwnFilesInv'
  BY <1>1, <1>2, OwnCall, OwnNoHit, OwnLooksForSlot, OwnWaiting, OwnLockSlot, OwnModify,
     OwnReleaseReadingBlock, OwnReleaseWritingBlock, OwnNoLoss
<1>3. CASE (\E t \in Thread : GiveUp(t)) \/ Crash \/ CrashAstray
  BY <1>1, <1>3, OwnExit DEF GiveUp, Crash
<1>4. CASE Start \/ UNCHANGED vars
  BY <1>1, <1>4, OwnStart
<1> QED
  BY <1>2, <1>3, <1>4 DEF Next

LEMMA OwnCorrect ==
  ASSUME PrivateFiles
  PROVE  Spec => []OwnFilesInv
<1>1. OwnFilesInv /\ [Next]_vars => OwnFilesInv'
  BY OwnNext
<1> QED
  BY OwnInit, <1>1, PTL DEF Spec

-----------------------------------------------------------------------------
(* As the properties they are about, the theorems below speak of servers   *)
(* that have followed no link to behind the end of a file; earlier servers *)
(* may have done so, and left whatever they liked in the files.            *)

(* Each release finds its block where it was loaded, under a lock of its   *)
(* own, so no release unlocks what is another's or leaves a change behind  *)
(* in the slot.                                                            *)
THEOREM ReleasesFind ==
  ASSUME PrivateFiles
  PROVE  Spec => []ReleaseFindsItsBlock
<1>1. OwnFilesInv => ReleaseFindsItsBlock
  BY DEF OwnFilesInv, NeverStuck, Placed, HolderInv, Locks, HasLock, ReleaseFindsItsBlock
<1> QED
  BY <1>1, OwnCorrect, PTL

(* Who holds a block sees the last change made to it and not lost with an  *)
(* earlier server.                                                         *)
THEOREM Coherent ==
  ASSUME PrivateFiles
  PROVE  Spec => []CoherentView
<1>1. OwnFilesInv => CoherentView
  BY DEF OwnFilesInv
<1> QED
  BY <1>1, OwnCorrect, PTL

(* What no writer holds is in its file, through crashes and restarts.      *)
THEOREM Durable ==
  ASSUME PrivateFiles
  PROVE  Spec => []DurableBlocks
<1>1. OwnFilesInv => DurableBlocks
  BY DEF OwnFilesInv
<1> QED
  BY <1>1, OwnCorrect, PTL

(* No file ever gets an older state of a block than it has, or the bytes   *)
(* of another block, not by the creation of a block either.                *)
THEOREM NeverLost ==
  ASSUME PrivateFiles
  PROVE  Spec => FlushedNeverLost
<1>1. ASSUME OwnFilesInv, [Next]_vars
      PROVE  ~Astray => \A sign \in Sign : disk[sign] <= disk'[sign]
  <2>1. \A sign \in Sign : disk[sign] <= latest[sign] /\ disk[sign] \in Int
    BY <1>1 DEF OwnFilesInv, DiskNotAhead, HolderInv, CacheInv, TableInv, TypeOK
  <2>2. ASSUME NEW t \in Thread, ReleaseWritingBlock(t)
        PROVE  \A sign \in Sign : disk[sign] <= disk'[sign]
    <3>1. \E sign : disk' = [disk EXCEPT ![sign] = latest[sign]]
      BY <1>1, <2>2, FlushGrows
    <3> QED
      BY <1>1, <2>1, <3>1 DEF OwnFilesInv, HolderInv, CacheInv, TableInv, TypeOK
  <2>3. (\A t \in Thread : ~ReleaseWritingBlock(t)) => Astray \/ UNCHANGED disk
    BY <1>1 DEF Next, vars, files, CallLoad, CallCreate, Call, Hit, FindSlot, MissSpace, GiveUp,
       WaitForSpace, SpuriousWakeup, LockSlot, Modify, ReleaseReadingBlock, ReleaseLostBlock,
       UnlockByNonOwner, Start, Crash, CrashAstray, Exit, Astray
  <2> QED
    BY <2>1, <2>2, <2>3
<1> QED
  BY <1>1, OwnCorrect, PTL DEF Spec, FlushedNeverLost

-----------------------------------------------------------------------------
(* The slots' fields start as the zeros of fresh memory.                   *)
CleanSlots == GarbageInUse \subseteq {FALSE} /\ GarbageUsers \subseteq {0}

(* The count of a slot and its mark say the same: one user, or none.       *)
SlotsCounted == \A s \in Slot : user_amount[s] = IF in_use[s] THEN 1 ELSE 0

(* As NoSlotLeak, in any server.                                           *)
SlotsHeld ==
  \A s \in Slot : in_use[s] => \E t \in Thread : \E h \in held[t] : h.slot = s

LeakInv == OwnFilesInv /\ SlotsCounted /\ SlotsHeld

LEMMA LeakLockSlot ==
  ASSUME PrivateFiles, LeakInv, NEW t \in Thread, LockSlot(t)
  PROVE  SlotsCounted' /\ SlotsHeld'
<1> USE DEF LeakInv, OwnFilesInv, HolderInv, CacheInv, TableInv
<1>1. PICK b \in Block :
        /\ b = [sign |-> req[t].sign, slot |-> target[t], op |-> req[t].op]
        /\ held' = [held EXCEPT ![t] = @ \cup {b}]
  BY CacheNext, LockTaken DEF Next
<1>2. b.slot = target[t] /\ b.op = req[t].op /\ b.slot \in Slot
  BY <1>1 DEF Block
<1>3. ~in_use[b.slot]
  <2>1. Grows /\ pc[t] = "lock_slot"
    BY OwnGrows DEF LockSlot
  <2>2. slots_map[req[t].sign] = NoSlot
    BY <2>1, OwnUnmapped
  <2> QED
    BY <1>2, <2>1, <2>2, SlotType DEF Locking
<1>4. in_use' = [in_use EXCEPT ![b.slot] = TRUE]
  BY <1>2 DEF LockSlot, MarkInUse
<1>5. user_amount' = [user_amount EXCEPT ![b.slot] = 1]
  <2>1. user_amount[b.slot] = 0
    BY <1>2, <1>3 DEF SlotsCounted
  <2> QED
    BY <1>2, <2>1 DEF LockSlot, AddUser, TypeOK
<1>6. SlotsCounted'
  <2>1. ASSUME NEW s \in Slot PROVE user_amount'[s] = IF in_use'[s] THEN 1 ELSE 0
    <3>1. CASE s = b.slot
      BY <1>4, <1>5, <3>1 DEF TypeOK
    <3>2. CASE s # b.slot
      BY <1>4, <1>5, <3>2 DEF TypeOK, SlotsCounted
    <3> QED
      BY <3>1, <3>2
  <2> QED
    BY <2>1 DEF SlotsCounted
<1>7. ASSUME NEW s \in Slot, in_use'[s]
      PROVE  \E u \in Thread : \E h \in held'[u] : h.slot = s
  <2>1. b \in held'[t] /\ \A u \in Thread : held[u] \subseteq held'[u]
    BY <1>1 DEF TypeOK
  <2>2. s = b.slot \/ in_use[s]
    BY <1>4, <1>7 DEF TypeOK
  <2> QED
    BY <2>1, <2>2 DEF SlotsHeld
<1> QED
  BY <1>6, <1>7 DEF SlotsHeld

(* A release frees the slot of the block, whichever kind it is of.         *)
LEMMA LeakRelease ==
  ASSUME LeakInv, NEW t \in Thread, ReleaseReadingBlock(t) \/ ReleaseWritingBlock(t)
  PROVE  SlotsCounted' /\ SlotsHeld'
<1> USE DEF LeakInv, OwnFilesInv, HolderInv, CacheInv, TableInv
<1>1. PICK h \in held[t] :
        /\ Releases(t, h)
        /\ \/ /\ user_amount' = [user_amount EXCEPT ![h.slot] = @ - 1]
              /\ in_use' = [in_use EXCEPT ![h.slot] = @ /\ user_amount[h.slot] # 1]
           \/ /\ user_amount' = [user_amount EXCEPT ![h.slot] = 0]
              /\ in_use' = [in_use EXCEPT ![h.slot] = FALSE]
  <2>1. CASE ReleaseReadingBlock(t)
    <3>1. PICK h \in held[t] :
            /\ Releases(t, h)
            /\ user_amount' = [user_amount EXCEPT ![slots_map[h.sign]] = @ - 1]
            /\ in_use' = [in_use EXCEPT ![slots_map[h.sign]] =
                            @ /\ user_amount[slots_map[h.sign]] # 1]
      BY <2>1 DEF ReleaseReadingBlock
    <3>2. slots_map[h.sign] = h.slot
      BY DEF Placed
    <3> QED
      BY <3>1, <3>2
  <2>2. CASE ReleaseWritingBlock(t)
    <3>1. PICK h \in held[t] : Releases(t, h) /\ ReleaseSlot(slots_map[h.sign])
      BY <2>2 DEF ReleaseWritingBlock
    <3>2. slots_map[h.sign] = h.slot
      BY DEF Placed
    <3> QED
      BY <3>1, <3>2 DEF ReleaseSlot
  <2> QED
    BY <2>1, <2>2
<1>2. Grows /\ h.slot \in Slot /\ held' = [held EXCEPT ![t] = @ \ {h}]
  BY <1>1, OwnGrows DEF Releases, TypeOK, Block
<1>3. user_amount[h.slot] = 1
  BY <1>2 DEF OneHolderPerSlot, SlotsCounted
<1>4. user_amount'[h.slot] = 0 /\ in_use'[h.slot] = FALSE
  <2>1. user_amount'[h.slot] = 0
    BY <1>1, <1>2, <1>3 DEF TypeOK
  <2>2. in_use'[h.slot] = FALSE
    BY <1>1, <1>2, <1>3, Zenon DEF TypeOK
  <2> QED
    BY <2>1, <2>2
<1>5. ASSUME NEW s \in Slot, s # h.slot
      PROVE  user_amount'[s] = user_amount[s] /\ in_use'[s] = in_use[s]
  <2>1. user_amount'[s] = user_amount[s]
    BY <1>1, <1>2, <1>5 DEF TypeOK
  <2>2. in_use'[s] = in_use[s]
    BY <1>1, <1>2, <1>5, Zenon DEF TypeOK
  <2> QED
    BY <2>1, <2>2
<1>6. SlotsCounted'
  BY <1>4, <1>5 DEF SlotsCounted
<1>7. SlotsHeld'
  <2>1. ASSUME NEW s \in Slot, in_use'[s]
        PROVE  \E u \in Thread : \E k \in held'[u] : k.slot = s
    <3>1. s # h.slot /\ in_use[s]
      BY <1>4, <1>5, <2>1
    <3>2. PICK u \in Thread : \E k \in held[u] : k.slot = s
      BY <3>1 DEF SlotsHeld
    <3>3. PICK k \in held[u] : k.slot = s
      BY <3>2
    <3>4. k \in held'[u]
      BY <1>2, <3>1, <3>3 DEF TypeOK
    <3> QED
      BY <3>3, <3>4
  <2> QED
    BY <2>1 DEF SlotsHeld
<1> QED
  BY <1>6, <1>7

LEMMA LeakNext ==
  ASSUME PrivateFiles, CleanSlots, LeakInv, [Next]_vars
  PROVE  LeakInv'
<1>1. OwnFilesInv'
  BY OwnNext DEF LeakInv
<1>2. ASSUME NEW t \in Thread,
             \/ CallLoad(t) \/ CallCreate(t) \/ FindSlot(t) \/ MissSpace(t)
             \/ WaitForSpace(t) \/ SpuriousWakeup(t) \/ Modify(t)
      PROVE  SlotsCounted' /\ SlotsHeld'
  <2>1. UNCHANGED <<in_use, user_amount, held>>
    BY <1>2 DEF CallLoad, CallCreate, Call, FindSlot, MissSpace, WaitForSpace, SpuriousWakeup,
       Modify, pool
  <2> QED
    BY <2>1 DEF LeakInv, SlotsCounted, SlotsHeld
<1>3. ASSUME NEW t \in Thread,
             \/ Hit(t) \/ LockSlot(t)
             \/ ReleaseReadingBlock(t) \/ ReleaseWritingBlock(t)
             \/ ReleaseLostBlock(t) \/ UnlockByNonOwner(t)
      PROVE  SlotsCounted' /\ SlotsHeld'
  BY <1>3, OwnNoHit, OwnNoLoss, LeakLockSlot, LeakRelease DEF LeakInv
<1>4. CASE (\E t \in Thread : GiveUp(t)) \/ Crash \/ CrashAstray
  <2>1. \A s \in Slot : in_use'[s] = FALSE /\ user_amount'[s] = 0
    BY <1>4 DEF GiveUp, Crash, CrashAstray, Exit, Stop
  <2> QED
    BY <1>1, <2>1 DEF LeakInv, SlotsCounted, SlotsHeld
<1>5. CASE Start
  <2>1. \A s \in Slot : in_use'[s] = FALSE /\ user_amount'[s] = 0
    BY <1>5 DEF Start, CleanSlots
  <2> QED
    BY <1>1, <2>1 DEF LeakInv, SlotsCounted, SlotsHeld
<1>6. CASE UNCHANGED vars
  BY <1>1, <1>6 DEF vars, pool, LeakInv, SlotsCounted, SlotsHeld
<1> QED
  BY <1>1, <1>2, <1>3, <1>4, <1>5, <1>6 DEF Next, LeakInv

(* A slot that is marked in use is in someone's hands: with all its blocks *)
(* released, the pool is as large as at first.                             *)
THEOREM NothingLeaks ==
  ASSUME PrivateFiles, CleanSlots
  PROVE  Spec => []NoSlotLeak
<1>1. Init => LeakInv
  BY OwnInit DEF Init, LeakInv, SlotsCounted, SlotsHeld
<1>2. LeakInv /\ [Next]_vars => LeakInv'
  BY LeakNext
<1>3. LeakInv => NoSlotLeak
  BY DEF LeakInv, SlotsHeld, NoSlotLeak
<1> QED
  BY <1>1, <1>2, <1>3, PTL DEF Spec
=============================================================================
