----------------------------- MODULE BlockCache -----------------------------
(***************************************************************************)
(* The raster block cache of GDAL: GDALRasterBlock                         *)
(* (gcore/gdalrasterblock.cpp), GDALArrayBandBlockCache and                *)
(* GDALAbstractBandBlockCache, and GDALRasterBand::GetLockedBlockRef and   *)
(* FlushCache (gcore/gdalrasterband.cpp), under utils/gdal-3.8.4.          *)
(*                                                                         *)
(* Every dataset, of one band and opened for update, is used by one        *)
(* thread, but the cache is shared: a thread that needs room evicts blocks *)
(* of any dataset, writes them if they are dirty and hands them back to    *)
(* the band they came from.  The list of blocks and its size are under the *)
(* lock hRBLock; lock counts of blocks, slots of bands and the counter of  *)
(* blocks in the hands of other threads are not.                           *)
(*                                                                         *)
(* A block is one unit of the cache.  The order of the list is left open:  *)
(* a thread that looks for room goes through its blocks in any order.      *)
(***************************************************************************)
EXTENDS Integers, Sequences, FiniteSets

CONSTANTS
  Datasets,   \* and the threads that use them
  Positions,  \* of the blocks of a band, 1 .. n
  MaxBlocks,  \* GDALRasterBlock objects of a band
  nCacheMax,
  Script,     \* for each thread the sets from which its requests are taken,
              \* one after the other, before it closes its dataset
  FaultSets   \* what may fail in a run is one of these sets

Nobody == "nobody"

ASSUME CacheAssumption ==
  /\ IsFiniteSet(Datasets) /\ Nobody \notin Datasets
  /\ IsFiniteSet(Positions) /\ Positions = 1 .. Cardinality(Positions)
  /\ MaxBlocks \in Nat \ {0} /\ nCacheMax \in Nat
ASSUME ScriptAssumption ==
  /\ Script \in [Datasets -> Seq(SUBSET ({"read", "write", "update"} \X Positions
                                        \cup {<<"flush", 0>>, <<"evict", 0>>}))]
  /\ FaultSets \subseteq SUBSET {"write", "read"}

VARIABLES
  faults,
  hRBLock,      \* who holds it, or Nobody
  search,       \* how far the holder of hRBLock is in the list of blocks
  nCacheUsed,
  block,        \* the GDALRasterBlock objects of each dataset
  slot,         \* papoBlocks of each band: an object, or 0
  freeList,     \* psListBlocksToFree of each band
  keepAlive,    \* nKeepAliveCounter of each band
  flushErr,     \* eFlushBlockErr of each band is set
  rwMutex,      \* who holds the read-write mutex of a dataset, or Nobody
  disk,
  thread,       \* program counter and locals of each thread
  written,      \* what the application last wrote in each block
  raced,        \* did a block come back before its former self was written?
  unreported    \* was a block dropped unwritten and nobody told?

cache == <<hRBLock, search, nCacheUsed, block, slot>>
band == <<freeList, keepAlive, flushErr>>
history == <<written, raced, unreported>>
vars == <<faults, cache, band, rwMutex, disk, thread, history>>

Ids == 1 .. MaxBlocks
NoBlock == 0
NoVictim == <<>>

(* lock: nLockCount; data: is pData set?; listed: is it in the LRU list?;  *)
(* val: how many of the application's writes the block reflects.           *)
Deleted == [pos |-> 0, lock |-> 0, dirty |-> FALSE, val |-> 0,
            data |-> FALSE, listed |-> FALSE, live |-> FALSE]
Fresh(i) == [Deleted EXCEPT !.pos = i, !.live = TRUE]

(* mine: the block of its own dataset a thread is working on; victim: the  *)
(* one it is evicting; togo: those evicted and still to be freed.          *)
Idle == [pc |-> "idle", kind |-> "none", pos |-> 0, mine |-> NoBlock,
         victim |-> NoVictim, togo |-> <<>>, counted |-> FALSE,
         again |-> FALSE, err |-> FALSE, ops |-> 0]

(* passed: the blocks of the list that poTarget has left behind; other:    *)
(* poDirtyBlockOtherDataset; any: will any unlocked block do?              *)
NoSearch == [passed |-> {}, other |-> NoVictim, any |-> FALSE]

Init ==
  /\ faults \in FaultSets
  /\ hRBLock = Nobody /\ search = NoSearch /\ nCacheUsed = 0
  /\ block = [d \in Datasets |-> [b \in Ids |-> Deleted]]
  /\ slot = [d \in Datasets |-> [i \in Positions |-> NoBlock]]
  /\ freeList = [d \in Datasets |-> {}] /\ keepAlive = [d \in Datasets |-> 0]
  /\ flushErr = [d \in Datasets |-> FALSE] /\ rwMutex = [d \in Datasets |-> Nobody]
  /\ disk = [d \in Datasets |-> [i \in Positions |-> 0]]
  /\ thread = [t \in Datasets |-> Idle]
  /\ written = disk
  /\ raced = [d \in Datasets |-> FALSE] /\ unreported = [d \in Datasets |-> FALSE]

At(t, where) == thread[t].pc = where
Asks(t, kind, i) == /\ At(t, "idle") /\ thread[t].ops < Len(Script[t])
                    /\ <<kind, i>> \in Script[t][thread[t].ops + 1]
Update(r, f) == [x \in DOMAIN r |-> IF x \in DOMAIN f THEN f[x] ELSE r[x]]
Step(t, f) == thread' = [thread EXCEPT ![t] = Update(@, f)]
Goto(t, where) == Step(t, [pc |-> where])
End(t) == thread' = [thread EXCEPT ![t] = [Idle EXCEPT
                 !.kind = IF thread[t].kind = "flush" THEN "flush" ELSE @,
                 !.ops = thread[t].ops]]

Mine(t) == block[t][thread[t].mine]
SetMine(t, b) == block' = [block EXCEPT ![t][thread[t].mine] = b]

AllBlocks == Datasets \X Ids
The(x) == block[x[1]][x[2]]
SetThe(x, b) == block' = [block EXCEPT ![x[1]][x[2]] = b]
InList == {x \in AllBlocks : The(x).listed}

(* A write error is known to the application: GDALRasterBand::RasterIO,    *)
(* IRasterIO and FlushCache report the one they find and forget it.        *)
Report(t) == /\ flushErr' = [flushErr EXCEPT ![t] = FALSE]
             /\ unreported' = [unreported EXCEPT ![t] = FALSE]
-----------------------------------------------------------------------------
(***************************************************************************)
(* GDALRasterBand::RasterIO of one block, up to the lookup.                *)
(***************************************************************************)
(* With GF_Read, EnterReadWrite takes the mutex and releases it before it  *)
(* waits; an error of an earlier write ends a GF_Write.                    *)
RasterIO(t, kind, i) ==
  /\ Asks(t, kind, i)
  /\ kind = "read" => rwMutex[t] = Nobody
  /\ IF kind # "read" /\ flushErr[t]
       THEN Report(t) /\ Step(t, [kind |-> kind, ops |-> thread[t].ops + 1])
       ELSE /\ Step(t, [pc |-> IF kind = "read" THEN "pending" ELSE "enter",
                        kind |-> kind, pos |-> i, ops |-> thread[t].ops + 1])
            /\ UNCHANGED <<flushErr, unreported>>
  /\ UNCHANGED <<faults, cache, freeList, keepAlive, rwMutex, disk, written, raced>>

(* WaitCompletionPendingTasks, on behalf of EnterReadWrite(GF_Read).       *)
WaitPending(t) ==
  /\ At(t, "pending") /\ keepAlive[t] = 0
  /\ Goto(t, "enter")
  /\ UNCHANGED <<faults, cache, band, rwMutex, disk, history>>

EnterReadWrite(t) ==
  /\ At(t, "enter") /\ rwMutex[t] = Nobody
  /\ rwMutex' = [rwMutex EXCEPT ![t] = t]
  /\ IF thread[t].kind # "read" /\ flushErr[t]
       THEN Report(t) /\ Goto(t, "leave")
       ELSE Goto(t, "lookup") /\ UNCHANGED <<flushErr, unreported>>
  /\ UNCHANGED <<faults, cache, freeList, keepAlive, disk, written, raced>>

LeaveReadWrite(t) ==
  /\ At(t, "leave")
  /\ rwMutex' = [rwMutex EXCEPT ![t] = Nobody]
  /\ End(t)
  /\ UNCHANGED <<faults, cache, band, disk, history>>

(* TryGetLockedBlockRef reads the slot ...                                 *)
Lookup(t) ==
  /\ At(t, "lookup") /\ slot[t][thread[t].pos] # NoBlock
  /\ Step(t, [pc |-> "addlock", mine |-> slot[t][thread[t].pos]])
  /\ UNCHANGED <<faults, cache, band, rwMutex, disk, history>>

(* ... and TakeLock finds out whether the block is being evicted.          *)
TakenAnyway(t) == FALSE
BeingEvicted(t) == Mine(t).lock = -1

AddLock(t) ==
  /\ At(t, "addlock")
  /\ SetMine(t, [Mine(t) EXCEPT !.lock = @ + 1])
  /\ Goto(t, IF BeingEvicted(t) THEN "unlock" ELSE "use")
  /\ UNCHANGED <<faults, hRBLock, search, nCacheUsed, slot, band, rwMutex, disk, history>>

TakeLockFails(t) ==
  /\ At(t, "unlock")
  /\ SetMine(t, [Mine(t) EXCEPT !.lock = @ - 1])
  /\ Step(t, [pc |-> "create", mine |-> NoBlock])
  /\ UNCHANGED <<faults, hRBLock, search, nCacheUsed, slot, band, rwMutex, disk, history>>

(* The application reads or writes the block under its lock, then drops it.*)
Use(t) ==
  /\ At(t, "use")
  /\ IF thread[t].kind = "read"
       THEN SetMine(t, [Mine(t) EXCEPT !.lock = @ - 1]) /\ UNCHANGED written
       ELSE LET v == written[t][thread[t].pos] + 1 IN
              /\ SetMine(t, [Mine(t) EXCEPT !.lock = @ - 1, !.dirty = TRUE,
                               !.val = IF thread[t].kind = "write" THEN v ELSE @ + 1])
              /\ written' = [written EXCEPT ![t][thread[t].pos] = v]
  /\ Goto(t, "leave")
  /\ UNCHANGED <<faults, hRBLock, search, nCacheUsed, slot, band, rwMutex, disk, raced,
                 unreported>>
-----------------------------------------------------------------------------
(***************************************************************************)
(* GetLockedBlockRef of a block that is not in the cache.                  *)
(***************************************************************************)
(* CreateBlock recycles a block of the band or makes a new one, and it     *)
(* does not matter which: after RecycleFor they are all alike; then        *)
(* TemporarilyDropReadWriteLock, before Internalize.                       *)
Least(S) == CHOOSE n \in S : \A m \in S : n <= m
Available(t) == IF freeList[t] # {} THEN freeList[t]
                ELSE {b \in Ids : ~block[t][b].live}
Keep(t) == UNCHANGED rwMutex
TemporarilyDrop(t) == rwMutex' = [rwMutex EXCEPT ![t] = Nobody]

CreateBlock(t) ==
  /\ At(t, "create") \/ (At(t, "lookup") /\ slot[t][thread[t].pos] = NoBlock)
  /\ Available(t) # {}
  /\ LET b == Least(Available(t)) IN
       /\ freeList' = [freeList EXCEPT ![t] = @ \ {b}]
       /\ block' = [block EXCEPT ![t][b] = [Fresh(thread[t].pos) EXCEPT !.lock = 1]]
       /\ Step(t, [pc |-> "internalize", mine |-> b])
  /\ TemporarilyDrop(t)
  /\ UNCHANGED <<faults, hRBLock, search, nCacheUsed, slot, keepAlive, flushErr, disk, history>>

(* ReacquireReadWriteLock, and AdoptBlock, which also frees the dangling    *)
(* blocks of the band.                                                     *)
Dangling(t, blocks) == [b \in Ids |-> IF b \in freeList[t] THEN Deleted ELSE blocks[b]]

Adopt(t) ==
  /\ At(t, "reacquire") /\ rwMutex[t] = Nobody
  /\ rwMutex' = [rwMutex EXCEPT ![t] = t]
  /\ slot' = [slot EXCEPT ![t][thread[t].pos] = thread[t].mine]
  /\ block' = [block EXCEPT ![t] = Dangling(t, @)]
  /\ freeList' = [freeList EXCEPT ![t] = {}]
  /\ Goto(t, "fill")
  /\ UNCHANGED <<faults, hRBLock, search, nCacheUsed, keepAlive, flushErr, disk, history>>

(* Blocks evicted and not yet written, or dropped, the first one at hand.  *)
First(t) == thread[t].togo[1]
HandsOf(t) == {thread[t].togo[n] : n \in DOMAIN thread[t].togo}
              \cup (IF thread[t].victim = NoVictim THEN {} ELSE {thread[t].victim})
FormerSelf(t) == \E u \in Datasets : \E x \in HandsOf(u) :
                   /\ x[1] = t /\ The(x).pos = thread[t].pos
                   /\ The(x).dirty \/ (thread[u].pc = "iwrite" /\ x = First(u))

(* IReadBlock, unless the block is to be written as a whole.  When it      *)
(* fails the block is unlocked and FlushBlock removes it.                  *)
Fill(t) ==
  /\ At(t, "fill")
  /\ \/ /\ thread[t].kind = "write"
        /\ Goto(t, "use") /\ UNCHANGED block
     \/ /\ thread[t].kind # "write"
        /\ SetMine(t, [Mine(t) EXCEPT !.val = disk[t][thread[t].pos]])
        /\ Goto(t, "use")
     \/ /\ thread[t].kind # "write" /\ "read" \in faults
        /\ SetMine(t, [Mine(t) EXCEPT !.lock = @ - 1])
        /\ Goto(t, "take")
  /\ raced' = [raced EXCEPT ![t] = @ \/ FormerSelf(t)]
  /\ UNCHANGED <<faults, hRBLock, search, nCacheUsed, slot, band, rwMutex, disk, written,
                 unreported>>
-----------------------------------------------------------------------------
(***************************************************************************)
(* GDALRasterBlock::Internalize, and FlushCacheBlock: make room.           *)
(***************************************************************************)
FlushCacheBlock(t) ==
  /\ Asks(t, "evict", 0) /\ hRBLock = Nobody
  /\ hRBLock' = t /\ search' = [NoSearch EXCEPT !.any = TRUE]
  /\ Step(t, [pc |-> "scan", kind |-> "evict", ops |-> thread[t].ops + 1])
  /\ UNCHANGED <<faults, nCacheUsed, block, slot, band, rwMutex, disk, history>>

EveryIter(t) == TRUE
FirstIter(t) == ~thread[t].counted

Internalize(t) ==
  /\ At(t, "internalize") /\ hRBLock = Nobody
  /\ hRBLock' = t
  /\ nCacheUsed' = IF FirstIter(t) THEN nCacheUsed + 1 ELSE nCacheUsed
  /\ Step(t, [pc |-> "scan", counted |-> TRUE, again |-> FALSE])
  /\ UNCHANGED <<faults, search, block, slot, band, rwMutex, disk, history>>

(* The first pass takes clean blocks and dirty ones of the dataset of the  *)
(* thread, and remembers the first dirty block of another dataset.  That   *)
(* one is next; when it is locked, a second pass takes any block, as       *)
(* FlushCacheBlock does.  Locks come and go meanwhile: those of the blocks *)
(* of a dataset are not under hRBLock.                                     *)
OneTooMany(t) == thread[t].kind = "evict" \/ nCacheUsed > nCacheMax + 1
NeedsRoom(t) == thread[t].kind = "evict" \/ nCacheUsed > nCacheMax
Ahead == InList \ search.passed
LockedOrNot(x) == TRUE
Unlocked(x) == The(x).lock = 0
Suits(t, x) == search.any \/ ~The(x).dirty \/ x[1] = t

Pass(t, x) ==
  /\ At(t, "scan") /\ NeedsRoom(t) /\ x \in Ahead
  /\ ~(Unlocked(x) /\ Suits(t, x))
  /\ search' = [search EXCEPT !.passed = @ \cup {x},
                              !.other = IF @ = NoVictim /\ ~Suits(t, x) THEN x ELSE @]
  /\ UNCHANGED <<faults, hRBLock, nCacheUsed, block, slot, band, rwMutex, disk,
                 thread, history>>

Rescan(t) ==
  /\ At(t, "scan") /\ NeedsRoom(t) /\ Ahead = {}
  /\ search.other # NoVictim /\ ~Unlocked(search.other)
  /\ search' = [NoSearch EXCEPT !.any = TRUE]
  /\ UNCHANGED <<faults, hRBLock, nCacheUsed, block, slot, band, rwMutex, disk,
                 thread, history>>

(* The lock count goes from 0 to -1, in the same step as Detach_unlocked   *)
(* and UnreferenceBlockBase: the owner sees the former only if it looks    *)
(* for the block, the latter only if it waits.                             *)
Claim(t, x) ==
  /\ At(t, "scan") /\ NeedsRoom(t) /\ x \in InList /\ Unlocked(x)
  /\ IF Ahead = {} THEN x = search.other ELSE x \in Ahead /\ Suits(t, x)
  /\ search' = [search EXCEPT !.other = NoVictim, !.any = FALSE]
  /\ SetThe(x, [The(x) EXCEPT !.lock = -1, !.listed = FALSE])
  /\ nCacheUsed' = IF The(x).data THEN nCacheUsed - 1 ELSE nCacheUsed
  /\ keepAlive' = [keepAlive EXCEPT ![x[1]] = @ + 1]
  /\ Step(t, [pc |-> "unref", victim |-> x])
  /\ UNCHANGED <<faults, hRBLock, slot, freeList, flushErr, rwMutex, disk, history>>

(* UnreferenceBlock.  A dirty block ends the search, and so does a batch   *)
(* of 64, which any block may complete; both make Internalize come back    *)
(* when there is not room enough yet.  Else it goes on with the blocks     *)
(* ahead of this one.                                                      *)
Unreference(t, full) ==
  /\ At(t, "unref")
  /\ LET x == thread[t].victim
         stop == The(x).dirty \/ full \/ thread[t].kind = "evict"
     IN /\ slot' = [slot EXCEPT ![x[1]][The(x).pos] = NoBlock]
        /\ Step(t, [victim |-> NoVictim, togo |-> Append(thread[t].togo, x),
                    pc |-> IF stop THEN "scanned" ELSE "scan",
                    again |-> stop /\ thread[t].kind # "evict"
                              /\ nCacheUsed > nCacheMax])
  /\ UNCHANGED <<faults, hRBLock, search, nCacheUsed, block, band, rwMutex, disk, history>>

(* Touch_unlocked puts the new block in the list, also when no block was   *)
(* found to make room.                                                     *)
Touch(t) ==
  /\ \/ At(t, "scanned")
     \/ At(t, "scan") /\ ~NeedsRoom(t)
     \/ At(t, "scan") /\ Ahead = {} /\ search.other = NoVictim
  /\ hRBLock' = Nobody /\ search' = NoSearch
  /\ IF thread[t].kind = "evict" \/ thread[t].again
       THEN Goto(t, "free") /\ UNCHANGED block
       ELSE /\ SetMine(t, [Mine(t) EXCEPT !.listed = TRUE])
            /\ Step(t, [pc |-> "free", counted |-> FALSE])
  /\ UNCHANGED <<faults, nCacheUsed, slot, band, rwMutex, disk, history>>
-----------------------------------------------------------------------------
(***************************************************************************)
(* What was evicted is written and handed back, with no lock held.         *)
(***************************************************************************)
Flushing == {"flush", "close", "destroy"}
Written(t) == IF thread[t].kind \in Flushing THEN "delete" ELSE "giveback"

(* GDALRasterBlock::Write: a block is marked clean, and written unless an  *)
(* error of its band is pending.                                           *)
Write(t) ==
  /\ At(t, "free") /\ thread[t].togo # <<>> /\ The(First(t)).dirty
  /\ LET x == First(t) IN
       /\ SetThe(x, [The(x) EXCEPT !.dirty = FALSE])
       /\ Goto(t, IF flushErr[x[1]] THEN "failed" ELSE "iwrite")
       /\ unreported' = [unreported EXCEPT ![x[1]] = @ \/ flushErr[x[1]]]
  /\ UNCHANGED <<faults, hRBLock, search, nCacheUsed, slot, band, rwMutex, disk, written, raced>>

IWriteBlock(t) ==
  /\ At(t, "iwrite")
  /\ LET x == First(t) IN
       /\ rwMutex[x[1]] \in {Nobody, t}
       /\ \/ /\ disk' = [disk EXCEPT ![x[1]][The(x).pos] = The(x).val]
             /\ Goto(t, Written(t)) /\ UNCHANGED unreported
          \/ /\ "write" \in faults
             /\ unreported' = [unreported EXCEPT ![x[1]] = TRUE]
             /\ Goto(t, "failed") /\ UNCHANGED disk
  /\ UNCHANGED <<faults, cache, band, rwMutex, written, raced>>

(* SetFlushBlockErr, when the block was evicted; FlushCache remembers the  *)
(* errors of the blocks it writes itself.                                  *)
Forget(t) == UNCHANGED flushErr
SetFlushBlockErr(t) == flushErr' = [flushErr EXCEPT ![First(t)[1]] = TRUE]

WriteFailed(t) ==
  /\ At(t, "failed")
  /\ IF thread[t].kind \in Flushing
       THEN Step(t, [pc |-> "delete", err |-> TRUE]) /\ UNCHANGED flushErr
       ELSE Goto(t, "giveback") /\ SetFlushBlockErr(t)
  /\ UNCHANGED <<faults, cache, freeList, keepAlive, rwMutex, disk, history>>

(* AddBlockToFreeList, first the list, then the counter under hCondMutex.  *)
AddBlockToFreeList(t) ==
  /\ \/ At(t, "giveback")
     \/ At(t, "free") /\ thread[t].togo # <<>> /\ ~The(First(t)).dirty
  /\ LET x == First(t) IN
       /\ SetThe(x, [Fresh(0) EXCEPT !.lock = The(x).lock])
       /\ freeList' = [freeList EXCEPT ![x[1]] = @ \cup {x[2]}]
  /\ Goto(t, "countdown")
  /\ UNCHANGED <<faults, hRBLock, search, nCacheUsed, slot, keepAlive, flushErr, rwMutex,
                 disk, history>>

CountDown(t) ==
  /\ At(t, "countdown")
  /\ keepAlive' = [keepAlive EXCEPT ![First(t)[1]] = @ - 1]
  /\ Step(t, [pc |-> "free", togo |-> Tail(thread[t].togo)])
  /\ UNCHANGED <<faults, cache, freeList, flushErr, rwMutex, disk, history>>

(* Nothing is left to be freed: FlushCacheBlock is done, Internalize looks *)
(* again, or takes the memory of an evicted block or some more.            *)
Freed(t) ==
  /\ At(t, "free") /\ thread[t].togo = <<>>
  /\ thread[t].kind = "evict" \/ thread[t].again
  /\ IF thread[t].kind = "evict" THEN End(t) ELSE Goto(t, "internalize")
  /\ UNCHANGED <<faults, cache, band, rwMutex, disk, history>>

Malloc(t) ==
  /\ At(t, "free") /\ thread[t].togo = <<>>
  /\ thread[t].kind # "evict" /\ ~thread[t].again
  /\ SetMine(t, [Mine(t) EXCEPT !.data = TRUE])
  /\ Goto(t, "reacquire")
  /\ UNCHANGED <<faults, hRBLock, search, nCacheUsed, slot, band, rwMutex, disk, history>>
-----------------------------------------------------------------------------
(***************************************************************************)
(* GDALRasterBand::FlushCache and GDALArrayBandBlockCache::FlushCache.  A  *)
(* dataset is closed by a FlushCache of its driver, then by one of the     *)
(* destructor of the band.                                                 *)
(***************************************************************************)
FlushCache(t, kind) ==
  /\ CASE kind = "flush" -> Asks(t, "flush", 0)
       [] kind = "close" -> At(t, "idle") /\ thread[t].ops = Len(Script[t])
       [] kind = "destroy" -> At(t, "destroy")
  /\ IF flushErr[t] THEN Report(t) ELSE UNCHANGED <<flushErr, unreported>>
  /\ Step(t, [pc |-> "flushing", kind |-> kind,
              ops |-> thread[t].ops + (IF kind = "flush" THEN 1 ELSE 0)])
  /\ UNCHANGED <<faults, cache, freeList, keepAlive, rwMutex, disk, written, raced>>

(* The next slot that is not empty, from position i; nobody else fills one.*)
FlushFrom(t, i, e) ==
  LET full == {j \in Positions : j >= i /\ slot[t][j] # NoBlock} IN
  [pc |-> IF full = {} THEN "wait" ELSE "take",
   pos |-> IF full = {} THEN 0 ELSE Least(full),
   mine |-> NoBlock, togo |-> <<>>, err |-> e]

FlushBlocks(t) ==
  /\ At(t, "flushing")
  /\ block' = [block EXCEPT ![t] = Dangling(t, @)]
  /\ freeList' = [freeList EXCEPT ![t] = {}]
  /\ Step(t, FlushFrom(t, 1, flushErr[t]))
  /\ UNCHANGED <<faults, hRBLock, search, nCacheUsed, slot, keepAlive, flushErr, rwMutex,
                 disk, history>>

(* After FlushBlock: the next one, or the end of a request that failed.    *)
FlushNext(t) ==
  Step(t, IF thread[t].kind \notin Flushing THEN [pc |-> "leave"]
          ELSE FlushFrom(t, thread[t].pos + 1, thread[t].err))

(* FlushBlock empties the slot, then DropLockForRemovalFromStorage tells   *)
(* whether somebody evicts the block: if so, it is no longer ours.         *)
Take(t) ==
  /\ At(t, "take")
  /\ LET b == slot[t][thread[t].pos] IN
       IF b = NoBlock THEN FlushNext(t)
       ELSE Step(t, [pc |-> "droplock", mine |-> b])
  /\ slot' = [slot EXCEPT ![t][thread[t].pos] = NoBlock]
  /\ UNCHANGED <<faults, hRBLock, search, nCacheUsed, block, band, rwMutex, disk, history>>

DroppedAnyway(t) == TRUE
StillOurs(t) == Mine(t).lock = 0

DropLockForRemoval(t) ==
  /\ At(t, "droplock")
  /\ IF StillOurs(t)
       THEN Goto(t, "remove") /\ SetMine(t, [Mine(t) EXCEPT !.lock = -1])
       ELSE Goto(t, "evicted") /\ UNCHANGED block
  /\ UNCHANGED <<faults, hRBLock, search, nCacheUsed, slot, band, rwMutex, disk, history>>

(* "Wait for the block for having been unreferenced."                      *)
WaitEviction(t) ==
  /\ At(t, "evicted") /\ hRBLock = Nobody
  /\ FlushNext(t)
  /\ UNCHANGED <<faults, cache, band, rwMutex, disk, history>>

(* Detach; then Write, unless there was an error, and delete.              *)
Remove(t) ==
  /\ At(t, "remove") /\ hRBLock = Nobody
  /\ nCacheUsed' = IF Mine(t).data THEN nCacheUsed - 1 ELSE nCacheUsed
  /\ IF Mine(t).dirty /\ ~thread[t].err
       THEN /\ SetMine(t, [Mine(t) EXCEPT !.listed = FALSE])
            /\ Step(t, [pc |-> "free", togo |-> <<<<t, thread[t].mine>>>>])
            /\ UNCHANGED unreported
       ELSE /\ SetMine(t, Deleted) /\ FlushNext(t)
            /\ unreported' = [unreported EXCEPT ![t] = @ \/ Mine(t).dirty]
  /\ UNCHANGED <<faults, hRBLock, search, slot, band, rwMutex, disk, written, raced>>

Delete(t) ==
  /\ At(t, "delete")
  /\ SetMine(t, Deleted)
  /\ FlushNext(t)
  /\ UNCHANGED <<faults, hRBLock, search, nCacheUsed, slot, band, rwMutex, disk, history>>

(* WaitCompletionPendingTasks, and what FlushCache returns: nobody looks   *)
(* at it in the destructor, which then frees the cache of the band.        *)
Flushed(t) ==
  /\ At(t, "wait") /\ keepAlive[t] = 0
  /\ CASE thread[t].kind = "flush" -> End(t)
       [] thread[t].kind = "close" -> Step(t, [Idle EXCEPT !.pc = "destroy", !.kind = "close"])
       [] thread[t].kind = "destroy" -> Step(t, [Idle EXCEPT !.pc = "closed", !.kind = "destroy"])
  /\ IF thread[t].kind = "destroy"
       THEN /\ freeList' = [freeList EXCEPT ![t] = {}]
            /\ block' = [block EXCEPT ![t] = Dangling(t, @)]
            /\ UNCHANGED unreported
       ELSE /\ unreported' = [unreported EXCEPT ![t] = @ /\ ~thread[t].err]
            /\ UNCHANGED <<freeList, block>>
  /\ UNCHANGED <<faults, hRBLock, search, nCacheUsed, slot, keepAlive, flushErr, rwMutex,
                 disk, written, raced>>
-----------------------------------------------------------------------------
Request(t) ==
  \/ \E kind \in {"read", "write", "update"}, i \in Positions : RasterIO(t, kind, i)
  \/ FlushCacheBlock(t)
  \/ FlushCache(t, "flush")

Run(t) ==
  \/ WaitPending(t) \/ EnterReadWrite(t) \/ Lookup(t) \/ AddLock(t)
  \/ TakeLockFails(t) \/ Use(t) \/ LeaveReadWrite(t)
  \/ CreateBlock(t) \/ Internalize(t) \/ \E full \in BOOLEAN : Unreference(t, full)
  \/ \E x \in AllBlocks : Pass(t, x) \/ Claim(t, x)
  \/ Rescan(t)
  \/ Touch(t) \/ Write(t) \/ IWriteBlock(t) \/ WriteFailed(t)
  \/ AddBlockToFreeList(t) \/ CountDown(t) \/ Freed(t) \/ Malloc(t)
  \/ Adopt(t) \/ Fill(t)
  \/ FlushCache(t, "close") \/ FlushCache(t, "destroy") \/ FlushBlocks(t)
  \/ Take(t) \/ DropLockForRemoval(t) \/ WaitEviction(t) \/ Remove(t)
  \/ Delete(t) \/ Flushed(t)

Closed == \A t \in Datasets : At(t, "closed")

Next == \E t \in Datasets : Request(t) \/ Run(t)

Spec == Init /\ [][Next]_vars

(* Every thread goes on; what it asks for is its own affair.               *)
FairSpec == Spec /\ \A t \in Datasets : WF_vars(Request(t) \/ Run(t))
-----------------------------------------------------------------------------
(***************************************************************************)
(* Properties.                                                             *)
(***************************************************************************)
Blocks == [pos : {0} \cup Positions, lock : -1 .. 1, dirty : BOOLEAN,
           val : Nat, data : BOOLEAN, listed : BOOLEAN, live : BOOLEAN]

(* The variables have the types of the declarations they model.  A lock     *)
(* count never falls below -1 (evicted), as TakeLock asserts, nor rises     *)
(* above 1: only the thread of its dataset ever locks a block.              *)
TypeOK ==
  /\ hRBLock \in {Nobody} \cup Datasets
  /\ search \in [passed : SUBSET AllBlocks, other : {NoVictim} \cup AllBlocks,
                 any : BOOLEAN]
  /\ nCacheUsed \in Nat
  /\ block \in [Datasets -> [Ids -> Blocks]]
  /\ slot \in [Datasets -> [Positions -> {NoBlock} \cup Ids]]
  /\ freeList \in [Datasets -> SUBSET Ids]
  /\ keepAlive \in [Datasets -> Nat]
  /\ flushErr \in [Datasets -> BOOLEAN]
  /\ \A t \in Datasets : rwMutex[t] \in {Nobody, t}

(* Who evicts a block, from the moment it is claimed to the moment it is   *)
(* on the free list of its band.                                           *)
Evictors(x) ==
  {u \in Datasets : /\ x \in HandsOf(u) /\ thread[u].kind \notin Flushing
                    /\ thread[u].pc = "countdown" => x # First(u)}

(* Its own thread has a block in hand, and nobody else knows of it.        *)
Owned(x) ==
  LET t == x[1] IN
  /\ thread[t].mine = x[2]
  /\ \/ thread[t].kind \notin Flushing
        /\ thread[t].pc \in {"internalize", "scan", "unref", "scanned",
             "free", "giveback", "iwrite", "failed", "countdown", "reacquire"}
     \/ thread[t].pc \in {"remove", "delete"}
     \/ thread[t].kind \in Flushing /\ thread[t].pc \in {"free", "iwrite", "failed"}

(* Every block is in one place: in the slot of its band that bears its     *)
(* position, or in the free list, or in the hands of one thread.  What was *)
(* deleted is nowhere, so that no thread uses it after that.               *)
OneHolder ==
  \A x \in AllBlocks :
    LET d == x[1]
        inSlot == \E i \in Positions : slot[d][i] = x[2]
        inFree == x[2] \in freeList[d]
    IN IF ~The(x).live
         THEN ~inSlot /\ ~inFree /\ Evictors(x) = {} /\ ~Owned(x) /\ ~The(x).listed
         ELSE /\ Cardinality(Evictors(x)) + (IF inFree THEN 1 ELSE 0)
                   + (IF Owned(x) THEN 1 ELSE 0)
                 = IF Evictors(x) # {} \/ inFree \/ Owned(x) THEN 1 ELSE 0
              /\ Evictors(x) = {} /\ ~inFree /\ ~Owned(x) =>
                   \/ slot[d][The(x).pos] = x[2]
                   \/ At(d, "droplock") /\ thread[d].mine = x[2]
              /\ inSlot => slot[d][The(x).pos] = x[2] /\ ~inFree /\ ~Owned(x)

(* The counter a band waits on counts the blocks that other threads have   *)
(* yet to give back, and nCacheUsed the blocks of the list and those about *)
(* to enter it.                                                            *)
Counted ==
  /\ \A d \in Datasets :
       keepAlive[d] = Cardinality({p \in Datasets \X AllBlocks :
                        LET u == thread[p[1]] IN
                        /\ p[2][1] = d /\ p[2] \in HandsOf(p[1])
                        /\ u.kind \notin Flushing})
  /\ nCacheUsed = Cardinality(InList)
       + Cardinality({t \in Datasets : thread[t].counted})

(* Whatever is locked while Internalize looks for room, the list holds no  *)
(* more than nCacheMax - 1 blocks beyond the first of each dataset: the    *)
(* thread that gives up and adds its block all the same has evicted every  *)
(* other block of its dataset (gdalrasterblock.cpp:952-1060).              *)
CacheBounded ==
  LET inCache == {x[1] : x \in InList} IN
  \/ Cardinality(InList) < nCacheMax + Cardinality(inCache)
  \/ Cardinality(InList) = Cardinality(inCache)

(* What the application wrote is what it reads again, and what the file    *)
(* holds after FlushCache and after the dataset is closed - unless a write *)
(* failed, or a block was taken up again before its former self was        *)
(* written, which Internalize calls a "weakness of the block cache design".*)
Reliable(t) == "write" \notin faults /\ ~raced[t]
Durable(t) == disk[t] = written[t]
NothingLost ==
  \A t \in Datasets : Reliable(t) =>
    /\ (At(t, "use") /\ thread[t].kind # "write") => Mine(t).val = written[t][thread[t].pos]
    /\ ((At(t, "idle") /\ thread[t].kind = "flush") \/ At(t, "closed")) => Durable(t)

(* No dataset is closed before the application was told that a block of it *)
(* could not be written, though it is another thread that failed to.       *)
ErrorsTold ==
  \A t \in Datasets : At(t, "closed") => ~unreported[t] /\ ~flushErr[t]

(* "Any raster (or other GDAL) data written via GDAL calls, but buffered   *)
(* internally will be written to disk" (GDALDataset::FlushCache): it is    *)
(* not, when another thread writes an older block last.                    *)
FlushedIsOnDisk ==
  \A t \in Datasets : faults = {} /\ At(t, "idle") /\ thread[t].kind = "flush" => Durable(t)

(* Every thread gets to close its dataset: nobody waits for ever for the   *)
(* mutex of another dataset or for blocks in the hands of another thread.  *)
EveryDatasetCloses == <>Closed
=============================================================================
