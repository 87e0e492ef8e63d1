------------------------ MODULE BlockCacheDataProofs ------------------------
(***************************************************************************)
(* More that holds of the block cache, on top of where its blocks are:     *)
(* what it counts, what closing a dataset and flushing it leave behind in  *)
(* it - nothing, and no error that was not told -, and that nothing the    *)
(* application wrote is lost on the way.                                   *)
(***************************************************************************)
EXTENDS BlockCacheProofs
-----------------------------------------------------------------------------
(***************************************************************************)
(* Counters: what is counted, and how much of it there can be.             *)
(***************************************************************************)
(* When Internalize stops at a block, and does not come back after it,     *)
(* there is room enough.                                                   *)
Enough ==
  \A t \in Datasets :
    thread[t].pc = "scanned" /\ thread[t].kind # "evict" /\ ~thread[t].again =>
      nCacheUsed <= nCacheMax
Count == Counted /\ Enough /\ CacheBounded

Keeps(u, x) == x \in HandsOf(u) /\ thread[u].kind \notin Flushing
Kept(d) == {p \in Datasets \X AllBlocks : p[2][1] = d /\ Keeps(p[1], p[2])}
Counting == {t \in Datasets : thread[t].counted}
InCache == {x[1] : x \in InList}

LEMMA CountedIs ==
  /\ Counted <=> /\ \A d \in Datasets : keepAlive[d] = Cardinality(Kept(d))
                 /\ nCacheUsed = Cardinality(InList) + Cardinality(Counting)
  /\ Counted' <=> /\ \A d \in Datasets : keepAlive'[d] = Cardinality(Kept(d)')
                  /\ nCacheUsed' = Cardinality(InList') + Cardinality(Counting')
  BY DEF Counted, Kept, Keeps, Counting

LEMMA AllFinite ==
  /\ IsFiniteSet(AllBlocks) /\ IsFiniteSet(InList) /\ IsFiniteSet(Counting)
  /\ \A d : IsFiniteSet(Kept(d))
<1>1. IsFiniteSet(Ids)
  BY CacheAssumption, FS_Interval DEF Ids
<1>2. IsFiniteSet(AllBlocks)
  BY <1>1, CacheAssumption, FS_Product DEF AllBlocks
<1>3. IsFiniteSet(Datasets \X AllBlocks)
  BY <1>2, CacheAssumption, FS_Product
<1>4. InList \subseteq AllBlocks /\ Counting \subseteq Datasets
      /\ \A d : Kept(d) \subseteq Datasets \X AllBlocks
  BY DEF InList, Counting, Kept
<1> QED
  BY <1>2, <1>3, <1>4, CacheAssumption, FS_Subset

LEMMA BoundedIs ==
  /\ CacheBounded <=> \/ Cardinality(InList) < nCacheMax + Cardinality(InCache)
                      \/ Cardinality(InList) = Cardinality(InCache)
  /\ CacheBounded' <=> \/ Cardinality(InList') < nCacheMax + Cardinality(InCache')
                       \/ Cardinality(InList') = Cardinality(InCache')
  /\ IsFiniteSet(InCache) /\ IsFiniteSet(InCache') /\ IsFiniteSet(InList')
<1>1. InCache \subseteq Datasets /\ InCache' \subseteq Datasets
  BY Pairs DEF InCache, InList
<1>2. InList' \subseteq AllBlocks
  BY DEF InList
<1> QED
  BY <1>1, <1>2, AllFinite, CacheAssumption, FS_Subset DEF CacheBounded, InCache

(* Without one of its blocks, the list has one block less and the blocks    *)
(* of one dataset less at most.                                            *)
LEMMA BoundedShrinks ==
  ASSUME CacheBounded, NEW x \in InList, InList' = InList \ {x}
  PROVE  CacheBounded'
<1>1. PICK d : d = x[1]
  OBVIOUS
<1>2. d \in InCache /\ (InCache' = InCache \/ InCache' = InCache \ {d})
  BY <1>1 DEF InCache
<1>3. Cardinality(InCache') = Cardinality(InCache) \/ Cardinality(InCache') = Cardinality(InCache) - 1
  BY <1>2, BoundedIs, FS_RemoveElement
<1>4. Cardinality(InList') = Cardinality(InList) - 1
  BY AllFinite, FS_RemoveElement
<1>5. /\ Cardinality(InList) \in Nat /\ Cardinality(InCache) \in Nat
      /\ Cardinality(InList') \in Nat /\ Cardinality(InCache') \in Nat
  BY AllFinite, BoundedIs, FS_CardinalityType
<1> QED
  BY <1>3, <1>4, <1>5, BoundedIs, CacheAssumption

(* Which blocks are in the list depends on one field of theirs.            *)
SameList == \A d \in Datasets : \A b \in Ids : block'[d][b].listed = block[d][b].listed

LEMMA ListFrame ==
  ASSUME SameList
  PROVE  InList' = InList
  BY Pairs DEF SameList, InList, The

LEMMA ListKept ==
  ASSUME UNCHANGED block
  PROVE  SameList
  BY DEF SameList

LEMMA ListEdit ==
  ASSUME Typed, NEW d \in Datasets, NEW b \in Ids, NEW e,
         block' = [block EXCEPT ![d][b] = e], e.listed = block[d][b].listed
  PROVE  SameList
  BY EditBlock DEF SameList

LEMMA ListRow ==
  ASSUME Typed, Places, NEW t \in Datasets, block' = [block EXCEPT ![t] = Dangling(t, @)]
  PROVE  SameList
<1>1. \A b \in Ids : b \in freeList[t] => ~block[t][b].listed /\ block[t][b].listed \in BOOLEAN
  BY DEF Places, BlockOK, GivenBack, Typed, Entries
<1>2. ASSUME NEW b \in Ids
      PROVE  block'[t][b].listed = block[t][b].listed
  BY <1>1 DEF Typed, Dangling, Deleted
<1> QED
  BY <1>2 DEF SameList, Typed

LEMMA CountFrame ==
  ASSUME Typed, Count, NEW t \in Datasets, NEW r, Becomes(t, r), SameList,
         r.pc # "scanned", r.counted = thread[t].counted,
         \A x : Keeps(t, x)' <=> Keeps(t, x),
         keepAlive' = keepAlive, nCacheUsed' = nCacheUsed
  PROVE  Count'
<1>1. /\ thread'[t] = r
      /\ \A u \in Datasets \ {t} : thread'[u] = thread[u] /\ HandsOf(u)' = HandsOf(u)
  BY Others
<1>2. InList' = InList
  BY ListFrame
<1>3. Counting' = Counting
  BY <1>1 DEF Counting
<1>4. \A u \in Datasets : \A x : Keeps(u, x)' <=> Keeps(u, x)
  BY <1>1 DEF Keeps
<1>5. \A d : Kept(d)' = Kept(d)
  BY <1>4 DEF Kept
<1>6. Counted'
  BY <1>2, <1>3, <1>5, CountedIs DEF Count
<1>7. Enough'
  BY <1>1 DEF Count, Enough
<1>8. CacheBounded'
  BY <1>2 DEF Count, CacheBounded
<1> QED
  BY <1>6, <1>7, <1>8 DEF Count

LEMMA KeepsKept ==
  ASSUME Typed, NEW t \in Datasets, NEW r, Becomes(t, r),
         r.togo = thread[t].togo, r.victim = thread[t].victim,
         r.kind \in Flushing <=> thread[t].kind \in Flushing
  PROVE  \A x : Keeps(t, x)' <=> Keeps(t, x)
  BY Others DEF Keeps, HandsOf

LEMMA KeepsNothing ==
  ASSUME Typed, NEW t \in Datasets, NEW r, Becomes(t, r),
         r.kind \in Flushing \/ (r.togo = <<>> /\ r.victim = NoVictim),
         thread[t].kind \in Flushing \/ (thread[t].togo = <<>> /\ thread[t].victim = NoVictim)
  PROVE  \A x : Keeps(t, x)' <=> Keeps(t, x)
  BY Others DEF Keeps, HandsOf
LEMMA RefuseCount ==
  ASSUME Sound, Count, NEW t \in Datasets, NEW kind \in Requests, NEW i \in Positions,
    RasterIO(t, kind, i), kind # "read", flushErr[t]
  PROVE  Count'
<1> DEFINE old == thread[t]
<1>1. old \in Threads /\ LocalOK(t, old) /\ Typed /\ Control /\ Places
  BY LocalNow DEF Sound
<1> DEFINE r == Locals(old.pc, kind, old.pos, old.mine, old.victim, old.togo, old.counted, old.again,
       old.err, old.ops + 1)
<1>2. old.pc = "idle" /\ Becomes(t, r)
  BY <1>1, RefuseStep
<1>r. Becomes(t, r)
  BY <1>2
<1>3. /\ r.togo = old.togo /\ r.victim = old.victim
      /\ r.kind = kind /\ r.pc = old.pc
      /\ r.counted = old.counted
  BY DEF Locals
<1> HIDE DEF r
<1>4. r.pc # "scanned" /\ r.counted = old.counted
  BY <1>1, <1>2, <1>3 DEF Threads, LocalOK, KindOf, MineOf, HandOf, CountOf, Requests,
    Flushing, Scanning, Freeing, Stuck
<1>5. \A x : Keeps(t, x)' <=> Keeps(t, x)
  <2>1. old.kind \in Flushing \/ (old.togo = <<>> /\ old.victim = NoVictim)
    BY <1>1, <1>2 DEF LocalOK, KindOf, MineOf, HandOf, CountOf, Requests, Flushing, Scanning,
      Freeing, Stuck
  <2>2. r.kind \in Flushing \/ (r.togo = <<>> /\ r.victim = NoVictim)
    BY <1>1, <1>2, <1>3, <2>1 DEF LocalOK, KindOf, MineOf, HandOf, CountOf, Requests,
      Flushing, Scanning, Freeing, Stuck
  <2> QED
    BY <1>1, <1>r, <2>1, <2>2, KeepsNothing
<1>6. SameList
  BY ListKept DEF RasterIO, cache
<1>7. keepAlive' = keepAlive /\ nCacheUsed' = nCacheUsed
  BY DEF RasterIO, cache, band
<1> QED
  BY <1>1, <1>r, <1>4, <1>5, <1>6, <1>7, CountFrame

LEMMA RequestCount ==
  ASSUME Sound, Count, NEW t \in Datasets, NEW kind \in Requests, NEW i \in Positions,
    RasterIO(t, kind, i), kind = "read" \/ ~flushErr[t]
  PROVE  Count'
<1> DEFINE old == thread[t]
<1>1. old \in Threads /\ LocalOK(t, old) /\ Typed /\ Control /\ Places
  BY LocalNow DEF Sound
<1> DEFINE r == Locals(IF kind = "read" THEN "pending" ELSE "enter", kind, i, old.mine, old.victim,
       old.togo, old.counted, old.again, old.err, old.ops + 1)
<1>2. old.pc = "idle" /\ Becomes(t, r)
  BY <1>1, RequestStep
<1>r. Becomes(t, r)
  BY <1>2
<1>3. /\ r.togo = old.togo /\ r.victim = old.victim
      /\ r.kind = kind /\ r.pc = (IF kind = "read" THEN "pending" ELSE "enter")
      /\ r.counted = old.counted
  BY DEF Locals
<1> HIDE DEF r
<1>4. r.pc # "scanned" /\ r.counted = old.counted
  BY <1>1, <1>2, <1>3 DEF Threads, LocalOK, KindOf, MineOf, HandOf, CountOf, Requests,
    Flushing, Scanning, Freeing, Stuck
<1>5. \A x : Keeps(t, x)' <=> Keeps(t, x)
  <2>1. old.kind \in Flushing \/ (old.togo = <<>> /\ old.victim = NoVictim)
    BY <1>1, <1>2 DEF LocalOK, KindOf, MineOf, HandOf, CountOf, Requests, Flushing, Scanning,
      Freeing, Stuck
  <2>2. r.kind \in Flushing \/ (r.togo = <<>> /\ r.victim = NoVictim)
    BY <1>1, <1>2, <1>3, <2>1 DEF LocalOK, KindOf, MineOf, HandOf, CountOf, Requests,
      Flushing, Scanning, Freeing, Stuck
  <2> QED
    BY <1>1, <1>r, <2>1, <2>2, KeepsNothing
<1>6. SameList
  BY ListKept DEF RasterIO, cache
<1>7. keepAlive' = keepAlive /\ nCacheUsed' = nCacheUsed
  BY DEF RasterIO, cache, band
<1> QED
  BY <1>1, <1>r, <1>4, <1>5, <1>6, <1>7, CountFrame

LEMMA WaitPendingCount ==
  ASSUME Sound, Count, NEW t \in Datasets, WaitPending(t)
  PROVE  Count'
<1> DEFINE old == thread[t]
<1>1. old \in Threads /\ LocalOK(t, old) /\ Typed /\ Control /\ Places
  BY LocalNow DEF Sound
<1> DEFINE r == Locals("enter", old.kind, old.pos, old.mine, old.victim, old.togo, old.counted, old.again,
       old.err, old.ops)
<1>2. old.pc = "pending" /\ Becomes(t, r)
  BY <1>1, WaitPendingStep
<1>r. Becomes(t, r)
  BY <1>2
<1>3. /\ r.togo = old.togo /\ r.victim = old.victim
      /\ r.kind = old.kind /\ r.pc = "enter"
      /\ r.counted = old.counted
  BY DEF Locals
<1> HIDE DEF r
<1>4. r.pc # "scanned" /\ r.counted = old.counted
  BY <1>1, <1>2, <1>3 DEF Threads, LocalOK, KindOf, MineOf, HandOf, CountOf, Requests,
    Flushing, Scanning, Freeing, Stuck
<1>5. \A x : Keeps(t, x)' <=> Keeps(t, x)
  BY <1>1, <1>2, <1>r, <1>3, KeepsKept DEF LocalOK, KindOf, MineOf, HandOf, CountOf,
    Requests, Flushing, Scanning, Freeing, Stuck
<1>6. SameList
  BY ListKept DEF WaitPending, cache
<1>7. keepAlive' = keepAlive /\ nCacheUsed' = nCacheUsed
  BY DEF WaitPending, cache, band
<1> QED
  BY <1>1, <1>r, <1>4, <1>5, <1>6, <1>7, CountFrame

LEMMA EnterCount ==
  ASSUME Sound, Count, NEW t \in Datasets, EnterReadWrite(t)
  PROVE  Count'
<1> DEFINE old == thread[t]
<1>1. old \in Threads /\ LocalOK(t, old) /\ Typed /\ Control /\ Places
  BY LocalNow DEF Sound
<1> DEFINE r == Locals(IF old.kind # "read" /\ flushErr[t] THEN "leave" ELSE "lookup", old.kind, old.pos,
       old.mine, old.victim, old.togo, old.counted, old.again, old.err, old.ops)
<1>2. old.pc = "enter" /\ Becomes(t, r)
  BY <1>1, EnterStep
<1>r. Becomes(t, r)
  BY <1>2
<1>3. /\ r.togo = old.togo /\ r.victim = old.victim
      /\ r.kind = old.kind /\ r.pc = (IF old.kind # "read" /\ flushErr[t] THEN "leave" ELSE "lookup")
      /\ r.counted = old.counted
  BY DEF Locals
<1> HIDE DEF r
<1>4. r.pc # "scanned" /\ r.counted = old.counted
  BY <1>1, <1>2, <1>3 DEF Threads, LocalOK, KindOf, MineOf, HandOf, CountOf, Requests,
    Flushing, Scanning, Freeing, Stuck
<1>5. \A x : Keeps(t, x)' <=> Keeps(t, x)
  BY <1>1, <1>2, <1>r, <1>3, KeepsKept DEF LocalOK, KindOf, MineOf, HandOf, CountOf,
    Requests, Flushing, Scanning, Freeing, Stuck
<1>6. SameList
  BY ListKept DEF EnterReadWrite, cache
<1>7. keepAlive' = keepAlive /\ nCacheUsed' = nCacheUsed
  BY DEF EnterReadWrite, cache, band
<1> QED
  BY <1>1, <1>r, <1>4, <1>5, <1>6, <1>7, CountFrame

LEMMA LeaveCount ==
  ASSUME Sound, Count, NEW t \in Datasets, LeaveReadWrite(t)
  PROVE  Count'
<1> DEFINE old == thread[t]
<1>1. old \in Threads /\ LocalOK(t, old) /\ Typed /\ Control /\ Places
  BY LocalNow DEF Sound
<1> DEFINE r == Locals("idle", IF old.kind = "flush" THEN "flush" ELSE "none", 0, NoBlock, NoVictim, <<>>,
       FALSE, FALSE, FALSE, old.ops)
<1>2. old.pc = "leave" /\ Becomes(t, r)
  BY <1>1, LeaveStep
<1>r. Becomes(t, r)
  BY <1>2
<1>3. /\ r.togo = <<>> /\ r.victim = NoVictim
      /\ r.kind = (IF old.kind = "flush" THEN "flush" ELSE "none") /\ r.pc = "idle"
      /\ r.counted = FALSE
  BY DEF Locals
<1> HIDE DEF r
<1>4. r.pc # "scanned" /\ r.counted = old.counted
  BY <1>1, <1>2, <1>3 DEF Threads, LocalOK, KindOf, MineOf, HandOf, CountOf, Requests,
    Flushing, Scanning, Freeing, Stuck
<1>5. \A x : Keeps(t, x)' <=> Keeps(t, x)
  <2>1. old.kind \in Flushing \/ (old.togo = <<>> /\ old.victim = NoVictim)
    BY <1>1, <1>2 DEF LocalOK, KindOf, MineOf, HandOf, CountOf, Requests, Flushing, Scanning,
      Freeing, Stuck
  <2>2. r.kind \in Flushing \/ (r.togo = <<>> /\ r.victim = NoVictim)
    BY <1>1, <1>2, <1>3, <2>1 DEF LocalOK, KindOf, MineOf, HandOf, CountOf, Requests,
      Flushing, Scanning, Freeing, Stuck
  <2> QED
    BY <1>1, <1>r, <2>1, <2>2, KeepsNothing
<1>6. SameList
  BY ListKept DEF LeaveReadWrite, cache
<1>7. keepAlive' = keepAlive /\ nCacheUsed' = nCacheUsed
  BY DEF LeaveReadWrite, cache, band
<1> QED
  BY <1>1, <1>r, <1>4, <1>5, <1>6, <1>7, CountFrame

LEMMA LookupCount ==
  ASSUME Sound, Count, NEW t \in Datasets, Lookup(t)
  PROVE  Count'
<1> DEFINE old == thread[t]
<1>1. old \in Threads /\ LocalOK(t, old) /\ Typed /\ Control /\ Places
  BY LocalNow DEF Sound
<1> DEFINE r == Locals("addlock", old.kind, old.pos, slot[t][old.pos], old.victim, old.togo, old.counted,
       old.again, old.err, old.ops)
<1>2. old.pc = "lookup" /\ slot[t][old.pos] # NoBlock /\ Becomes(t, r)
  BY <1>1, LookupStep
<1>r. Becomes(t, r)
  BY <1>2
<1>3. /\ r.togo = old.togo /\ r.victim = old.victim
      /\ r.kind = old.kind /\ r.pc = "addlock"
      /\ r.counted = old.counted
  BY DEF Locals
<1> HIDE DEF r
<1>4. r.pc # "scanned" /\ r.counted = old.counted
  BY <1>1, <1>2, <1>3 DEF Threads, LocalOK, KindOf, MineOf, HandOf, CountOf, Requests,
    Flushing, Scanning, Freeing, Stuck
<1>5. \A x : Keeps(t, x)' <=> Keeps(t, x)
  BY <1>1, <1>2, <1>r, <1>3, KeepsKept DEF LocalOK, KindOf, MineOf, HandOf, CountOf,
    Requests, Flushing, Scanning, Freeing, Stuck
<1>6. SameList
  BY ListKept DEF Lookup, cache
<1>7. keepAlive' = keepAlive /\ nCacheUsed' = nCacheUsed
  BY DEF Lookup, cache, band
<1> QED
  BY <1>1, <1>r, <1>4, <1>5, <1>6, <1>7, CountFrame

LEMMA EvictCount ==
  ASSUME Sound, Count, NEW t \in Datasets, FlushCacheBlock(t)
  PROVE  Count'
<1> DEFINE old == thread[t]
<1>1. old \in Threads /\ LocalOK(t, old) /\ Typed /\ Control /\ Places
  BY LocalNow DEF Sound
<1> DEFINE r == Locals("scan", "evict", old.pos, old.mine, old.victim, old.togo, old.counted, old.again,
       old.err, old.ops + 1)
<1>2. old.pc = "idle" /\ Becomes(t, r)
  BY <1>1, EvictStep
<1>r. Becomes(t, r)
  BY <1>2
<1>3. /\ r.togo = old.togo /\ r.victim = old.victim
      /\ r.kind = "evict" /\ r.pc = "scan"
      /\ r.counted = old.counted
  BY DEF Locals
<1> HIDE DEF r
<1>4. r.pc # "scanned" /\ r.counted = old.counted
  BY <1>1, <1>2, <1>3 DEF Threads, LocalOK, KindOf, MineOf, HandOf, CountOf, Requests,
    Flushing, Scanning, Freeing, Stuck
<1>5. \A x : Keeps(t, x)' <=> Keeps(t, x)
  <2>1. old.kind \in Flushing \/ (old.togo = <<>> /\ old.victim = NoVictim)
    BY <1>1, <1>2 DEF LocalOK, KindOf, MineOf, HandOf, CountOf, Requests, Flushing, Scanning,
      Freeing, Stuck
  <2>2. r.kind \in Flushing \/ (r.togo = <<>> /\ r.victim = NoVictim)
    BY <1>1, <1>2, <1>3, <2>1 DEF LocalOK, KindOf, MineOf, HandOf, CountOf, Requests,
      Flushing, Scanning, Freeing, Stuck
  <2> QED
    BY <1>1, <1>r, <2>1, <2>2, KeepsNothing
<1>6. SameList
  BY ListKept DEF FlushCacheBlock, cache
<1>7. keepAlive' = keepAlive /\ nCacheUsed' = nCacheUsed
  BY DEF FlushCacheBlock, cache, band
<1> QED
  BY <1>1, <1>r, <1>4, <1>5, <1>6, <1>7, CountFrame

LEMMA TouchKeepCount ==
  ASSUME Sound, Count, NEW t \in Datasets, Touch(t), thread[t].kind = "evict" \/
    thread[t].again
  PROVE  Count'
<1> DEFINE old == thread[t]
<1>1. old \in Threads /\ LocalOK(t, old) /\ Typed /\ Control /\ Places
  BY LocalNow DEF Sound
<1> DEFINE r == Locals("free", old.kind, old.pos, old.mine, old.victim, old.togo, old.counted, old.again,
       old.err, old.ops)
<1>2. old.pc \in {"scan", "scanned"} /\ (old.kind = "evict" \/ old.again) /\ Becomes(t, r)
  BY <1>1, TouchKeepStep
<1>r. Becomes(t, r)
  BY <1>2
<1>3. /\ r.togo = old.togo /\ r.victim = old.victim
      /\ r.kind = old.kind /\ r.pc = "free"
      /\ r.counted = old.counted
  BY DEF Locals
<1> HIDE DEF r
<1>4. r.pc # "scanned" /\ r.counted = old.counted
  BY <1>1, <1>2, <1>3 DEF Threads, LocalOK, KindOf, MineOf, HandOf, CountOf, Requests,
    Flushing, Scanning, Freeing, Stuck
<1>5. \A x : Keeps(t, x)' <=> Keeps(t, x)
  BY <1>1, <1>2, <1>r, <1>3, KeepsKept DEF LocalOK, KindOf, MineOf, HandOf, CountOf,
    Requests, Flushing, Scanning, Freeing, Stuck
<1>6. SameList
  BY ListKept DEF Touch, cache
<1>7. keepAlive' = keepAlive /\ nCacheUsed' = nCacheUsed
  BY DEF Touch, cache, band
<1> QED
  BY <1>1, <1>r, <1>4, <1>5, <1>6, <1>7, CountFrame

LEMMA IWriteCount ==
  ASSUME Sound, Count, NEW t \in Datasets, IWriteBlock(t)
  PROVE  Count'
<1> DEFINE old == thread[t]
<1>1. old \in Threads /\ LocalOK(t, old) /\ Typed /\ Control /\ Places
  BY LocalNow DEF Sound
<1> DEFINE R(j) == Locals(j, old.kind, old.pos, old.mine, old.victim, old.togo, old.counted, old.again,
       old.err, old.ops)
<1>2. PICK j : old.pc = "iwrite" /\ j \in {IF old.kind \in Flushing THEN "delete" ELSE "giveback", "failed"} /\ Becomes(t, R(j))
  BY <1>1, IWriteStep
<1> DEFINE r == R(j)
<1>r. Becomes(t, r)
  BY <1>2
<1>3. /\ r.togo = old.togo /\ r.victim = old.victim
      /\ r.kind = old.kind /\ r.pc = j
      /\ r.counted = old.counted
  BY DEF Locals
<1> HIDE DEF r
<1>4. r.pc # "scanned" /\ r.counted = old.counted
  BY <1>1, <1>2, <1>3 DEF Threads, LocalOK, KindOf, MineOf, HandOf, CountOf, Requests,
    Flushing, Scanning, Freeing, Stuck
<1>5. \A x : Keeps(t, x)' <=> Keeps(t, x)
  BY <1>1, <1>2, <1>r, <1>3, KeepsKept DEF LocalOK, KindOf, MineOf, HandOf, CountOf,
    Requests, Flushing, Scanning, Freeing, Stuck
<1>6. SameList
  BY ListKept DEF IWriteBlock, cache
<1>7. keepAlive' = keepAlive /\ nCacheUsed' = nCacheUsed
  BY DEF IWriteBlock, cache, band
<1> QED
  BY <1>1, <1>r, <1>4, <1>5, <1>6, <1>7, CountFrame

LEMMA WriteFailedFlushCount ==
  ASSUME Sound, Count, NEW t \in Datasets, WriteFailed(t), thread[t].kind \in Flushing
  PROVE  Count'
<1> DEFINE old == thread[t]
<1>1. old \in Threads /\ LocalOK(t, old) /\ Typed /\ Control /\ Places
  BY LocalNow DEF Sound
<1> DEFINE r == Locals("delete", old.kind, old.pos, old.mine, old.victim, old.togo, old.counted, old.again,
       TRUE, old.ops)
<1>2. old.pc = "failed" /\ (old.kind \in Flushing) /\ Becomes(t, r)
  BY <1>1, WriteFailedFlushStep
<1>r. Becomes(t, r)
  BY <1>2
<1>3. /\ r.togo = old.togo /\ r.victim = old.victim
      /\ r.kind = old.kind /\ r.pc = "delete"
      /\ r.counted = old.counted
  BY DEF Locals
<1> HIDE DEF r
<1>4. r.pc # "scanned" /\ r.counted = old.counted
  BY <1>1, <1>2, <1>3 DEF Threads, LocalOK, KindOf, MineOf, HandOf, CountOf, Requests,
    Flushing, Scanning, Freeing, Stuck
<1>5. \A x : Keeps(t, x)' <=> Keeps(t, x)
  BY <1>1, <1>2, <1>r, <1>3, KeepsKept DEF LocalOK, KindOf, MineOf, HandOf, CountOf,
    Requests, Flushing, Scanning, Freeing, Stuck
<1>6. SameList
  BY ListKept DEF WriteFailed, cache
<1>7. keepAlive' = keepAlive /\ nCacheUsed' = nCacheUsed
  BY DEF WriteFailed, cache, band
<1> QED
  BY <1>1, <1>r, <1>4, <1>5, <1>6, <1>7, CountFrame

LEMMA WriteFailedCount ==
  ASSUME Sound, Count, NEW t \in Datasets, WriteFailed(t), thread[t].kind \notin Flushing
  PROVE  Count'
<1> DEFINE old == thread[t]
<1>1. old \in Threads /\ LocalOK(t, old) /\ Typed /\ Control /\ Places
  BY LocalNow DEF Sound
<1> DEFINE r == Locals("giveback", old.kind, old.pos, old.mine, old.victim, old.togo, old.counted,
       old.again, old.err, old.ops)
<1>2. old.pc = "failed" /\ (old.kind \notin Flushing) /\ Becomes(t, r)
  BY <1>1, WriteFailedStep
<1>r. Becomes(t, r)
  BY <1>2
<1>3. /\ r.togo = old.togo /\ r.victim = old.victim
      /\ r.kind = old.kind /\ r.pc = "giveback"
      /\ r.counted = old.counted
  BY DEF Locals
<1> HIDE DEF r
<1>4. r.pc # "scanned" /\ r.counted = old.counted
  BY <1>1, <1>2, <1>3 DEF Threads, LocalOK, KindOf, MineOf, HandOf, CountOf, Requests,
    Flushing, Scanning, Freeing, Stuck
<1>5. \A x : Keeps(t, x)' <=> Keeps(t, x)
  BY <1>1, <1>2, <1>r, <1>3, KeepsKept DEF LocalOK, KindOf, MineOf, HandOf, CountOf,
    Requests, Flushing, Scanning, Freeing, Stuck
<1>6. SameList
  BY ListKept DEF WriteFailed, cache
<1>7. keepAlive' = keepAlive /\ nCacheUsed' = nCacheUsed
  BY DEF WriteFailed, cache, band
<1> QED
  BY <1>1, <1>r, <1>4, <1>5, <1>6, <1>7, CountFrame

LEMMA FreedEvictCount ==
  ASSUME Sound, Count, NEW t \in Datasets, Freed(t), thread[t].kind = "evict"
  PROVE  Count'
<1> DEFINE old == thread[t]
<1>1. old \in Threads /\ LocalOK(t, old) /\ Typed /\ Control /\ Places
  BY LocalNow DEF Sound
<1> DEFINE r == Locals("idle", IF old.kind = "flush" THEN "flush" ELSE "none", 0, NoBlock, NoVictim, <<>>,
       FALSE, FALSE, FALSE, old.ops)
<1>2. old.pc = "free" /\ old.togo = <<>> /\ (old.kind = "evict") /\ Becomes(t, r)
  BY <1>1, FreedEvictStep
<1>r. Becomes(t, r)
  BY <1>2
<1>3. /\ r.togo = <<>> /\ r.victim = NoVictim
      /\ r.kind = (IF old.kind = "flush" THEN "flush" ELSE "none") /\ r.pc = "idle"
      /\ r.counted = FALSE
  BY DEF Locals
<1> HIDE DEF r
<1>4. r.pc # "scanned" /\ r.counted = old.counted
  BY <1>1, <1>2, <1>3 DEF Threads, LocalOK, KindOf, MineOf, HandOf, CountOf, Requests,
    Flushing, Scanning, Freeing, Stuck
<1>5. \A x : Keeps(t, x)' <=> Keeps(t, x)
  <2>1. old.kind \in Flushing \/ (old.togo = <<>> /\ old.victim = NoVictim)
    BY <1>1, <1>2 DEF LocalOK, KindOf, MineOf, HandOf, CountOf, Requests, Flushing, Scanning,
      Freeing, Stuck
  <2>2. r.kind \in Flushing \/ (r.togo = <<>> /\ r.victim = NoVictim)
    BY <1>1, <1>2, <1>3, <2>1 DEF LocalOK, KindOf, MineOf, HandOf, CountOf, Requests,
      Flushing, Scanning, Freeing, Stuck
  <2> QED
    BY <1>1, <1>r, <2>1, <2>2, KeepsNothing
<1>6. SameList
  BY ListKept DEF Freed, cache
<1>7. keepAlive' = keepAlive /\ nCacheUsed' = nCacheUsed
  BY DEF Freed, cache, band
<1> QED
  BY <1>1, <1>r, <1>4, <1>5, <1>6, <1>7, CountFrame

LEMMA FreedCount ==
  ASSUME Sound, Count, NEW t \in Datasets, Freed(t), thread[t].kind # "evict"
  PROVE  Count'
<1> DEFINE old == thread[t]
<1>1. old \in Threads /\ LocalOK(t, old) /\ Typed /\ Control /\ Places
  BY LocalNow DEF Sound
<1> DEFINE r == Locals("internalize", old.kind, old.pos, old.mine, old.victim, old.togo, old.counted,
       old.again, old.err, old.ops)
<1>2. old.pc = "free" /\ old.togo = <<>> /\ old.again /\ (old.kind # "evict") /\ Becomes(t, r)
  BY <1>1, FreedStep
<1>r. Becomes(t, r)
  BY <1>2
<1>3. /\ r.togo = old.togo /\ r.victim = old.victim
      /\ r.kind = old.kind /\ r.pc = "internalize"
      /\ r.counted = old.counted
  BY DEF Locals
<1> HIDE DEF r
<1>4. r.pc # "scanned" /\ r.counted = old.counted
  BY <1>1, <1>2, <1>3 DEF Threads, LocalOK, KindOf, MineOf, HandOf, CountOf, Requests,
    Flushing, Scanning, Freeing, Stuck
<1>5. \A x : Keeps(t, x)' <=> Keeps(t, x)
  BY <1>1, <1>2, <1>r, <1>3, KeepsKept DEF LocalOK, KindOf, MineOf, HandOf, CountOf,
    Requests, Flushing, Scanning, Freeing, Stuck
<1>6. SameList
  BY ListKept DEF Freed, cache
<1>7. keepAlive' = keepAlive /\ nCacheUsed' = nCacheUsed
  BY DEF Freed, cache, band
<1> QED
  BY <1>1, <1>r, <1>4, <1>5, <1>6, <1>7, CountFrame

LEMMA FlushCacheCount ==
  ASSUME Sound, Count, NEW t \in Datasets, NEW kind \in Flushing, FlushCache(t, kind)
  PROVE  Count'
<1> DEFINE old == thread[t]
<1>1. old \in Threads /\ LocalOK(t, old) /\ Typed /\ Control /\ Places
  BY LocalNow DEF Sound
<1> DEFINE r == Locals("flushing", kind, old.pos, old.mine, old.victim, old.togo, old.counted, old.again,
       old.err, old.ops + (IF kind = "flush" THEN 1 ELSE 0))
<1>2. old.pc = (IF kind = "destroy" THEN "destroy" ELSE "idle") /\ Becomes(t, r)
  BY <1>1, FlushCacheStep
<1>r. Becomes(t, r)
  BY <1>2
<1>3. /\ r.togo = old.togo /\ r.victim = old.victim
      /\ r.kind = kind /\ r.pc = "flushing"
      /\ r.counted = old.counted
  BY DEF Locals
<1> HIDE DEF r
<1>4. r.pc # "scanned" /\ r.counted = old.counted
  BY <1>1, <1>2, <1>3 DEF Threads, LocalOK, KindOf, MineOf, HandOf, CountOf, Requests,
    Flushing, Scanning, Freeing, Stuck
<1>5. \A x : Keeps(t, x)' <=> Keeps(t, x)
  <2>1. old.kind \in Flushing \/ (old.togo = <<>> /\ old.victim = NoVictim)
    BY <1>1, <1>2 DEF LocalOK, KindOf, MineOf, HandOf, CountOf, Requests, Flushing, Scanning,
      Freeing, Stuck
  <2>2. r.kind \in Flushing \/ (r.togo = <<>> /\ r.victim = NoVictim)
    BY <1>1, <1>2, <1>3, <2>1 DEF LocalOK, KindOf, MineOf, HandOf, CountOf, Requests,
      Flushing, Scanning, Freeing, Stuck
  <2> QED
    BY <1>1, <1>r, <2>1, <2>2, KeepsNothing
<1>6. SameList
  BY ListKept DEF FlushCache, cache
<1>7. keepAlive' = keepAlive /\ nCacheUsed' = nCacheUsed
  BY DEF FlushCache, cache, band
<1> QED
  BY <1>1, <1>r, <1>4, <1>5, <1>6, <1>7, CountFrame

LEMMA WaitEvictionLeaveCount ==
  ASSUME Sound, Count, NEW t \in Datasets, WaitEviction(t), thread[t].kind \notin Flushing
  PROVE  Count'
<1> DEFINE old == thread[t]
<1>1. old \in Threads /\ LocalOK(t, old) /\ Typed /\ Control /\ Places
  BY LocalNow DEF Sound
<1> DEFINE r == Locals("leave", old.kind, old.pos, old.mine, old.victim, old.togo, old.counted, old.again,
       old.err, old.ops)
<1>2. old.pc = "evicted" /\ (old.kind \notin Flushing) /\ Becomes(t, r)
  BY <1>1, WaitEvictionLeaveStep
<1>r. Becomes(t, r)
  BY <1>2
<1>3. /\ r.togo = old.togo /\ r.victim = old.victim
      /\ r.kind = old.kind /\ r.pc = "leave"
      /\ r.counted = old.counted
  BY DEF Locals
<1> HIDE DEF r
<1>4. r.pc # "scanned" /\ r.counted = old.counted
  BY <1>1, <1>2, <1>3 DEF Threads, LocalOK, KindOf, MineOf, HandOf, CountOf, Requests,
    Flushing, Scanning, Freeing, Stuck
<1>5. \A x : Keeps(t, x)' <=> Keeps(t, x)
  BY <1>1, <1>2, <1>r, <1>3, KeepsKept DEF LocalOK, KindOf, MineOf, HandOf, CountOf,
    Requests, Flushing, Scanning, Freeing, Stuck
<1>6. SameList
  BY ListKept DEF WaitEviction, cache
<1>7. keepAlive' = keepAlive /\ nCacheUsed' = nCacheUsed
  BY DEF WaitEviction, cache, band
<1> QED
  BY <1>1, <1>r, <1>4, <1>5, <1>6, <1>7, CountFrame

LEMMA WaitEvictionCount ==
  ASSUME Sound, Count, NEW t \in Datasets, WaitEviction(t), thread[t].kind \in Flushing
  PROVE  Count'
<1> DEFINE old == thread[t]
<1>1. old \in Threads /\ LocalOK(t, old) /\ Typed /\ Control /\ Places
  BY LocalNow DEF Sound
<1> DEFINE R(j) == Locals(IF j \in Positions THEN "take" ELSE "wait", old.kind, j, NoBlock, old.victim, <<>>,
       old.counted, old.again, old.err, old.ops)
<1>2. PICK j : old.pc = "evicted" /\ old.kind \in Flushing /\ (old.kind \in Flushing) /\ NextSlot(t, old.pos + 1, j) /\ Becomes(t, R(j))
  BY <1>1, WaitEvictionStep
<1> DEFINE r == R(j)
<1>r. Becomes(t, r)
  BY <1>2
<1>3. /\ r.togo = <<>> /\ r.victim = old.victim
      /\ r.kind = old.kind /\ r.pc = (IF j \in Positions THEN "take" ELSE "wait")
      /\ r.counted = old.counted
  BY DEF Locals
<1> HIDE DEF r
<1>4. r.pc # "scanned" /\ r.counted = old.counted
  BY <1>1, <1>2, <1>3 DEF Threads, LocalOK, KindOf, MineOf, HandOf, CountOf, Requests,
    Flushing, Scanning, Freeing, Stuck
<1>5. \A x : Keeps(t, x)' <=> Keeps(t, x)
  <2>1. old.kind \in Flushing \/ (old.togo = <<>> /\ old.victim = NoVictim)
    BY <1>1, <1>2 DEF LocalOK, KindOf, MineOf, HandOf, CountOf, Requests, Flushing, Scanning,
      Freeing, Stuck
  <2>2. r.kind \in Flushing \/ (r.togo = <<>> /\ r.victim = NoVictim)
    BY <1>1, <1>2, <1>3, <2>1 DEF LocalOK, KindOf, MineOf, HandOf, CountOf, Requests,
      Flushing, Scanning, Freeing, Stuck
  <2> QED
    BY <1>1, <1>r, <2>1, <2>2, KeepsNothing
<1>6. SameList
  BY ListKept DEF WaitEviction, cache
<1>7. keepAlive' = keepAlive /\ nCacheUsed' = nCacheUsed
  BY DEF WaitEviction, cache, band
<1> QED
  BY <1>1, <1>r, <1>4, <1>5, <1>6, <1>7, CountFrame

LEMMA FlushedCount ==
  ASSUME Sound, Count, NEW t \in Datasets, Flushed(t), thread[t].kind = "flush"
  PROVE  Count'
<1> DEFINE old == thread[t]
<1>1. old \in Threads /\ LocalOK(t, old) /\ Typed /\ Control /\ Places
  BY LocalNow DEF Sound
<1> DEFINE r == Locals("idle", IF old.kind = "flush" THEN "flush" ELSE "none", 0, NoBlock, NoVictim, <<>>,
       FALSE, FALSE, FALSE, old.ops)
<1>2. old.pc = "wait" /\ (old.kind = "flush") /\ Becomes(t, r)
  BY <1>1, FlushedStep
<1>r. Becomes(t, r)
  BY <1>2
<1>3. /\ r.togo = <<>> /\ r.victim = NoVictim
      /\ r.kind = (IF old.kind = "flush" THEN "flush" ELSE "none") /\ r.pc = "idle"
      /\ r.counted = FALSE
  BY DEF Locals
<1> HIDE DEF r
<1>4. r.pc # "scanned" /\ r.counted = old.counted
  BY <1>1, <1>2, <1>3 DEF Threads, LocalOK, KindOf, MineOf, HandOf, CountOf, Requests,
    Flushing, Scanning, Freeing, Stuck
<1>5. \A x : Keeps(t, x)' <=> Keeps(t, x)
  <2>1. old.kind \in Flushing \/ (old.togo = <<>> /\ old.victim = NoVictim)
    BY <1>1, <1>2 DEF LocalOK, KindOf, MineOf, HandOf, CountOf, Requests, Flushing, Scanning,
      Freeing, Stuck
  <2>2. r.kind \in Flushing \/ (r.togo = <<>> /\ r.victim = NoVictim)
    BY <1>1, <1>2, <1>3, <2>1 DEF LocalOK, KindOf, MineOf, HandOf, CountOf, Requests,
      Flushing, Scanning, Freeing, Stuck
  <2> QED
    BY <1>1, <1>r, <2>1, <2>2, KeepsNothing
<1>6. SameList
  BY ListKept DEF Flushed, cache
<1>7. keepAlive' = keepAlive /\ nCacheUsed' = nCacheUsed
  BY DEF Flushed, cache, band
<1> QED
  BY <1>1, <1>r, <1>4, <1>5, <1>6, <1>7, CountFrame

LEMMA ClosedCount ==
  ASSUME Sound, Count, NEW t \in Datasets, Flushed(t), thread[t].kind = "close"
  PROVE  Count'
<1> DEFINE old == thread[t]
<1>1. old \in Threads /\ LocalOK(t, old) /\ Typed /\ Control /\ Places
  BY LocalNow DEF Sound
<1> DEFINE r == Locals("destroy", "close", 0, NoBlock, NoVictim, <<>>, FALSE, FALSE, FALSE, 0)
<1>2. old.pc = "wait" /\ (old.kind = "close") /\ Becomes(t, r)
  BY <1>1, ClosedStep
<1>r. Becomes(t, r)
  BY <1>2
<1>3. /\ r.togo = <<>> /\ r.victim = NoVictim
      /\ r.kind = "close" /\ r.pc = "destroy"
      /\ r.counted = FALSE
  BY DEF Locals
<1> HIDE DEF r
<1>4. r.pc # "scanned" /\ r.counted = old.counted
  BY <1>1, <1>2, <1>3 DEF Threads, LocalOK, KindOf, MineOf, HandOf, CountOf, Requests,
    Flushing, Scanning, Freeing, Stuck
<1>5. \A x : Keeps(t, x)' <=> Keeps(t, x)
  <2>1. old.kind \in Flushing \/ (old.togo = <<>> /\ old.victim = NoVictim)
    BY <1>1, <1>2 DEF LocalOK, KindOf, MineOf, HandOf, CountOf, Requests, Flushing, Scanning,
      Freeing, Stuck
  <2>2. r.kind \in Flushing \/ (r.togo = <<>> /\ r.victim = NoVictim)
    BY <1>1, <1>2, <1>3, <2>1 DEF LocalOK, KindOf, MineOf, HandOf, CountOf, Requests,
      Flushing, Scanning, Freeing, Stuck
  <2> QED
    BY <1>1, <1>r, <2>1, <2>2, KeepsNothing
<1>6. SameList
  BY ListKept DEF Flushed, cache
<1>7. keepAlive' = keepAlive /\ nCacheUsed' = nCacheUsed
  BY DEF Flushed, cache, band
<1> QED
  BY <1>1, <1>r, <1>4, <1>5, <1>6, <1>7, CountFrame

LEMMA TakeLeaveCount ==
  ASSUME Sound, Count, NEW t \in Datasets, Take(t), thread[t].kind \notin Flushing,
    slot[t][thread[t].pos] = NoBlock
  PROVE  Count'
<1> DEFINE old == thread[t]
<1>1. old \in Threads /\ LocalOK(t, old) /\ Typed /\ Control /\ Places
  BY LocalNow DEF Sound
<1> DEFINE r == Locals("leave", old.kind, old.pos, old.mine, old.victim, old.togo, old.counted, old.again,
       old.err, old.ops)
<1>2. old.pc = "take" /\ (old.kind \notin Flushing) /\ (slot[t][old.pos] = NoBlock) /\ Becomes(t, r)
  BY <1>1, TakeLeaveStep
<1>r. Becomes(t, r)
  BY <1>2
<1>3. /\ r.togo = old.togo /\ r.victim = old.victim
      /\ r.kind = old.kind /\ r.pc = "leave"
      /\ r.counted = old.counted
  BY DEF Locals
<1> HIDE DEF r
<1>4. r.pc # "scanned" /\ r.counted = old.counted
  BY <1>1, <1>2, <1>3 DEF Threads, LocalOK, KindOf, MineOf, HandOf, CountOf, Requests,
    Flushing, Scanning, Freeing, Stuck
<1>5. \A x : Keeps(t, x)' <=> Keeps(t, x)
  BY <1>1, <1>2, <1>r, <1>3, KeepsKept DEF LocalOK, KindOf, MineOf, HandOf, CountOf,
    Requests, Flushing, Scanning, Freeing, Stuck
<1>6. SameList
  BY ListKept DEF Take, cache
<1>7. keepAlive' = keepAlive /\ nCacheUsed' = nCacheUsed
  BY DEF Take, cache, band
<1> QED
  BY <1>1, <1>r, <1>4, <1>5, <1>6, <1>7, CountFrame

LEMMA TakeNextCount ==
  ASSUME Sound, Count, NEW t \in Datasets, Take(t), thread[t].kind \in Flushing,
    slot[t][thread[t].pos] = NoBlock
  PROVE  Count'
<1> DEFINE old == thread[t]
<1>1. old \in Threads /\ LocalOK(t, old) /\ Typed /\ Control /\ Places
  BY LocalNow DEF Sound
<1> DEFINE R(j) == Locals(IF j \in Positions THEN "take" ELSE "wait", old.kind, j, NoBlock, old.victim, <<>>,
       old.counted, old.again, old.err, old.ops)
<1>2. PICK j : old.pc = "take" /\ (old.kind \in Flushing) /\ (slot[t][old.pos] = NoBlock) /\ NextSlot(t, old.pos + 1, j) /\ Becomes(t, R(j))
  BY <1>1, TakeNextStep
<1> DEFINE r == R(j)
<1>r. Becomes(t, r)
  BY <1>2
<1>3. /\ r.togo = <<>> /\ r.victim = old.victim
      /\ r.kind = old.kind /\ r.pc = (IF j \in Positions THEN "take" ELSE "wait")
      /\ r.counted = old.counted
  BY DEF Locals
<1> HIDE DEF r
<1>4. r.pc # "scanned" /\ r.counted = old.counted
  BY <1>1, <1>2, <1>3 DEF Threads, LocalOK, KindOf, MineOf, HandOf, CountOf, Requests,
    Flushing, Scanning, Freeing, Stuck
<1>5. \A x : Keeps(t, x)' <=> Keeps(t, x)
  <2>1. old.kind \in Flushing \/ (old.togo = <<>> /\ old.victim = NoVictim)
    BY <1>1, <1>2 DEF LocalOK, KindOf, MineOf, HandOf, CountOf, Requests, Flushing, Scanning,
      Freeing, Stuck
  <2>2. r.kind \in Flushing \/ (r.togo = <<>> /\ r.victim = NoVictim)
    BY <1>1, <1>2, <1>3, <2>1 DEF LocalOK, KindOf, MineOf, HandOf, CountOf, Requests,
      Flushing, Scanning, Freeing, Stuck
  <2> QED
    BY <1>1, <1>r, <2>1, <2>2, KeepsNothing
<1>6. SameList
  BY ListKept DEF Take, cache
<1>7. keepAlive' = keepAlive /\ nCacheUsed' = nCacheUsed
  BY DEF Take, cache, band
<1> QED
  BY <1>1, <1>r, <1>4, <1>5, <1>6, <1>7, CountFrame

LEMMA FillWholeCount ==
  ASSUME Sound, Count, NEW t \in Datasets, Fill(t), thread[t].pc = "fill", UNCHANGED block,
    Becomes(t, Locals("use", thread[t].kind, thread[t].pos, thread[t].mine, thread[t].victim,
    thread[t].togo, thread[t].counted, thread[t].again, thread[t].err, thread[t].ops))
  PROVE  Count'
<1> DEFINE old == thread[t]
<1>1. old \in Threads /\ LocalOK(t, old) /\ Typed /\ Control /\ Places
  BY LocalNow DEF Sound
<1> DEFINE r == Locals("use", old.kind, old.pos, old.mine, old.victim, old.togo, old.counted, old.again,
       old.err, old.ops)
<1>2. old.pc = "fill" /\ Becomes(t, r)
  BY <1>1, LocalNow
<1>r. Becomes(t, r)
  BY <1>2
<1>3. /\ r.togo = old.togo /\ r.victim = old.victim
      /\ r.kind = old.kind /\ r.pc = "use"
      /\ r.counted = old.counted
  BY DEF Locals
<1> HIDE DEF r
<1>4. r.pc # "scanned" /\ r.counted = old.counted
  BY <1>1, <1>2, <1>3 DEF Threads, LocalOK, KindOf, MineOf, HandOf, CountOf, Requests,
    Flushing, Scanning, Freeing, Stuck
<1>5. \A x : Keeps(t, x)' <=> Keeps(t, x)
  BY <1>1, <1>2, <1>r, <1>3, KeepsKept DEF LocalOK, KindOf, MineOf, HandOf, CountOf,
    Requests, Flushing, Scanning, Freeing, Stuck
<1>6. SameList
  BY ListKept DEF Fill, cache
<1>7. keepAlive' = keepAlive /\ nCacheUsed' = nCacheUsed
  BY DEF Fill, cache, band
<1> QED
  BY <1>1, <1>r, <1>4, <1>5, <1>6, <1>7, CountFrame

LEMMA AddLockCount ==
  ASSUME Sound, Count, NEW t \in Datasets, AddLock(t)
  PROVE  Count'
<1> DEFINE old == thread[t]
<1>1. old \in Threads /\ LocalOK(t, old) /\ Typed /\ Control /\ Places
  BY LocalNow DEF Sound
<1> DEFINE r == Locals(IF block[t][old.mine].lock = -1 THEN "unlock" ELSE "use", old.kind, old.pos,
       old.mine, old.victim, old.togo, old.counted, old.again, old.err, old.ops)
<1>2. old.pc = "addlock" /\ Becomes(t, r)
  BY <1>1, AddLockStep
<1>r. Becomes(t, r)
  BY <1>2
<1>3. /\ r.togo = old.togo /\ r.victim = old.victim
      /\ r.kind = old.kind /\ r.pc = (IF block[t][old.mine].lock = -1 THEN "unlock" ELSE "use")
      /\ r.counted = old.counted
  BY DEF Locals
<1> HIDE DEF r
<1>4. r.pc # "scanned" /\ r.counted = old.counted
  BY <1>1, <1>2, <1>3 DEF Threads, LocalOK, KindOf, MineOf, HandOf, CountOf, Requests,
    Flushing, Scanning, Freeing, Stuck
<1>5. \A x : Keeps(t, x)' <=> Keeps(t, x)
  BY <1>1, <1>2, <1>r, <1>3, KeepsKept DEF LocalOK, KindOf, MineOf, HandOf, CountOf,
    Requests, Flushing, Scanning, Freeing, Stuck
<1>6. SameList
  <2> DEFINE e == [Mine(t) EXCEPT !.lock = @ + 1]
  <2>1. old.mine \in Ids
    BY <1>1, <1>2 DEF LocalOK, KindOf, MineOf, HandOf, CountOf, Requests, Flushing, Scanning,
      Freeing, Stuck
  <2>2. block' = [block EXCEPT ![t][old.mine] = e]
    BY DEF AddLock, SetMine
  <2>3. e.listed = block[t][old.mine].listed
    BY <1>1, <2>1 DEF Mine, Typed, Entries
  <2> HIDE DEF e
  <2> QED
    BY <1>1, <2>1, <2>2, <2>3, ListEdit
<1>7. keepAlive' = keepAlive /\ nCacheUsed' = nCacheUsed
  BY DEF AddLock, SetMine, cache, band
<1> QED
  BY <1>1, <1>r, <1>4, <1>5, <1>6, <1>7, CountFrame

LEMMA TakeLockFailsCount ==
  ASSUME Sound, Count, NEW t \in Datasets, TakeLockFails(t)
  PROVE  Count'
<1> DEFINE old == thread[t]
<1>1. old \in Threads /\ LocalOK(t, old) /\ Typed /\ Control /\ Places
  BY LocalNow DEF Sound
<1> DEFINE r == Locals("create", old.kind, old.pos, NoBlock, old.victim, old.togo, old.counted, old.again,
       old.err, old.ops)
<1>2. old.pc = "unlock" /\ Becomes(t, r)
  BY <1>1, TakeLockFailsStep
<1>r. Becomes(t, r)
  BY <1>2
<1>3. /\ r.togo = old.togo /\ r.victim = old.victim
      /\ r.kind = old.kind /\ r.pc = "create"
      /\ r.counted = old.counted
  BY DEF Locals
<1> HIDE DEF r
<1>4. r.pc # "scanned" /\ r.counted = old.counted
  BY <1>1, <1>2, <1>3 DEF Threads, LocalOK, KindOf, MineOf, HandOf, CountOf, Requests,
    Flushing, Scanning, Freeing, Stuck
<1>5. \A x : Keeps(t, x)' <=> Keeps(t, x)
  BY <1>1, <1>2, <1>r, <1>3, KeepsKept DEF LocalOK, KindOf, MineOf, HandOf, CountOf,
    Requests, Flushing, Scanning, Freeing, Stuck
<1>6. SameList
  <2> DEFINE e == [Mine(t) EXCEPT !.lock = @ - 1]
  <2>1. old.mine \in Ids
    BY <1>1, <1>2 DEF LocalOK, KindOf, MineOf, HandOf, CountOf, Requests, Flushing, Scanning,
      Freeing, Stuck
  <2>2. block' = [block EXCEPT ![t][old.mine] = e]
    BY DEF TakeLockFails, SetMine
  <2>3. e.listed = block[t][old.mine].listed
    BY <1>1, <2>1 DEF Mine, Typed, Entries
  <2> HIDE DEF e
  <2> QED
    BY <1>1, <2>1, <2>2, <2>3, ListEdit
<1>7. keepAlive' = keepAlive /\ nCacheUsed' = nCacheUsed
  BY DEF TakeLockFails, SetMine, cache, band
<1> QED
  BY <1>1, <1>r, <1>4, <1>5, <1>6, <1>7, CountFrame

LEMMA UseReadCount ==
  ASSUME Sound, Count, NEW t \in Datasets, Use(t), thread[t].kind = "read"
  PROVE  Count'
<1> DEFINE old == thread[t]
<1>1. old \in Threads /\ LocalOK(t, old) /\ Typed /\ Control /\ Places
  BY LocalNow DEF Sound
<1> DEFINE r == Locals("leave", old.kind, old.pos, old.mine, old.victim, old.togo, old.counted, old.again,
       old.err, old.ops)
<1>2. old.pc = "use" /\ (old.kind = "read") /\ Becomes(t, r)
  BY <1>1, UseReadStep
<1>r. Becomes(t, r)
  BY <1>2
<1>3. /\ r.togo = old.togo /\ r.victim = old.victim
      /\ r.kind = old.kind /\ r.pc = "leave"
      /\ r.counted = old.counted
  BY DEF Locals
<1> HIDE DEF r
<1>4. r.pc # "scanned" /\ r.counted = old.counted
  BY <1>1, <1>2, <1>3 DEF Threads, LocalOK, KindOf, MineOf, HandOf, CountOf, Requests,
    Flushing, Scanning, Freeing, Stuck
<1>5. \A x : Keeps(t, x)' <=> Keeps(t, x)
  BY <1>1, <1>2, <1>r, <1>3, KeepsKept DEF LocalOK, KindOf, MineOf, HandOf, CountOf,
    Requests, Flushing, Scanning, Freeing, Stuck
<1>6. SameList
  <2> DEFINE e == [Mine(t) EXCEPT !.lock = @ - 1]
  <2>1. old.mine \in Ids
    BY <1>1, <1>2 DEF LocalOK, KindOf, MineOf, HandOf, CountOf, Requests, Flushing, Scanning,
      Freeing, Stuck
  <2>2. block' = [block EXCEPT ![t][old.mine] = e]
    BY DEF Use, SetMine
  <2>3. e.listed = block[t][old.mine].listed
    BY <1>1, <2>1 DEF Mine, Typed, Entries
  <2> HIDE DEF e
  <2> QED
    BY <1>1, <2>1, <2>2, <2>3, ListEdit
<1>7. keepAlive' = keepAlive /\ nCacheUsed' = nCacheUsed
  BY DEF Use, SetMine, cache, band
<1> QED
  BY <1>1, <1>r, <1>4, <1>5, <1>6, <1>7, CountFrame

LEMMA UseCount ==
  ASSUME Sound, Count, NEW t \in Datasets, Use(t), thread[t].kind # "read"
  PROVE  Count'
<1> DEFINE old == thread[t]
<1>1. old \in Threads /\ LocalOK(t, old) /\ Typed /\ Control /\ Places
  BY LocalNow DEF Sound
<1> DEFINE r == Locals("leave", old.kind, old.pos, old.mine, old.victim, old.togo, old.counted, old.again,
       old.err, old.ops)
<1>2. old.pc = "use" /\ (old.kind # "read") /\ Becomes(t, r)
  BY <1>1, UseStep
<1>r. Becomes(t, r)
  BY <1>2
<1>3. /\ r.togo = old.togo /\ r.victim = old.victim
      /\ r.kind = old.kind /\ r.pc = "leave"
      /\ r.counted = old.counted
  BY DEF Locals
<1> HIDE DEF r
<1>4. r.pc # "scanned" /\ r.counted = old.counted
  BY <1>1, <1>2, <1>3 DEF Threads, LocalOK, KindOf, MineOf, HandOf, CountOf, Requests,
    Flushing, Scanning, Freeing, Stuck
<1>5. \A x : Keeps(t, x)' <=> Keeps(t, x)
  BY <1>1, <1>2, <1>r, <1>3, KeepsKept DEF LocalOK, KindOf, MineOf, HandOf, CountOf,
    Requests, Flushing, Scanning, Freeing, Stuck
<1>6. SameList
  <2> DEFINE e == [Mine(t) EXCEPT !.lock = @ - 1, !.dirty = TRUE, !.val = IF thread[t].kind = "write" THEN written[t][thread[t].pos] + 1 ELSE @ + 1]
  <2>1. old.mine \in Ids
    BY <1>1, <1>2 DEF LocalOK, KindOf, MineOf, HandOf, CountOf, Requests, Flushing, Scanning,
      Freeing, Stuck
  <2>2. block' = [block EXCEPT ![t][old.mine] = e]
    BY DEF Use, SetMine
  <2>3. e.listed = block[t][old.mine].listed
    BY <1>1, <2>1 DEF Mine, Typed, Entries
  <2> HIDE DEF e
  <2> QED
    BY <1>1, <2>1, <2>2, <2>3, ListEdit
<1>7. keepAlive' = keepAlive /\ nCacheUsed' = nCacheUsed
  BY DEF Use, SetMine, cache, band
<1> QED
  BY <1>1, <1>r, <1>4, <1>5, <1>6, <1>7, CountFrame

LEMMA FillReadCount ==
  ASSUME Sound, Count, NEW t \in Datasets, Fill(t), thread[t].pc = "fill", SetMine(t,
    [Mine(t) EXCEPT !.val = disk[t][thread[t].pos]]), Becomes(t, Locals("use",
    thread[t].kind, thread[t].pos, thread[t].mine, thread[t].victim, thread[t].togo,
    thread[t].counted, thread[t].again, thread[t].err, thread[t].ops))
  PROVE  Count'
<1> DEFINE old == thread[t]
<1>1. old \in Threads /\ LocalOK(t, old) /\ Typed /\ Control /\ Places
  BY LocalNow DEF Sound
<1> DEFINE r == Locals("use", old.kind, old.pos, old.mine, old.victim, old.togo, old.counted, old.again,
       old.err, old.ops)
<1>2. old.pc = "fill" /\ Becomes(t, r)
  BY <1>1, LocalNow
<1>r. Becomes(t, r)
  BY <1>2
<1>3. /\ r.togo = old.togo /\ r.victim = old.victim
      /\ r.kind = old.kind /\ r.pc = "use"
      /\ r.counted = old.counted
  BY DEF Locals
<1> HIDE DEF r
<1>4. r.pc # "scanned" /\ r.counted = old.counted
  BY <1>1, <1>2, <1>3 DEF Threads, LocalOK, KindOf, MineOf, HandOf, CountOf, Requests,
    Flushing, Scanning, Freeing, Stuck
<1>5. \A x : Keeps(t, x)' <=> Keeps(t, x)
  BY <1>1, <1>2, <1>r, <1>3, KeepsKept DEF LocalOK, KindOf, MineOf, HandOf, CountOf,
    Requests, Flushing, Scanning, Freeing, Stuck
<1>6. SameList
  <2> DEFINE e == [Mine(t) EXCEPT !.val = disk[t][thread[t].pos]]
  <2>1. old.mine \in Ids
    BY <1>1, <1>2 DEF LocalOK, KindOf, MineOf, HandOf, CountOf, Requests, Flushing, Scanning,
      Freeing, Stuck
  <2>2. block' = [block EXCEPT ![t][old.mine] = e]
    BY DEF Fill, SetMine
  <2>3. e.listed = block[t][old.mine].listed
    BY <1>1, <2>1 DEF Mine, Typed, Entries
  <2> HIDE DEF e
  <2> QED
    BY <1>1, <2>1, <2>2, <2>3, ListEdit
<1>7. keepAlive' = keepAlive /\ nCacheUsed' = nCacheUsed
  BY DEF Fill, SetMine, cache, band
<1> QED
  BY <1>1, <1>r, <1>4, <1>5, <1>6, <1>7, CountFrame

LEMMA FillFailsCount ==
  ASSUME Sound, Count, NEW t \in Datasets, Fill(t), thread[t].pc = "fill", SetMine(t,
    [Mine(t) EXCEPT !.lock = @ - 1]), Becomes(t, Locals("take", thread[t].kind,
    thread[t].pos, thread[t].mine, thread[t].victim, thread[t].togo, thread[t].counted,
    thread[t].again, thread[t].err, thread[t].ops))
  PROVE  Count'
<1> DEFINE old == thread[t]
<1>1. old \in Threads /\ LocalOK(t, old) /\ Typed /\ Control /\ Places
  BY LocalNow DEF Sound
<1> DEFINE r == Locals("take", old.kind, old.pos, old.mine, old.victim, old.togo, old.counted, old.again,
       old.err, old.ops)
<1>2. old.pc = "fill" /\ Becomes(t, r)
  BY <1>1, LocalNow
<1>r. Becomes(t, r)
  BY <1>2
<1>3. /\ r.togo = old.togo /\ r.victim = old.victim
      /\ r.kind = old.kind /\ r.pc = "take"
      /\ r.counted = old.counted
  BY DEF Locals
<1> HIDE DEF r
<1>4. r.pc # "scanned" /\ r.counted = old.counted
  BY <1>1, <1>2, <1>3 DEF Threads, LocalOK, KindOf, MineOf, HandOf, CountOf, Requests,
    Flushing, Scanning, Freeing, Stuck
<1>5. \A x : Keeps(t, x)' <=> Keeps(t, x)
  BY <1>1, <1>2, <1>r, <1>3, KeepsKept DEF LocalOK, KindOf, MineOf, HandOf, CountOf,
    Requests, Flushing, Scanning, Freeing, Stuck
<1>6. SameList
  <2> DEFINE e == [Mine(t) EXCEPT !.lock = @ - 1]
  <2>1. old.mine \in Ids
    BY <1>1, <1>2 DEF LocalOK, KindOf, MineOf, HandOf, CountOf, Requests, Flushing, Scanning,
      Freeing, Stuck
  <2>2. block' = [block EXCEPT ![t][old.mine] = e]
    BY DEF Fill, SetMine
  <2>3. e.listed = block[t][old.mine].listed
    BY <1>1, <2>1 DEF Mine, Typed, Entries
  <2> HIDE DEF e
  <2> QED
    BY <1>1, <2>1, <2>2, <2>3, ListEdit
<1>7. keepAlive' = keepAlive /\ nCacheUsed' = nCacheUsed
  BY DEF Fill, SetMine, cache, band
<1> QED
  BY <1>1, <1>r, <1>4, <1>5, <1>6, <1>7, CountFrame

LEMMA MallocCount ==
  ASSUME Sound, Count, NEW t \in Datasets, Malloc(t)
  PROVE  Count'
<1> DEFINE old == thread[t]
<1>1. old \in Threads /\ LocalOK(t, old) /\ Typed /\ Control /\ Places
  BY LocalNow DEF Sound
<1> DEFINE r == Locals("reacquire", old.kind, old.pos, old.mine, old.victim, old.togo, old.counted,
       old.again, old.err, old.ops)
<1>2. old.pc = "free" /\ old.togo = <<>> /\ old.kind # "evict" /\ ~old.again /\ Becomes(t, r)
  BY <1>1, MallocStep
<1>r. Becomes(t, r)
  BY <1>2
<1>3. /\ r.togo = old.togo /\ r.victim = old.victim
      /\ r.kind = old.kind /\ r.pc = "reacquire"
      /\ r.counted = old.counted
  BY DEF Locals
<1> HIDE DEF r
<1>4. r.pc # "scanned" /\ r.counted = old.counted
  BY <1>1, <1>2, <1>3 DEF Threads, LocalOK, KindOf, MineOf, HandOf, CountOf, Requests,
    Flushing, Scanning, Freeing, Stuck
<1>5. \A x : Keeps(t, x)' <=> Keeps(t, x)
  BY <1>1, <1>2, <1>r, <1>3, KeepsKept DEF LocalOK, KindOf, MineOf, HandOf, CountOf,
    Requests, Flushing, Scanning, Freeing, Stuck
<1>6. SameList
  <2> DEFINE e == [Mine(t) EXCEPT !.data = TRUE]
  <2>1. old.mine \in Ids
    BY <1>1, <1>2 DEF LocalOK, KindOf, MineOf, HandOf, CountOf, Requests, Flushing, Scanning,
      Freeing, Stuck
  <2>2. block' = [block EXCEPT ![t][old.mine] = e]
    BY DEF Malloc, SetMine
  <2>3. e.listed = block[t][old.mine].listed
    BY <1>1, <2>1 DEF Mine, Typed, Entries
  <2> HIDE DEF e
  <2> QED
    BY <1>1, <2>1, <2>2, <2>3, ListEdit
<1>7. keepAlive' = keepAlive /\ nCacheUsed' = nCacheUsed
  BY DEF Malloc, SetMine, cache, band
<1> QED
  BY <1>1, <1>r, <1>4, <1>5, <1>6, <1>7, CountFrame

LEMMA FlushBlocksCount ==
  ASSUME Sound, Count, NEW t \in Datasets, FlushBlocks(t)
  PROVE  Count'
<1> DEFINE old == thread[t]
<1>1. old \in Threads /\ LocalOK(t, old) /\ Typed /\ Control /\ Places
  BY LocalNow DEF Sound
<1> DEFINE R(j) == Locals(IF j \in Positions THEN "take" ELSE "wait", old.kind, j, NoBlock, old.victim, <<>>,
       old.counted, old.again, flushErr[t], old.ops)
<1>2. PICK j : old.pc = "flushing" /\ NextSlot(t, 1, j) /\ Becomes(t, R(j))
  BY <1>1, FlushBlocksStep
<1> DEFINE r == R(j)
<1>r. Becomes(t, r)
  BY <1>2
<1>3. /\ r.togo = <<>> /\ r.victim = old.victim
      /\ r.kind = old.kind /\ r.pc = (IF j \in Positions THEN "take" ELSE "wait")
      /\ r.counted = old.counted
  BY DEF Locals
<1> HIDE DEF r
<1>4. r.pc # "scanned" /\ r.counted = old.counted
  BY <1>1, <1>2, <1>3 DEF Threads, LocalOK, KindOf, MineOf, HandOf, CountOf, Requests,
    Flushing, Scanning, Freeing, Stuck
<1>5. \A x : Keeps(t, x)' <=> Keeps(t, x)
  <2>1. old.kind \in Flushing \/ (old.togo = <<>> /\ old.victim = NoVictim)
    BY <1>1, <1>2 DEF LocalOK, KindOf, MineOf, HandOf, CountOf, Requests, Flushing, Scanning,
      Freeing, Stuck
  <2>2. r.kind \in Flushing \/ (r.togo = <<>> /\ r.victim = NoVictim)
    BY <1>1, <1>2, <1>3, <2>1 DEF LocalOK, KindOf, MineOf, HandOf, CountOf, Requests,
      Flushing, Scanning, Freeing, Stuck
  <2> QED
    BY <1>1, <1>r, <2>1, <2>2, KeepsNothing
<1>6. SameList
  BY <1>1, ListRow DEF FlushBlocks
<1>7. keepAlive' = keepAlive /\ nCacheUsed' = nCacheUsed
  BY DEF FlushBlocks, cache, band
<1> QED
  BY <1>1, <1>r, <1>4, <1>5, <1>6, <1>7, CountFrame

LEMMA DestroyedCount ==
  ASSUME Sound, Count, NEW t \in Datasets, Flushed(t), thread[t].kind = "destroy"
  PROVE  Count'
<1> DEFINE old == thread[t]
<1>1. old \in Threads /\ LocalOK(t, old) /\ Typed /\ Control /\ Places
  BY LocalNow DEF Sound
<1> DEFINE r == Locals("closed", "destroy", 0, NoBlock, NoVictim, <<>>, FALSE, FALSE, FALSE, 0)
<1>2. old.pc = "wait" /\ (old.kind = "destroy") /\ Becomes(t, r)
  BY <1>1, DestroyedStep
<1>r. Becomes(t, r)
  BY <1>2
<1>3. /\ r.togo = <<>> /\ r.victim = NoVictim
      /\ r.kind = "destroy" /\ r.pc = "closed"
      /\ r.counted = FALSE
  BY DEF Locals
<1> HIDE DEF r
<1>4. r.pc # "scanned" /\ r.counted = old.counted
  BY <1>1, <1>2, <1>3 DEF Threads, LocalOK, KindOf, MineOf, HandOf, CountOf, Requests,
    Flushing, Scanning, Freeing, Stuck
<1>5. \A x : Keeps(t, x)' <=> Keeps(t, x)
  <2>1. old.kind \in Flushing \/ (old.togo = <<>> /\ old.victim = NoVictim)
    BY <1>1, <1>2 DEF LocalOK, KindOf, MineOf, HandOf, CountOf, Requests, Flushing, Scanning,
      Freeing, Stuck
  <2>2. r.kind \in Flushing \/ (r.togo = <<>> /\ r.victim = NoVictim)
    BY <1>1, <1>2, <1>3, <2>1 DEF LocalOK, KindOf, MineOf, HandOf, CountOf, Requests,
      Flushing, Scanning, Freeing, Stuck
  <2> QED
    BY <1>1, <1>r, <2>1, <2>2, KeepsNothing
<1>6. SameList
  BY <1>1, ListRow DEF Flushed
<1>7. keepAlive' = keepAlive /\ nCacheUsed' = nCacheUsed
  BY DEF Flushed, cache, band
<1> QED
  BY <1>1, <1>r, <1>4, <1>5, <1>6, <1>7, CountFrame

LEMMA CreateCount ==
  ASSUME Sound, Count, NEW t \in Datasets, CreateBlock(t)
  PROVE  Count'
<1> DEFINE old == thread[t]
<1>1. old \in Threads /\ LocalOK(t, old) /\ Typed /\ Control /\ Places
  BY LocalNow DEF Sound
<1> DEFINE r == Locals("internalize", old.kind, old.pos, Least(Available(t)), old.victim, old.togo,
       old.counted, old.again, old.err, old.ops)
<1>2. /\ old.pc = "create" \/ (old.pc = "lookup" /\ slot[t][old.pos] = NoBlock)
      /\ Least(Available(t)) \in Available(t) /\ Least(Available(t)) \in Ids
      /\ Becomes(t, r)
  BY <1>1, CreateStep
<1>r. Becomes(t, r)
  BY <1>2
<1>3. /\ r.togo = old.togo /\ r.victim = old.victim
      /\ r.kind = old.kind /\ r.pc = "internalize"
      /\ r.counted = old.counted
  BY DEF Locals
<1> HIDE DEF r
<1>4. r.pc # "scanned" /\ r.counted = old.counted
  BY <1>1, <1>2, <1>3 DEF Threads, LocalOK, KindOf, MineOf, HandOf, CountOf, Requests,
    Flushing, Scanning, Freeing, Stuck
<1>5. \A x : Keeps(t, x)' <=> Keeps(t, x)
  BY <1>1, <1>2, <1>r, <1>3, KeepsKept DEF LocalOK, KindOf, MineOf, HandOf, CountOf,
    Requests, Flushing, Scanning, Freeing, Stuck
<1>6. SameList
  <2> DEFINE m == Least(Available(t))
             e == [Fresh(thread[t].pos) EXCEPT !.lock = 1]
  <2>1. block' = [block EXCEPT ![t][m] = e]
    BY DEF CreateBlock
  <2>2. m \in Ids /\ (m \in freeList[t] \/ ~block[t][m].live)
    BY <1>2 DEF Available
  <2>3. e.listed = FALSE
    BY DEF Fresh, Deleted
  <2> HIDE DEF m, e
  <2>4. block[t][m].listed = FALSE
    BY <1>1, <2>2 DEF Places, BlockOK, GivenBack, Dead, Typed, Entries
  <2> QED
    BY <1>1, <2>1, <2>2, <2>3, <2>4, ListEdit
<1>7. keepAlive' = keepAlive /\ nCacheUsed' = nCacheUsed
  BY DEF CreateBlock, cache, band
<1> QED
  BY <1>1, <1>r, <1>4, <1>5, <1>6, <1>7, CountFrame

LEMMA AdoptCount ==
  ASSUME Sound, Count, NEW t \in Datasets, Adopt(t)
  PROVE  Count'
<1> DEFINE old == thread[t]
<1>1. old \in Threads /\ LocalOK(t, old) /\ Typed /\ Control /\ Places
  BY LocalNow DEF Sound
<1> DEFINE r == Locals("fill", old.kind, old.pos, old.mine, old.victim, old.togo, old.counted, old.again,
       old.err, old.ops)
<1>2. old.pc = "reacquire" /\ Becomes(t, r)
  BY <1>1, AdoptStep
<1>r. Becomes(t, r)
  BY <1>2
<1>3. /\ r.togo = old.togo /\ r.victim = old.victim
      /\ r.kind = old.kind /\ r.pc = "fill"
      /\ r.counted = old.counted
  BY DEF Locals
<1> HIDE DEF r
<1>4. r.pc # "scanned" /\ r.counted = old.counted
  BY <1>1, <1>2, <1>3 DEF Threads, LocalOK, KindOf, MineOf, HandOf, CountOf, Requests,
    Flushing, Scanning, Freeing, Stuck
<1>5. \A x : Keeps(t, x)' <=> Keeps(t, x)
  BY <1>1, <1>2, <1>r, <1>3, KeepsKept DEF LocalOK, KindOf, MineOf, HandOf, CountOf,
    Requests, Flushing, Scanning, Freeing, Stuck
<1>6. SameList
  BY <1>1, ListRow DEF Adopt
<1>7. keepAlive' = keepAlive /\ nCacheUsed' = nCacheUsed
  BY DEF Adopt, cache, band
<1> QED
  BY <1>1, <1>r, <1>4, <1>5, <1>6, <1>7, CountFrame

LEMMA TakeCount ==
  ASSUME Sound, Count, NEW t \in Datasets, Take(t), slot[t][thread[t].pos] # NoBlock
  PROVE  Count'
<1> DEFINE old == thread[t]
<1>1. old \in Threads /\ LocalOK(t, old) /\ Typed /\ Control /\ Places
  BY LocalNow DEF Sound
<1> DEFINE r == Locals("droplock", old.kind, old.pos, slot[t][old.pos], old.victim, old.togo, old.counted,
       old.again, old.err, old.ops)
<1>2. old.pc = "take" /\ slot[t][old.pos] # NoBlock /\ (slot[t][old.pos] # NoBlock) /\ Becomes(t, r)
  BY <1>1, TakeStep
<1>r. Becomes(t, r)
  BY <1>2
<1>3. /\ r.togo = old.togo /\ r.victim = old.victim
      /\ r.kind = old.kind /\ r.pc = "droplock"
      /\ r.counted = old.counted
  BY DEF Locals
<1> HIDE DEF r
<1>4. r.pc # "scanned" /\ r.counted = old.counted
  BY <1>1, <1>2, <1>3 DEF Threads, LocalOK, KindOf, MineOf, HandOf, CountOf, Requests,
    Flushing, Scanning, Freeing, Stuck
<1>5. \A x : Keeps(t, x)' <=> Keeps(t, x)
  BY <1>1, <1>2, <1>r, <1>3, KeepsKept DEF LocalOK, KindOf, MineOf, HandOf, CountOf,
    Requests, Flushing, Scanning, Freeing, Stuck
<1>6. SameList
  BY ListKept DEF Take, cache
<1>7. keepAlive' = keepAlive /\ nCacheUsed' = nCacheUsed
  BY DEF Take, cache, band
<1> QED
  BY <1>1, <1>r, <1>4, <1>5, <1>6, <1>7, CountFrame

LEMMA DropLockCount ==
  ASSUME Sound, Count, NEW t \in Datasets, DropLockForRemoval(t), Mine(t).lock = 0
  PROVE  Count'
<1> DEFINE old == thread[t]
<1>1. old \in Threads /\ LocalOK(t, old) /\ Typed /\ Control /\ Places
  BY LocalNow DEF Sound
<1> DEFINE r == Locals("remove", old.kind, old.pos, old.mine, old.victim, old.togo, old.counted, old.again,
       old.err, old.ops)
<1>2. old.pc = "droplock" /\ Becomes(t, r)
  BY <1>1, DropLockStep
<1>r. Becomes(t, r)
  BY <1>2
<1>3. /\ r.togo = old.togo /\ r.victim = old.victim
      /\ r.kind = old.kind /\ r.pc = "remove"
      /\ r.counted = old.counted
  BY DEF Locals
<1> HIDE DEF r
<1>4. r.pc # "scanned" /\ r.counted = old.counted
  BY <1>1, <1>2, <1>3 DEF Threads, LocalOK, KindOf, MineOf, HandOf, CountOf, Requests,
    Flushing, Scanning, Freeing, Stuck
<1>5. \A x : Keeps(t, x)' <=> Keeps(t, x)
  BY <1>1, <1>2, <1>r, <1>3, KeepsKept DEF LocalOK, KindOf, MineOf, HandOf, CountOf,
    Requests, Flushing, Scanning, Freeing, Stuck
<1>6. SameList
  <2> DEFINE e == [Mine(t) EXCEPT !.lock = -1]
  <2>1. old.mine \in Ids
    BY <1>1, <1>2 DEF LocalOK, KindOf, MineOf, HandOf, CountOf, Requests, Flushing, Scanning,
      Freeing, Stuck
  <2>2. block' = [block EXCEPT ![t][old.mine] = e]
    BY DEF DropLockForRemoval, StillOurs, SetMine
  <2>3. e.listed = block[t][old.mine].listed
    BY <1>1, <2>1 DEF Mine, Typed, Entries
  <2> HIDE DEF e
  <2> QED
    BY <1>1, <2>1, <2>2, <2>3, ListEdit
<1>7. keepAlive' = keepAlive /\ nCacheUsed' = nCacheUsed
  BY DEF DropLockForRemoval, StillOurs, SetMine, cache, band
<1> QED
  BY <1>1, <1>r, <1>4, <1>5, <1>6, <1>7, CountFrame

LEMMA DropLockEvictedCount ==
  ASSUME Sound, Count, NEW t \in Datasets, DropLockForRemoval(t), Mine(t).lock # 0
  PROVE  Count'
<1> DEFINE old == thread[t]
<1>1. old \in Threads /\ LocalOK(t, old) /\ Typed /\ Control /\ Places
  BY LocalNow DEF Sound
<1> DEFINE r == Locals("evicted", old.kind, old.pos, old.mine, old.victim, old.togo, old.counted,
       old.again, old.err, old.ops)
<1>2. old.pc = "droplock" /\ Becomes(t, r)
  BY <1>1, DropLockEvictedStep
<1>r. Becomes(t, r)
  BY <1>2
<1>3. /\ r.togo = old.togo /\ r.victim = old.victim
      /\ r.kind = old.kind /\ r.pc = "evicted"
      /\ r.counted = old.counted
  BY DEF Locals
<1> HIDE DEF r
<1>4. r.pc # "scanned" /\ r.counted = old.counted
  BY <1>1, <1>2, <1>3 DEF Threads, LocalOK, KindOf, MineOf, HandOf, CountOf, Requests,
    Flushing, Scanning, Freeing, Stuck
<1>5. \A x : Keeps(t, x)' <=> Keeps(t, x)
  BY <1>1, <1>2, <1>r, <1>3, KeepsKept DEF LocalOK, KindOf, MineOf, HandOf, CountOf,
    Requests, Flushing, Scanning, Freeing, Stuck
<1>6. SameList
  BY ListKept DEF DropLockForRemoval, StillOurs, SetMine, cache
<1>7. keepAlive' = keepAlive /\ nCacheUsed' = nCacheUsed
  BY DEF DropLockForRemoval, StillOurs, SetMine, cache, band
<1> QED
  BY <1>1, <1>r, <1>4, <1>5, <1>6, <1>7, CountFrame

LEMMA DeleteCount ==
  ASSUME Sound, Count, NEW t \in Datasets, Delete(t)
  PROVE  Count'
<1> DEFINE old == thread[t]
<1>1. old \in Threads /\ LocalOK(t, old) /\ Typed /\ Control /\ Places
  BY LocalNow DEF Sound
<1> DEFINE R(j) == Locals(IF j \in Positions THEN "take" ELSE "wait", old.kind, j, NoBlock, old.victim, <<>>,
       old.counted, old.again, old.err, old.ops)
<1>2. PICK j : old.pc = "delete" /\ old.kind \in Flushing /\ NextSlot(t, old.pos + 1, j) /\ Becomes(t, R(j))
  BY <1>1, DeleteStep
<1> DEFINE r == R(j)
<1>r. Becomes(t, r)
  BY <1>2
<1>3. /\ r.togo = <<>> /\ r.victim = old.victim
      /\ r.kind = old.kind /\ r.pc = (IF j \in Positions THEN "take" ELSE "wait")
      /\ r.counted = old.counted
  BY DEF Locals
<1> HIDE DEF r
<1>4. r.pc # "scanned" /\ r.counted = old.counted
  BY <1>1, <1>2, <1>3 DEF Threads, LocalOK, KindOf, MineOf, HandOf, CountOf, Requests,
    Flushing, Scanning, Freeing, Stuck
<1>5. \A x : Keeps(t, x)' <=> Keeps(t, x)
  <2>1. old.kind \in Flushing \/ (old.togo = <<>> /\ old.victim = NoVictim)
    BY <1>1, <1>2 DEF LocalOK, KindOf, MineOf, HandOf, CountOf, Requests, Flushing, Scanning,
      Freeing, Stuck
  <2>2. r.kind \in Flushing \/ (r.togo = <<>> /\ r.victim = NoVictim)
    BY <1>1, <1>2, <1>3, <2>1 DEF LocalOK, KindOf, MineOf, HandOf, CountOf, Requests,
      Flushing, Scanning, Freeing, Stuck
  <2> QED
    BY <1>1, <1>r, <2>1, <2>2, KeepsNothing
<1>6. SameList
  <2>1. old.mine \in Ids /\ Mine1(t)
    BY <1>1, <1>2 DEF Places, LocalOK, KindOf, MineOf, HandOf, CountOf, Requests, Flushing,
      Scanning, Freeing, Stuck
  <2>2. block[t][old.mine].listed = FALSE /\ Deleted.listed = FALSE
    BY <1>1, <1>2, <2>1 DEF Mine1, Flusher, Typed, Entries, Deleted
  <2> QED
    BY <1>1, <2>1, <2>2, ListEdit DEF Delete, SetMine
<1>7. keepAlive' = keepAlive /\ nCacheUsed' = nCacheUsed
  BY DEF Delete, SetMine, cache, band
<1> QED
  BY <1>1, <1>r, <1>4, <1>5, <1>6, <1>7, CountFrame

LEMMA CountShrink ==
  ASSUME Typed, Count, NEW t \in Datasets, NEW r, Becomes(t, r), NEW x \in InList,
         InList' = InList \ {x}, r.pc # "scanned", r.counted = thread[t].counted,
         nCacheUsed' = nCacheUsed - 1,
         \A d \in Datasets : keepAlive'[d] = Cardinality(Kept(d)')
  PROVE  Count'
<1>1. thread'[t] = r /\ \A u \in Datasets \ {t} : thread'[u] = thread[u]
  BY Others
<1>2. Counting' = Counting
  BY <1>1 DEF Counting
<1>3. /\ Cardinality(InList') = Cardinality(InList) - 1
      /\ Cardinality(InList) \in Nat /\ Cardinality(Counting) \in Nat
  BY AllFinite, FS_RemoveElement, FS_CardinalityType
<1>4. Counted'
  BY <1>2, <1>3, CountedIs DEF Count
<1>5. Enough'
  <2>1. nCacheUsed <= nCacheMax => nCacheUsed' <= nCacheMax
    BY CacheAssumption DEF Typed
  <2> QED
    BY <1>1, <2>1 DEF Count, Enough
<1>6. CacheBounded'
  BY BoundedShrinks DEF Count
<1> QED
  BY <1>4, <1>5, <1>6 DEF Count

LEMMA InternalizeCount ==
  ASSUME Sound, Count, NEW t \in Datasets, Internalize(t)
  PROVE  Count'
<1> DEFINE old == thread[t]
           r == Locals("scan", old.kind, old.pos, old.mine, old.victim, old.togo, TRUE, FALSE,
                       old.err, old.ops)
<1>1. old \in Threads /\ LocalOK(t, old) /\ Typed /\ Control /\ Places
  BY LocalNow DEF Sound
<1>r. Becomes(t, r)
  BY <1>1, InternalizeStep
<1>2. r.pc = "scan" /\ r.counted = TRUE /\ r.togo = old.togo /\ r.victim = old.victim /\ r.kind = old.kind
  BY DEF Locals
<1> HIDE DEF r
<1>3. thread'[t] = r /\ \A u \in Datasets \ {t} : thread'[u] = thread[u]
  BY <1>1, <1>r, Others
<1>4. \A d : Kept(d)' = Kept(d)
  <2>1. \A x : Keeps(t, x)' <=> Keeps(t, x)
    BY <1>1, <1>r, <1>2, KeepsKept
  <2>2. \A u \in Datasets : \A x : Keeps(u, x)' <=> Keeps(u, x)
    BY <1>3, <2>1 DEF Keeps, HandsOf
  <2> QED
    BY <2>2 DEF Kept
<1>5. InList' = InList
  BY ListKept, ListFrame DEF Internalize
<1>6. /\ Cardinality(InList) \in Nat /\ Cardinality(Counting) \in Nat
      /\ nCacheUsed = Cardinality(InList) + Cardinality(Counting)
  BY AllFinite, FS_CardinalityType, CountedIs DEF Count
<1>7. nCacheUsed' = Cardinality(InList) + Cardinality(Counting')
  <2>1. CASE old.counted
    <3>1. Counting' = Counting
      BY <1>2, <1>3, <2>1 DEF Counting
    <3> QED
      BY <1>6, <2>1, <3>1 DEF Internalize, FirstIter
  <2>2. CASE ~old.counted
    <3>1. Counting' = Counting \cup {t} /\ t \notin Counting
      BY <1>2, <1>3, <2>2 DEF Counting
    <3>2. Cardinality(Counting') = Cardinality(Counting) + 1
      BY <3>1, AllFinite, FS_AddElement
    <3> QED
      BY <1>6, <2>2, <3>2 DEF Internalize, FirstIter
  <2> QED
    BY <2>1, <2>2
<1>8. keepAlive' = keepAlive
  BY DEF Internalize, band
<1>9. Counted'
  BY <1>4, <1>5, <1>7, <1>8, CountedIs DEF Count
<1>10. Enough'
  <2>1. \A u \in Datasets : thread'[u].pc # "scanned"
    BY <1>1, <1>2, <1>3, CacheAssumption DEF Control, Scanning, Internalize
  <2> QED
    BY <2>1 DEF Enough
<1>11. CacheBounded'
  BY <1>5 DEF Count, CacheBounded
<1> QED
  BY <1>9, <1>10, <1>11 DEF Count

LEMMA ClaimCount ==
  ASSUME Sound, Count, NEW t \in Datasets, NEW x \in AllBlocks, Claim(t, x)
  PROVE  Count'
<1> DEFINE old == thread[t]
           r == Locals("unref", old.kind, old.pos, old.mine, x, old.togo, old.counted, old.again,
                       old.err, old.ops)
<1>1. old \in Threads /\ LocalOK(t, old) /\ Typed /\ Control /\ Places /\ x \notin HandsOf(t)
  BY LocalNow, ClaimPlaces DEF Sound
<1>r. Becomes(t, r)
  BY <1>1, ClaimStep
<1>2. PICK d \in Datasets, b \in Ids : x = <<d, b>> /\ x[1] = d /\ x[2] = b
  BY Pairs
<1>3. old.pc = "scan" /\ x \in InList /\ Unlocked(x) /\ old.kind \notin Flushing /\ old.victim = NoVictim /\ x # NoVictim
  BY <1>1, Pairs DEF Claim, At, LocalOK, KindOf, HandOf, Scanning, Requests, Flushing
<1>4. block[d][b].listed /\ block[d][b].data
  BY <1>1, <1>2, <1>3, Claimable
<1>5. r.pc = "unref" /\ r.counted = old.counted /\ r.togo = old.togo /\ r.victim = x /\ r.kind = old.kind
  BY DEF Locals
<1> HIDE DEF r
<1>6. thread'[t] = r /\ \A u \in Datasets \ {t} : thread'[u] = thread[u]
  BY <1>1, <1>r, Others
<1>7. \A u \in Datasets : \A y : Keeps(u, y)' <=> Keeps(u, y) \/ (u = t /\ y = x)
  <2>1. \A y : Keeps(t, y)' <=> Keeps(t, y) \/ y = x
    BY <1>3, <1>5, <1>6 DEF Keeps, HandsOf
  <2> QED
    BY <1>6, <2>1 DEF Keeps, HandsOf
<1>8. \A c \in Datasets : keepAlive'[c] = Cardinality(Kept(c)')
  <2>1. ASSUME NEW c \in Datasets
        PROVE  keepAlive'[c] = Cardinality(Kept(c)')
    <3>1. keepAlive[c] = Cardinality(Kept(c)) /\ Cardinality(Kept(c)) \in Nat
      BY CountedIs, AllFinite, FS_CardinalityType DEF Count
    <3>2. CASE c = d
      <4>1. Kept(c)' = Kept(c) \cup {<<t, x>>} /\ <<t, x>> \notin Kept(c)
        <5>1. \A p \in Datasets \X AllBlocks : p = <<p[1], p[2]>> /\ p[1] \in Datasets
          OBVIOUS
        <5>2. <<t, x>> \in Datasets \X AllBlocks
          OBVIOUS
        <5> QED
          BY <1>1, <1>2, <1>7, <3>2, <5>1, <5>2 DEF Kept, Keeps
      <4>2. Cardinality(Kept(c)') = Cardinality(Kept(c)) + 1
        BY <4>1, AllFinite, FS_AddElement
      <4> QED
        BY <1>1, <1>2, <3>1, <3>2, <4>2 DEF Claim, Typed
    <3>3. CASE c # d
      <4>1. Kept(c)' = Kept(c)
        BY <1>2, <1>7, <3>3 DEF Kept
      <4> QED
        BY <1>1, <1>2, <3>1, <3>3, <4>1 DEF Claim, Typed
    <3> QED
      BY <3>2, <3>3
  <2> QED
    BY <2>1
<1>9. InList' = InList \ {x} /\ x \in InList
  <2> DEFINE e0 == [block[d][b] EXCEPT !.lock = -1, !.listed = FALSE]
  <2>1. block' = [block EXCEPT ![d][b] = e0]
    BY <1>2 DEF Claim, SetThe, The
  <2>2. e0.listed = FALSE
    BY <1>1 DEF Typed, Entries
  <2>e. /\ block'[d][b] = e0 /\ block[d][b] \in Entries
        /\ \A c \in Ids \ {b} : block'[d][c] = block[d][c]
        /\ \A c \in Datasets \ {d} : block'[c] = block[c]
    <3>1. Typed /\ d \in Datasets /\ b \in Ids
      BY <1>1
    <3> HIDE DEF e0
    <3> QED
      BY <2>1, <3>1, EditBlock
  <2>3. /\ ~block'[d][b].listed
        /\ \A c \in Ids \ {b} : block'[d][c] = block[d][c]
        /\ \A c \in Datasets \ {d} : block'[c] = block[c]
    BY <2>2, <2>e
  <2>4. \A y \in AllBlocks : y \in InList' <=> y \in InList /\ y # x
    <3>1. ASSUME NEW y \in AllBlocks
          PROVE  block'[y[1]][y[2]].listed <=> block[y[1]][y[2]].listed /\ y # x
      BY <1>2, <2>3, Pairs
    <3> QED
      BY <3>1 DEF InList, The
  <2>5. x \in InList
    BY <1>2, <1>4 DEF InList, The
  <2> QED
    BY <2>4, <2>5 DEF InList
<1>10. nCacheUsed' = nCacheUsed - 1
  BY <1>2, <1>4 DEF Claim, The
<1> QED
  BY <1>1, <1>r, <1>5, <1>8, <1>9, <1>10, CountShrink

LEMMA UnreferenceCount ==
  ASSUME Sound, Count, NEW t \in Datasets, NEW full \in BOOLEAN,
         Unreference(t, full)
  PROVE  Count'
<1> DEFINE old == thread[t]
           stop == The(old.victim).dirty \/ full \/ old.kind = "evict"
<1>1. old \in Threads /\ LocalOK(t, old) /\ Typed /\ Control /\ Places
  BY LocalNow DEF Sound
<1>2. /\ old.pc = "unref" /\ old.victim \in AllBlocks
      /\ \E w, g : /\ w = (IF stop THEN "scanned" ELSE "scan")
                   /\ g = (stop /\ old.kind # "evict" /\ nCacheUsed > nCacheMax)
                   /\ Becomes(t, Locals(w, old.kind, old.pos, old.mine, NoVictim,
                                        Append(old.togo, old.victim), old.counted, g, old.err, old.ops))
  BY <1>1, UnreferenceStep
<1>3. PICK w, g : /\ w = (IF stop THEN "scanned" ELSE "scan")
                  /\ g = (stop /\ old.kind # "evict" /\ nCacheUsed > nCacheMax)
                  /\ Becomes(t, Locals(w, old.kind, old.pos, old.mine, NoVictim,
                                       Append(old.togo, old.victim), old.counted, g, old.err, old.ops))
  BY <1>2
<1> DEFINE r == Locals(w, old.kind, old.pos, old.mine, NoVictim, Append(old.togo, old.victim),
                       old.counted, g, old.err, old.ops)
<1>r. Becomes(t, r)
  BY <1>3
<1>4. /\ r.pc = w /\ r.counted = old.counted /\ r.togo = Append(old.togo, old.victim)
      /\ r.victim = NoVictim /\ r.kind = old.kind /\ r.again = g
  BY DEF Locals
<1> HIDE DEF r, stop
<1>5. thread'[t] = r /\ \A u \in Datasets \ {t} : thread'[u] = thread[u]
  BY <1>1, <1>r, Others
<1>6. \A y : Keeps(t, y)' <=> Keeps(t, y)
  <2>1. PICK s, x : s = Append(old.togo, x) /\ x = old.victim
    OBVIOUS
  <2>2. /\ old.togo \in Seq(AllBlocks) /\ NoTwice(old.togo) /\ x # NoVictim
        /\ \A n \in DOMAIN old.togo : old.togo[n] # x
    BY <1>1, <1>2, <2>1, Pairs DEF Threads, LocalOK, HandOf
  <2>3. /\ HandsOf(t) = {old.togo[n] : n \in DOMAIN old.togo} \cup {x}
        /\ HandsOf(t)' = {s[n] : n \in DOMAIN s}
    BY <1>4, <1>5, <2>1, <2>2 DEF HandsOf
  <2>4. ASSUME NEW y
        PROVE  y \in HandsOf(t)' <=> y \in HandsOf(t)
    <3>1. /\ y \in HandsOf(t) <=> y = x \/ \E n \in DOMAIN old.togo : old.togo[n] = y
          /\ y \in HandsOf(t)' <=> \E n \in DOMAIN s : s[n] = y
      BY <2>3
    <3> QED
      BY <1>2, <2>1, <2>2, <3>1, TogoAppend
  <2> QED
    BY <1>4, <1>5, <2>4 DEF Keeps
<1>7. InList' = InList
  BY ListKept, ListFrame DEF Unreference
<1>8. Counting' = Counting
  BY <1>4, <1>5 DEF Counting
<1>9. \A d : Kept(d)' = Kept(d)
  <2>1. \A u \in Datasets : \A x : Keeps(u, x)' <=> Keeps(u, x)
    BY <1>5, <1>6 DEF Keeps, HandsOf
  <2> QED
    BY <2>1 DEF Kept
<1>10. keepAlive' = keepAlive /\ nCacheUsed' = nCacheUsed
  BY DEF Unreference, band
<1>11. Counted'
  BY <1>7, <1>8, <1>9, <1>10, CountedIs DEF Count
<1>12. Enough'
  <2>1. w = "scanned" => stop
    BY <1>3
  <2>2. ~g /\ w = "scanned" /\ old.kind # "evict" => ~(nCacheUsed > nCacheMax)
    BY <1>3, <2>1
  <2>3. ~(nCacheUsed > nCacheMax) => nCacheUsed <= nCacheMax
    BY <1>1, CacheAssumption DEF Typed
  <2>4. r.pc = "scanned" /\ r.kind # "evict" /\ ~r.again => nCacheUsed <= nCacheMax
    BY <1>4, <2>2, <2>3
  <2> QED
    BY <1>5, <1>10, <2>4 DEF Count, Enough
<1>13. CacheBounded'
  BY <1>7 DEF Count, CacheBounded
<1> QED
  BY <1>11, <1>12, <1>13 DEF Count

(* Internalize puts its block in the list when there is room, or when no   *)
(* block of its dataset is left in it.                                     *)
LEMMA RoomToTouch ==
  ASSUME Sound, Count, Seek, NEW t \in Datasets, Touch(t), thread[t].kind # "evict",
         ~thread[t].again
  PROVE  nCacheUsed <= nCacheMax \/ t \notin InCache
<1>1. CASE At(t, "scanned")
  BY <1>1 DEF Count, Enough, At
<1>2. CASE At(t, "scan") /\ ~NeedsRoom(t)
  BY <1>2, CacheAssumption DEF NeedsRoom, Sound, Typed
<1>3. CASE At(t, "scan") /\ Ahead = {}
  <2>1. hRBLock = t
    BY <1>3 DEF Sound, Control, At, Scanning
  <2>2. InList \subseteq search.passed
    BY <1>3 DEF Ahead
  <2> QED
    BY <2>1, <2>2 DEF Seek, InCache
<1> QED
  BY <1>1, <1>2, <1>3 DEF Touch

LEMMA TouchPutCount ==
  ASSUME Sound, Count, Seek, NEW t \in Datasets, Touch(t), thread[t].kind # "evict",
         ~thread[t].again
  PROVE  Count'
<1> DEFINE old == thread[t]
           r == Locals("free", old.kind, old.pos, old.mine, old.victim, old.togo, FALSE, old.again,
                       old.err, old.ops)
<1>1. old \in Threads /\ LocalOK(t, old) /\ Typed /\ Control /\ Places
  BY LocalNow DEF Sound
<1>2. old.pc \in {"scan", "scanned"} /\ Becomes(t, r)
  BY <1>1, TouchPutStep
<1>r. Becomes(t, r)
  BY <1>2
<1>3. /\ r.pc = "free" /\ r.counted = FALSE /\ r.togo = old.togo /\ r.victim = old.victim
      /\ r.kind = old.kind
  BY DEF Locals
<1> HIDE DEF r
<1>4. thread'[t] = r /\ \A u \in Datasets \ {t} : thread'[u] = thread[u]
  BY <1>1, <1>r, Others
<1>5. old.kind \in Requests /\ old.mine \in Ids /\ old.counted /\ Making(t) /\ ~Put(t)
  BY <1>1, <1>2 DEF LocalOK, KindOf, MineOf, CountOf, Making, Put, Scanning, Freeing
<1>6. \A d : Kept(d)' = Kept(d)
  <2>1. \A x : Keeps(t, x)' <=> Keeps(t, x)
    BY <1>1, <1>r, <1>3, KeepsKept
  <2>2. \A u \in Datasets : \A x : Keeps(u, x)' <=> Keeps(u, x)
    BY <1>4, <2>1 DEF Keeps, HandsOf
  <2> QED
    BY <2>2 DEF Kept
<1>7. PICK m : m = old.mine
  OBVIOUS
<1>8. InList' = InList \cup {<<t, m>>} /\ <<t, m>> \notin InList
  <2> DEFINE e0 == [Mine(t) EXCEPT !.listed = TRUE]
  <2>1. block' = [block EXCEPT ![t][m] = e0]
    BY <1>7 DEF Touch, SetMine
  <2>2. e0.listed = TRUE
    BY <1>1, <1>5 DEF Typed, Entries, Mine
  <2>e. /\ block'[t][m] = e0 /\ block[t][m] \in Entries
        /\ \A c \in Ids \ {m} : block'[t][c] = block[t][c]
        /\ \A c \in Datasets \ {t} : block'[c] = block[c]
    <3>1. Typed /\ m \in Ids
      BY <1>1, <1>5, <1>7
    <3> HIDE DEF e0
    <3> QED
      BY <2>1, <3>1, EditBlock
  <2>3. /\ block'[t][m].listed
        /\ \A c \in Ids \ {m} : block'[t][c] = block[t][c]
        /\ \A c \in Datasets \ {t} : block'[c] = block[c]
    BY <2>2, <2>e
  <2>4. \A y \in AllBlocks : y \in InList' <=> y \in InList \/ y = <<t, m>>
    <3>1. ASSUME NEW y \in AllBlocks
          PROVE  block'[y[1]][y[2]].listed <=> block[y[1]][y[2]].listed \/ y = <<t, m>>
      BY <2>3, Pairs
    <3> QED
      BY <3>1 DEF InList, The
  <2>5. ~block[t][m].listed
    BY <1>1, <1>5, <1>7 DEF Places, Mine1
  <2>6. <<t, m>> \in AllBlocks
    BY <1>5, <1>7 DEF AllBlocks
  <2> QED
    BY <2>4, <2>5, <2>6 DEF InList, The
<1>9. /\ Cardinality(InList') = Cardinality(InList) + 1
      /\ Cardinality(InList) \in Nat
  BY <1>8, AllFinite, FS_AddElement, FS_CardinalityType
<1>10. /\ Cardinality(Counting') = Cardinality(Counting) - 1
       /\ Cardinality(Counting) \in Nat /\ Cardinality(Counting) >= 1
  <2>1. Counting' = Counting \ {t} /\ t \in Counting
    BY <1>3, <1>4, <1>5 DEF Counting
  <2>2. Cardinality(Counting') = Cardinality(Counting) - 1 /\ IsFiniteSet(Counting')
    BY <2>1, AllFinite, FS_RemoveElement, FS_Subset
  <2> QED
    BY <2>2, AllFinite, FS_CardinalityType
<1>11. keepAlive' = keepAlive /\ nCacheUsed' = nCacheUsed
  BY DEF Touch, band
<1>12. Counted'
  BY <1>6, <1>9, <1>10, <1>11, CountedIs DEF Count
<1>13. Enough'
  BY <1>3, <1>4, <1>11 DEF Count, Enough
<1>14. CacheBounded'
  <2>1. nCacheUsed <= nCacheMax \/ t \notin InCache
    BY RoomToTouch
  <2>2. nCacheUsed = Cardinality(InList) + Cardinality(Counting)
    BY CountedIs DEF Count
  <2>3. t \in InCache' /\ InCache' = InCache \cup {t}
    BY <1>8 DEF InCache
  <2>4. Cardinality(InCache) \in Nat /\ Cardinality(InCache') \in Nat
    BY BoundedIs, FS_CardinalityType
  <2>5. CASE nCacheUsed <= nCacheMax
    <3>1. Cardinality(InCache') # 0
      BY <2>3, BoundedIs, FS_EmptySet
    <3> QED
      BY <1>9, <1>10, <2>2, <2>4, <2>5, <3>1, BoundedIs, CacheAssumption
  <2>6. CASE t \notin InCache
    <3>1. Cardinality(InCache') = Cardinality(InCache) + 1
      BY <2>3, <2>6, BoundedIs, FS_AddElement
    <3> QED
      BY <1>9, <2>4, <3>1, BoundedIs, CacheAssumption DEF Count
  <2> QED
    BY <2>1, <2>5, <2>6
<1> QED
  BY <1>12, <1>13, <1>14 DEF Count

LEMMA CountDownCount ==
  ASSUME Sound, Count, NEW t \in Datasets, CountDown(t)
  PROVE  Count'
<1> DEFINE old == thread[t]
           r == Locals("free", old.kind, old.pos, old.mine, old.victim, Tail(old.togo), old.counted,
                       old.again, old.err, old.ops)
<1>1. old \in Threads /\ LocalOK(t, old) /\ Typed /\ Control /\ Places
  BY LocalNow DEF Sound
<1>2. old.pc = "countdown" /\ Becomes(t, r)
  BY <1>1, CountDownStep
<1>r. Becomes(t, r)
  BY <1>2
<1>3. /\ r.pc = "free" /\ r.counted = old.counted /\ r.togo = Tail(old.togo)
      /\ r.victim = old.victim /\ r.kind = old.kind
  BY DEF Locals
<1> HIDE DEF r
<1>4. /\ thread'[t] = r
      /\ \A u \in Datasets \ {t} : thread'[u] = thread[u] /\ HandsOf(u)' = HandsOf(u)
  BY <1>1, <1>r, Others
<1>5. /\ old.togo \in Seq(AllBlocks) /\ old.togo # <<>> /\ NoTwice(old.togo)
      /\ old.kind \notin Flushing /\ old.victim = NoVictim
  BY <1>1, <1>2 DEF Threads, LocalOK, HandOf, KindOf, Requests, Flushing
<1>6. PICK x : x = First(t) /\ x \in AllBlocks /\ x \in HandsOf(t)
  BY <1>5, TogoTail DEF First, HandsOf
<1>7. \A y : Keeps(t, y)' <=> Keeps(t, y) /\ y # x
  <2>1. /\ HandsOf(t) = {old.togo[n] : n \in DOMAIN old.togo}
        /\ HandsOf(t)' = {Tail(old.togo)[n] : n \in DOMAIN Tail(old.togo)}
    <3>1. PICK s, v : s = Tail(old.togo) /\ v = old.victim
      OBVIOUS
    <3>2. thread'[t].togo = s /\ thread'[t].victim = v /\ v = NoVictim
      BY <1>3, <1>4, <1>5, <3>1
    <3> QED
      BY <1>5, <3>1, <3>2 DEF HandsOf
  <2>2. ASSUME NEW y
        PROVE  y \in HandsOf(t)' <=> y # x /\ y \in HandsOf(t)
    <3>1. /\ y \in HandsOf(t) <=> \E n \in DOMAIN old.togo : old.togo[n] = y
          /\ y \in HandsOf(t)' <=> \E n \in DOMAIN Tail(old.togo) : Tail(old.togo)[n] = y
      BY <2>1
    <3> QED
      BY <1>5, <1>6, <3>1, TogoTail DEF First
  <2> QED
    BY <1>3, <1>4, <2>2 DEF Keeps
<1>8. \A c \in Datasets : keepAlive'[c] = Cardinality(Kept(c)')
  <2>1. ASSUME NEW c \in Datasets
        PROVE  keepAlive'[c] = Cardinality(Kept(c)')
    <3>1. keepAlive[c] = Cardinality(Kept(c)) /\ Cardinality(Kept(c)) \in Nat
      BY CountedIs, AllFinite, FS_CardinalityType DEF Count
    <3>2. \A u \in Datasets : \A y : Keeps(u, y)' <=> Keeps(u, y) /\ (u # t \/ y # x)
      BY <1>4, <1>7 DEF Keeps
    <3>3. keepAlive' = [keepAlive EXCEPT ![x[1]] = @ - 1]
      BY <1>6 DEF CountDown
    <3>4. CASE c = x[1]
      <4>1. Kept(c)' = Kept(c) \ {<<t, x>>} /\ <<t, x>> \in Kept(c)
        <5>1. \A p \in Datasets \X AllBlocks : p = <<p[1], p[2]>> /\ p[1] \in Datasets
          OBVIOUS
        <5>2. <<t, x>> \in Datasets \X AllBlocks /\ Keeps(t, x)
          BY <1>5, <1>6 DEF Keeps
        <5> QED
          BY <3>2, <3>4, <5>1, <5>2 DEF Kept
      <4>2. Cardinality(Kept(c)') = Cardinality(Kept(c)) - 1
        BY <4>1, AllFinite, FS_RemoveElement
      <4> QED
        BY <1>1, <3>1, <3>3, <3>4, <4>2 DEF Typed
    <3>5. CASE c # x[1]
      <4>1. Kept(c)' = Kept(c)
        BY <3>2, <3>5 DEF Kept
      <4> QED
        BY <1>1, <3>1, <3>3, <3>5, <4>1 DEF Typed
    <3> QED
      BY <3>4, <3>5
  <2> QED
    BY <2>1
<1>9. InList' = InList /\ nCacheUsed' = nCacheUsed
  BY ListKept, ListFrame DEF CountDown, cache
<1>10. Counting' = Counting
  BY <1>3, <1>4 DEF Counting
<1>11. Counted'
  BY <1>8, <1>9, <1>10, CountedIs DEF Count
<1>12. Enough' /\ CacheBounded'
  BY <1>3, <1>4, <1>9 DEF Count, Enough, CacheBounded
<1> QED
  BY <1>11, <1>12 DEF Count

LEMMA WriteCount ==
  ASSUME Sound, Count, NEW t \in Datasets, Write(t)
  PROVE  Count'
<1> DEFINE old == thread[t]
           r == Locals(IF flushErr[First(t)[1]] THEN "failed" ELSE "iwrite", old.kind,
                       old.pos, old.mine, old.victim, old.togo, old.counted, old.again,
                       old.err, old.ops)
<1>1. old \in Threads /\ LocalOK(t, old) /\ Typed /\ Control /\ Places
  BY LocalNow DEF Sound
<1>2. old.pc = "free" /\ old.togo # <<>> /\ Becomes(t, r)
  BY <1>1, WriteStep
<1>r. Becomes(t, r)
  BY <1>2
<1>3. r.pc # "scanned" /\ r.counted = old.counted /\ r.togo = old.togo /\ r.victim = old.victim /\ r.kind = old.kind
  BY DEF Locals
<1> HIDE DEF r
<1>4. \A x : Keeps(t, x)' <=> Keeps(t, x)
  BY <1>1, <1>r, <1>3, KeepsKept
<1>5. First(t) \in AllBlocks
  BY <1>1, <1>2, TogoTail DEF First, Threads, LocalOK, HandOf
<1>6. PICK d \in Datasets, b \in Ids : First(t) = <<d, b>> /\ First(t)[1] = d /\ First(t)[2] = b
  BY <1>5, Pairs
<1>7. SameList
  <2> DEFINE e == [block[d][b] EXCEPT !.dirty = FALSE]
  <2>1. block' = [block EXCEPT ![d][b] = e]
    BY <1>6 DEF Write, SetThe, The
  <2>2. e.listed = block[d][b].listed
    BY <1>1 DEF Typed, Entries
  <2> HIDE DEF e
  <2> QED
    BY <1>1, <2>1, <2>2, ListEdit
<1>8. keepAlive' = keepAlive /\ nCacheUsed' = nCacheUsed
  BY DEF Write, band
<1> QED
  BY <1>1, <1>r, <1>3, <1>4, <1>7, <1>8, CountFrame

LEMMA AddBlockCount ==
  ASSUME Sound, Count, NEW t \in Datasets, AddBlockToFreeList(t)
  PROVE  Count'
<1> DEFINE old == thread[t]
           r == Locals("countdown", old.kind, old.pos, old.mine, old.victim, old.togo,
                       old.counted, old.again, old.err, old.ops)
<1>1. old \in Threads /\ LocalOK(t, old) /\ Typed /\ Control /\ Places /\ old.kind \notin Flushing
  BY LocalNow, AddBlockPlaces DEF Sound
<1>2. old.pc \in {"giveback", "free"} /\ old.togo # <<>> /\ Becomes(t, r)
  BY <1>1, AddBlockStep
<1>r. Becomes(t, r)
  BY <1>2
<1>3. r.pc # "scanned" /\ r.counted = old.counted /\ r.togo = old.togo /\ r.victim = old.victim /\ r.kind = old.kind
  BY DEF Locals
<1> HIDE DEF r
<1>4. \A x : Keeps(t, x)' <=> Keeps(t, x)
  BY <1>1, <1>r, <1>3, KeepsKept
<1>5. First(t) \in AllBlocks /\ First(t) \in Held(t)
  BY <1>1, <1>2, FirstHand DEF Freeing
<1>6. PICK d \in Datasets, b \in Ids : First(t) = <<d, b>> /\ First(t)[1] = d /\ First(t)[2] = b
  BY <1>5, Pairs
<1>7. ~block[d][b].listed /\ block[d][b].listed \in BOOLEAN
  BY <1>1, <1>5, <1>6, InHand DEF Typed, Entries
<1>8. SameList
  <2> DEFINE e == [Fresh(0) EXCEPT !.lock = block[d][b].lock]
  <2>1. block' = [block EXCEPT ![d][b] = e]
    BY <1>6 DEF AddBlockToFreeList, SetThe, The
  <2>2. e.listed = block[d][b].listed
    BY <1>7 DEF Fresh, Deleted
  <2> HIDE DEF e
  <2> QED
    BY <1>1, <2>1, <2>2, ListEdit
<1>9. keepAlive' = keepAlive /\ nCacheUsed' = nCacheUsed
  BY DEF AddBlockToFreeList
<1> QED
  BY <1>1, <1>r, <1>3, <1>4, <1>8, <1>9, CountFrame

(* A block leaves the list when its own thread removes it.                 *)
LEMMA ListDrop ==
  ASSUME Typed, NEW d \in Datasets, NEW b \in Ids, block[d][b].listed, NEW e,
         block' = [block EXCEPT ![d][b] = e], ~e.listed
  PROVE  InList' = InList \ {<<d, b>>} /\ <<d, b>> \in InList
<1>1. /\ block'[d][b] = e /\ block[d][b] \in Entries
      /\ \A c \in Ids \ {b} : block'[d][c] = block[d][c]
      /\ \A c \in Datasets \ {d} : block'[c] = block[c]
  BY EditBlock
<1>2. \A y \in AllBlocks : y \in InList' <=> y \in InList /\ y # <<d, b>>
  <2>1. ASSUME NEW y \in AllBlocks
        PROVE  block'[y[1]][y[2]].listed <=> block[y[1]][y[2]].listed /\ y # <<d, b>>
    BY <1>1, Pairs
  <2> QED
    BY <2>1 DEF InList, The
<1>3. <<d, b>> \in InList
  BY DEF InList, The, AllBlocks
<1> QED
  BY <1>2, <1>3 DEF InList

LEMMA RemoveShrinks ==
  ASSUME Sound, NEW t \in Datasets, Remove(t)
  PROVE  /\ InList' = InList \ {<<t, thread[t].mine>>} /\ <<t, thread[t].mine>> \in InList
         /\ nCacheUsed' = nCacheUsed - 1 /\ keepAlive' = keepAlive
<1>1. LocalOK(t, thread[t]) /\ Typed /\ Control /\ Places /\ thread[t].pc = "remove"
  BY LocalNow DEF Sound, Remove, At
<1>2. PICK m : m = thread[t].mine
  OBVIOUS
<1>3. m \in Ids
  BY <1>1, <1>2 DEF LocalOK, MineOf
<1>4. block[t][m].listed /\ block[t][m].data
  BY <1>1, <1>2 DEF Places, Mine1
<1>5. PICK e : block' = [block EXCEPT ![t][m] = e] /\ ~e.listed
  <2>1. CASE Mine(t).dirty /\ ~thread[t].err
    <3> DEFINE e == [Mine(t) EXCEPT !.listed = FALSE]
    <3>1. block' = [block EXCEPT ![t][m] = e]
      BY <1>2, <2>1 DEF Remove, SetMine
    <3>2. ~e.listed
      BY <1>1, <1>2, <1>3 DEF Typed, Entries, Mine
    <3> HIDE DEF e
    <3> QED
      BY <3>1, <3>2
  <2>2. CASE ~(Mine(t).dirty /\ ~thread[t].err)
    BY <1>2, <2>2 DEF Remove, SetMine, Deleted
  <2> QED
    BY <2>1, <2>2
<1>6. InList' = InList \ {<<t, m>>} /\ <<t, m>> \in InList
  BY <1>1, <1>3, <1>4, <1>5, ListDrop
<1>7. nCacheUsed' = nCacheUsed - 1 /\ keepAlive' = keepAlive
  BY <1>2, <1>4 DEF Remove, Mine, band
<1> QED
  BY <1>2, <1>6, <1>7

LEMMA RemoveWriteCount ==
  ASSUME Sound, Count, NEW t \in Datasets, Remove(t), Mine(t).dirty /\ ~thread[t].err,
         thread[t].kind \in Flushing
  PROVE  Count'
<1> DEFINE old == thread[t]
<1>1. old \in Threads /\ LocalOK(t, old) /\ Typed /\ Control /\ Places
  BY LocalNow DEF Sound
<1> DEFINE r == Locals("free", old.kind, old.pos, old.mine, old.victim, <<<<t, old.mine>>>>,
                       old.counted, old.again, old.err, old.ops)
<1>2. old.pc = "remove" /\ Becomes(t, r)
  BY <1>1, RemoveWriteStep
<1>r. Becomes(t, r)
  BY <1>2
<1>3. /\ r.pc # "scanned" /\ r.counted = old.counted /\ r.kind = old.kind /\ r.victim = old.victim
  BY DEF Locals
<1> HIDE DEF r
<1>4. \A x : Keeps(t, x)' <=> Keeps(t, x)
  BY <1>1, <1>r, <1>3, KeepsNothing
<1>5. thread'[t] = r /\ \A u \in Datasets \ {t} : thread'[u] = thread[u] /\ HandsOf(u)' = HandsOf(u)
  BY <1>1, <1>r, Others
<1>6. \A d : Kept(d)' = Kept(d)
  <2>1. \A u \in Datasets : \A x : Keeps(u, x)' <=> Keeps(u, x)
    BY <1>4, <1>5 DEF Keeps
  <2> QED
    BY <2>1 DEF Kept
<1>7. /\ InList' = InList \ {<<t, old.mine>>} /\ <<t, old.mine>> \in InList
      /\ nCacheUsed' = nCacheUsed - 1 /\ keepAlive' = keepAlive
  BY RemoveShrinks
<1>8. \A d \in Datasets : keepAlive'[d] = Cardinality(Kept(d)')
  BY <1>6, <1>7, CountedIs DEF Count
<1> QED
  BY <1>1, <1>r, <1>3, <1>7, <1>8, CountShrink

LEMMA RemoveLeaveCount ==
  ASSUME Sound, Count, NEW t \in Datasets, Remove(t), ~(Mine(t).dirty /\ ~thread[t].err),
         thread[t].kind \notin Flushing
  PROVE  Count'
<1> DEFINE old == thread[t]
<1>1. old \in Threads /\ LocalOK(t, old) /\ Typed /\ Control /\ Places
  BY LocalNow DEF Sound
<1> DEFINE r == Locals("leave", old.kind, old.pos, old.mine, old.victim, old.togo,
                       old.counted, old.again, old.err, old.ops)
<1>2. old.pc = "remove" /\ Becomes(t, r)
  BY <1>1, RemoveLeaveStep
<1>r. Becomes(t, r)
  BY <1>2
<1>3. /\ r.pc # "scanned" /\ r.counted = old.counted /\ r.kind = old.kind /\ r.victim = old.victim
      /\ r.togo = old.togo
  BY DEF Locals
<1> HIDE DEF r
<1>4. \A x : Keeps(t, x)' <=> Keeps(t, x)
  BY <1>1, <1>r, <1>3, KeepsKept
<1>5. thread'[t] = r /\ \A u \in Datasets \ {t} : thread'[u] = thread[u] /\ HandsOf(u)' = HandsOf(u)
  BY <1>1, <1>r, Others
<1>6. \A d : Kept(d)' = Kept(d)
  <2>1. \A u \in Datasets : \A x : Keeps(u, x)' <=> Keeps(u, x)
    BY <1>4, <1>5 DEF Keeps
  <2> QED
    BY <2>1 DEF Kept
<1>7. /\ InList' = InList \ {<<t, old.mine>>} /\ <<t, old.mine>> \in InList
      /\ nCacheUsed' = nCacheUsed - 1 /\ keepAlive' = keepAlive
  BY RemoveShrinks
<1>8. \A d \in Datasets : keepAlive'[d] = Cardinality(Kept(d)')
  BY <1>6, <1>7, CountedIs DEF Count
<1> QED
  BY <1>1, <1>r, <1>3, <1>7, <1>8, CountShrink

LEMMA RemoveNextCount ==
  ASSUME Sound, Count, NEW t \in Datasets, Remove(t), ~(Mine(t).dirty /\ ~thread[t].err),
         thread[t].kind \in Flushing
  PROVE  Count'
<1> DEFINE old == thread[t]
<1>1. old \in Threads /\ LocalOK(t, old) /\ Typed /\ Control /\ Places
  BY LocalNow DEF Sound
<1> DEFINE R(j) == Locals(IF j \in Positions THEN "take" ELSE "wait", old.kind, j, NoBlock,
                          old.victim, <<>>, old.counted, old.again, old.err, old.ops)
<1>2. PICK j : old.pc = "remove" /\ Becomes(t, R(j))
  BY <1>1, RemoveNextStep
<1> DEFINE r == R(j)
<1>r. Becomes(t, r)
  BY <1>2
<1>3. /\ r.pc # "scanned" /\ r.counted = old.counted /\ r.kind = old.kind /\ r.victim = old.victim
  BY DEF Locals
<1> HIDE DEF r
<1>4. \A x : Keeps(t, x)' <=> Keeps(t, x)
  BY <1>1, <1>r, <1>3, KeepsNothing
<1>5. thread'[t] = r /\ \A u \in Datasets \ {t} : thread'[u] = thread[u] /\ HandsOf(u)' = HandsOf(u)
  BY <1>1, <1>r, Others
<1>6. \A d : Kept(d)' = Kept(d)
  <2>1. \A u \in Datasets : \A x : Keeps(u, x)' <=> Keeps(u, x)
    BY <1>4, <1>5 DEF Keeps
  <2> QED
    BY <2>1 DEF Kept
<1>7. /\ InList' = InList \ {<<t, old.mine>>} /\ <<t, old.mine>> \in InList
      /\ nCacheUsed' = nCacheUsed - 1 /\ keepAlive' = keepAlive
  BY RemoveShrinks
<1>8. \A d \in Datasets : keepAlive'[d] = Cardinality(Kept(d)')
  BY <1>6, <1>7, CountedIs DEF Count
<1> QED
  BY <1>1, <1>r, <1>3, <1>7, <1>8, CountShrink

-----------------------------------------------------------------------------
(***************************************************************************)
(* The counters count initially and after every step.                      *)
(***************************************************************************)
LEMMA CountInit ==
  ASSUME Init
  PROVE  Count
<1>1. \A t \in Datasets : thread[t] = Idle
  BY DEF Init
<1>2. \A t \in Datasets : HandsOf(t) = {} /\ ~thread[t].counted /\ thread[t].pc # "scanned"
  BY <1>1 DEF Idle, HandsOf
<1>3. InList = {} /\ Counting = {} /\ \A d : Kept(d) = {}
  <2>1. \A x \in AllBlocks : ~The(x).listed
    BY Pairs DEF Init, The, Deleted
  <2> QED
    BY <1>2, <2>1 DEF InList, Counting, Kept, Keeps
<1>4. Cardinality({}) = 0
  BY FS_EmptySet
<1>5. \A d \in Datasets : keepAlive[d] = 0
  BY DEF Init
<1>6. nCacheUsed = 0
  BY DEF Init
<1>7. Counted
  BY <1>3, <1>4, <1>5, <1>6, CountedIs
<1>8. Enough /\ CacheBounded
  BY <1>2, <1>3, <1>4, CacheAssumption DEF Enough, CacheBounded
<1> QED
  BY <1>7, <1>8 DEF Count

LEMMA CountRequest ==
  ASSUME Sound, Count, NEW t \in Datasets, Request(t)
  PROVE  Count'
<1>1. CASE \E kind \in {"read", "write", "update"}, i \in Positions : RasterIO(t, kind, i)
  <2>1. PICK kind \in Requests, i \in Positions : RasterIO(t, kind, i)
    BY <1>1 DEF Requests
  <2>2. CASE kind # "read" /\ flushErr[t]
    BY <2>1, <2>2, RefuseCount
  <2>3. CASE kind = "read" \/ ~flushErr[t]
    BY <2>1, <2>3, RequestCount
  <2> QED
    BY <2>2, <2>3
<1>2. CASE FlushCacheBlock(t)
  BY <1>2, EvictCount
<1>3. CASE FlushCache(t, "flush")
  BY <1>3, FlushCacheCount DEF Flushing
<1> QED
  BY <1>1, <1>2, <1>3 DEF Request

LEMMA CountQuiet ==
  ASSUME Count, Quiet
  PROVE  Count'
<1> USE DEF Quiet, band, history
<1>1. InList' = InList /\ Counting' = Counting
  BY DEF InList, The, Counting
<1>2. \A u, x : Keeps(u, x)' <=> Keeps(u, x)
  BY DEF Keeps, HandsOf
<1>3. \A d : Kept(d)' = Kept(d)
  BY <1>2 DEF Kept
<1>4. Counted'
  BY <1>1, <1>3, CountedIs DEF Count
<1> QED
  BY <1>1, <1>4 DEF Count, Enough, CacheBounded

LEMMA CountRun ==
  ASSUME Sound, Count, Seek, NEW t \in Datasets, Run(t)
  PROVE  Count'
<1>1. CASE WaitPending(t) \/ EnterReadWrite(t) \/ Lookup(t) \/ AddLock(t) \/ TakeLockFails(t)
           \/ LeaveReadWrite(t) \/ CreateBlock(t) \/ Internalize(t)
  BY <1>1, WaitPendingCount, EnterCount, LookupCount, AddLockCount, TakeLockFailsCount,
    LeaveCount, CreateCount, InternalizeCount
<1>2. CASE Use(t)
  BY <1>2, UseReadCount, UseCount
<1>3. CASE (\E full \in BOOLEAN : Unreference(t, full)) \/ CountDown(t) \/ Malloc(t) \/ Adopt(t)
           \/ FlushBlocks(t) \/ Delete(t) \/ IWriteBlock(t)
  BY <1>3, UnreferenceCount, CountDownCount, MallocCount, AdoptCount, FlushBlocksCount,
    DeleteCount, IWriteCount
<1>4. CASE (\E x \in AllBlocks : Pass(t, x) \/ Claim(t, x)) \/ Rescan(t)
  BY <1>4, ClaimCount, LooksOn, CountQuiet
<1>5. CASE Touch(t)
  BY <1>5, TouchKeepCount, TouchPutCount
<1>6. CASE Write(t) \/ AddBlockToFreeList(t)
  BY <1>6, WriteCount, AddBlockCount
<1>7. CASE WriteFailed(t)
  BY <1>7, WriteFailedFlushCount, WriteFailedCount
<1>9. CASE Freed(t)
  BY <1>9, FreedEvictCount, FreedCount
<1>10. CASE Fill(t)
  BY <1>10, FillStep, FillWholeCount, FillReadCount, FillFailsCount DEF Sound
<1>11. CASE FlushCache(t, "close") \/ FlushCache(t, "destroy")
  BY <1>11, FlushCacheCount DEF Flushing
<1>12. CASE Take(t)
  BY <1>12, TakeCount, TakeLeaveCount, TakeNextCount
<1>13. CASE DropLockForRemoval(t)
  BY <1>13, DropLockCount, DropLockEvictedCount
<1>14. CASE WaitEviction(t)
  BY <1>14, WaitEvictionLeaveCount, WaitEvictionCount
<1>15. CASE Remove(t)
  <2>1. CASE Mine(t).dirty /\ ~thread[t].err
    <3>1. thread[t].pc = "remove" /\ thread[t].kind \in Requests \cup Flushing
      BY <1>15, LocalNow DEF Sound, Remove, At, LocalOK, KindOf
    <3>2. thread[t].kind \in Flushing
      BY <2>1, <3>1 DEF Sound, Places, Mine1, Mine
    <3> QED
      BY <1>15, <2>1, <3>2, RemoveWriteCount
  <2>2. CASE ~(Mine(t).dirty /\ ~thread[t].err)
    BY <1>15, <2>2, RemoveLeaveCount, RemoveNextCount
  <2> QED
    BY <2>1, <2>2
<1>16. CASE Flushed(t)
  <2>1. thread[t].kind \in Flushing
    BY <1>16, LocalNow DEF Sound, Flushed, At, LocalOK, KindOf
  <2> QED
    BY <1>16, <2>1, FlushedCount, ClosedCount, DestroyedCount DEF Flushing
<1> QED
  BY <1>1, <1>2, <1>3, <1>4, <1>5, <1>6, <1>7, <1>9, <1>10, <1>11, <1>12, <1>13, <1>14,
    <1>15, <1>16 DEF Run

LEMMA AlwaysCount ==
  Spec => [](Sound /\ Count)
<1>1. Init => Sound /\ Count
  BY SoundInit, CountInit
<1>2. Sound /\ Seek /\ Count /\ [Next]_vars => (Sound /\ Count)'
  <2>1. ASSUME Sound, Seek, Count, Next
        PROVE  Sound' /\ Count'
    BY <2>1, SoundRequest, SoundRun, CountRequest, CountRun DEF Next
  <2> QED
    BY <2>1, LooksOn, SoundQuiet, CountQuiet
<1> QED
  BY <1>1, <1>2, AlwaysSeek, PTL DEF Spec

(* nKeepAliveCounter of a band counts its blocks in the hands of evicting  *)
(* threads, and nCacheUsed the blocks of the list and those to enter it.   *)
THEOREM CountedHolds ==
  Spec => []Counted
<1>1. Sound /\ Count => Counted
  BY DEF Count
<1> QED
  BY <1>1, AlwaysCount, PTL

(* The list holds fewer than nCacheMax blocks beyond one of each dataset    *)
(* that is in it, or just those: whatever is locked and unlocked while     *)
(* Internalize looks for room, it gives up only when no block of its own   *)
(* dataset is left in the list.                                            *)
THEOREM CacheBoundedHolds ==
  Spec => []CacheBounded
<1>1. Sound /\ Count => CacheBounded
  BY DEF Count
<1> QED
  BY <1>1, AlwaysCount, PTL

(* Whoever has a block, its lock count stays what TakeLock and             *)
(* DropLockForRemovalFromStorage take it for.                              *)
LEMMA LockBound ==
  ASSUME Sound, NEW d \in Datasets, NEW b \in Ids
  PROVE  block[d][b].lock \in -1 .. 1
<1>1. BlockOK(d, b) /\ Mine1(d) /\ LocalOK(d, thread[d])
  BY LocalNow DEF Sound, Places
<1>2. CASE ~block[d][b].live \/ b \in freeList[d] \/ Evicted(d, b)
  BY <1>1, <1>2 DEF BlockOK, Dead, GivenBack, OutOfList, LockOf
<1>3. CASE block[d][b].listed
  BY <1>1, <1>3 DEF BlockOK, Listed
<1>4. CASE InSlot(d, b) /\ ~Evicted(d, b)
  BY <1>1, <1>3, <1>4 DEF BlockOK, Slotted, InSlot
<1>5. CASE Own(d, b)
  <2>1. thread[d].mine = b
    BY <1>5 DEF Own, Owned
  <2>2. CASE Making(d) \/ Flusher(d)
    BY <1>1, <2>1, <2>2 DEF Mine1
  <2>3. CASE ~Making(d) /\ ~Flusher(d)
    <3>1. thread[d].kind # "evict"
      BY <1>1, <2>1 DEF LocalOK, MineOf, Ids, NoBlock
    <3>2. thread[d].pc = "remove"
      BY <1>1, <1>5, <2>3, <3>1 DEF Own, Owned, Making, Flusher, LocalOK, KindOf, Scanning, Freeing,
        Requests, Flushing
    <3> QED
      BY <1>1, <1>3, <2>1, <3>2 DEF Mine1
  <2> QED
    BY <2>2, <2>3
<1>6. CASE Works(d, b, {"droplock"})
  BY <1>1, <1>2, <1>3, <1>6 DEF Mine1, Works
<1> QED
  BY <1>1, <1>2, <1>4, <1>5, <1>6 DEF BlockOK, Placed

(* The declared types of the cache, and locks between -1 and 1: the counts *)
(* and the locks are natural because of what they count.                   *)
THEOREM TypeOKHolds ==
  Spec => []TypeOK
<1>1. ASSUME Sound, Seek, Count
      PROVE  TypeOK
  <2>1. nCacheUsed \in Nat /\ \A d \in Datasets : keepAlive[d] \in Nat
    BY <1>1, CountedIs, AllFinite, FS_CardinalityType DEF Count
  <2>2. ASSUME NEW d \in Datasets, NEW b \in Ids
        PROVE  block[d][b] \in Blocks
    <3>1. block[d][b] \in Entries /\ block[d][b].lock \in -1 .. 1
      BY <1>1, LockBound DEF Sound, Typed
    <3> QED
      BY <3>1 DEF Entries, Blocks
  <2>3. block \in [Datasets -> [Ids -> Blocks]] /\ keepAlive \in [Datasets -> Nat]
    BY <1>1, <2>1, <2>2 DEF Sound, Typed
  <2> QED
    BY <1>1, <2>1, <2>3 DEF Sound, Seek, Typed, TypeOK
<1> QED
  BY <1>1, AlwaysSeek, AlwaysCount, PTL

-----------------------------------------------------------------------------
(***************************************************************************)
(* A flush that ends has emptied its band, and who closes a dataset is     *)
(* told of every block that could not be written.                          *)
(***************************************************************************)
InFlush == {"take", "droplock", "evicted", "remove", "delete"} \cup Freeing
LoopOK(t) ==
  LET r == thread[t] IN
  /\ r.kind \in Flushing /\ r.pc \in InFlush =>
       \A j \in Positions : j < r.pos \/ (j = r.pos /\ r.pc # "take") => slot[t][j] = NoBlock
  /\ r.pc = "wait" => \A j \in Positions : slot[t][j] = NoBlock
  /\ r.kind = "destroy" => r.pc \in {"flushing", "wait", "closed"}

Emptied(t) == \A b \in Ids : ~Evicted(t, b) /\ ~InSlot(t, b)
Rested(t) ==
  \/ At(t, "destroy") \/ thread[t].kind = "destroy"
  \/ At(t, "idle") /\ thread[t].kind = "flush"
LeftOK(t) == Rested(t) => Emptied(t)

Failing(u, d) == At(u, "failed") /\ First(u)[1] = d
Telling(d) == thread[d].kind \in {"flush", "close"} /\ thread[d].err
ToldOK(d) ==
  /\ unreported[d] => flushErr[d] \/ Telling(d) \/ \E u \in Datasets : Failing(u, d)
  /\ thread[d].kind = "destroy" => ~unreported[d] /\ ~flushErr[d]
  /\ thread[d].pc \in {"destroy", "flushing"} => ~thread[d].err

Close == \A t \in Datasets : LoopOK(t) /\ LeftOK(t) /\ ToldOK(t)
-----------------------------------------------------------------------------
(* What the steps of the cache seldom do: to fill a slot, to evict one     *)
(* more block, to change what is known of the errors.                      *)
SlotsOut(d) == \A i \in Positions : slot'[d][i] = slot[d][i] \/ slot'[d][i] = NoBlock
NoneOut == \A d \in Datasets : Rested(d) => \A b \in Ids : Evicted(d, b)' => Evicted(d, b)

LEMMA EmptyStays ==
  ASSUME NEW d \in Datasets, Emptied(d), Rested(d), SlotsOut(d), NoneOut
  PROVE  Emptied(d)'
  BY DEF Emptied, SlotsOut, NoneOut, InSlot, Ids, NoBlock

LEMMA FailingStays ==
  ASSUME Sound, NEW t \in Datasets, NEW r, Becomes(t, r), thread[t].pc # "failed",
         NEW u \in Datasets, NEW d, Failing(u, d)
  PROVE  Failing(u, d)' /\ u # t
<1>1. u # t
  BY DEF Failing, At
<1>2. thread'[u] = thread[u]
  BY <1>1, Others DEF Sound
<1> QED
  BY <1>1, <1>2 DEF Failing, At, First

(* The other bands.                                                        *)
LEMMA OthersLeft ==
  ASSUME Sound, Close, NEW t \in Datasets, NEW r, Becomes(t, r), NoneOut,
         NEW d \in Datasets \ {t}, SlotsOut(d)
  PROVE  thread'[d] = thread[d] /\ LoopOK(d)' /\ LeftOK(d)'
<1>1. thread'[d] = thread[d] /\ LoopOK(d) /\ LeftOK(d)
  BY Others DEF Sound, Close
<1>2. LoopOK(d)'
  BY <1>1 DEF LoopOK, SlotsOut
<1>3. LeftOK(d)'
  BY <1>1, EmptyStays DEF LeftOK, Rested, At
<1> QED
  BY <1>1, <1>2, <1>3

LEMMA OthersClose ==
  ASSUME Sound, Close, NEW t \in Datasets, NEW r, Becomes(t, r), NoneOut,
         thread[t].pc # "failed",
         \A d \in Datasets \ {t} :
           SlotsOut(d) /\ flushErr'[d] = flushErr[d] /\ unreported'[d] = unreported[d]
  PROVE  \A d \in Datasets \ {t} : LoopOK(d)' /\ LeftOK(d)' /\ ToldOK(d)'
<1>1. ASSUME NEW d \in Datasets \ {t}
      PROVE  LoopOK(d)' /\ LeftOK(d)' /\ ToldOK(d)'
  <2>1. thread'[d] = thread[d] /\ LoopOK(d)' /\ LeftOK(d)' /\ ToldOK(d)
    BY OthersLeft DEF Close
  <2>2. flushErr'[d] = flushErr[d] /\ unreported'[d] = unreported[d]
    OBVIOUS
  <2>3. \A u \in Datasets : Failing(u, d) => Failing(u, d)'
    BY FailingStays
  <2> QED
    BY <2>1, <2>2, <2>3 DEF ToldOK, Telling, At
<1> QED
  BY <1>1

(* A request, or an eviction.                                              *)
LEMMA CloseAway ==
  ASSUME Sound, Close, NEW t \in Datasets, NEW r, Becomes(t, r), NoneOut,
         thread[t].pc # "failed", ~thread[t].err,
         r.kind \notin Flushing, r.pc \notin {"wait", "destroy", "flushing"},
         \A d \in Datasets \ {t} :
           SlotsOut(d) /\ flushErr'[d] = flushErr[d] /\ unreported'[d] = unreported[d],
         unreported'[t] => unreported[t] /\ (flushErr[t] => flushErr'[t])
  PROVE  Close'
<1>1. thread'[t] = r
  BY Others DEF Sound
<1>2. LoopOK(t)' /\ LeftOK(t)'
  BY <1>1 DEF LoopOK, LeftOK, Rested, At, Flushing
<1>3. ToldOK(t)'
  <2>1. ToldOK(t) /\ ~Telling(t)
    BY DEF Close, Telling
  <2>2. \A u \in Datasets : Failing(u, t) => Failing(u, t)'
    BY FailingStays
  <2> QED
    BY <1>1, <2>1, <2>2 DEF ToldOK, Flushing
<1> QED
  BY <1>2, <1>3, OthersClose DEF Close

(* A step of FlushCache among the blocks of the band.                      *)
LEMMA CloseLoop ==
  ASSUME Sound, Close, NEW t \in Datasets, NEW r, Becomes(t, r), NoneOut,
         thread[t].pc \in InFlush \ {"failed"}, thread[t].kind \in Flushing,
         r.kind = thread[t].kind, r.err = thread[t].err,
         r.pc \in InFlush \cup {"wait"}, LoopOK(t)', \A d \in Datasets : SlotsOut(d),
         flushErr' = flushErr, \A d \in Datasets \ {t} : unreported'[d] = unreported[d],
         unreported'[t] => unreported[t] \/ r.err
  PROVE  Close'
<1>1. thread'[t] = r
  BY Others DEF Sound
<1>2. LoopOK(t) /\ ToldOK(t)
  BY DEF Close
<1>3. thread[t].kind \in {"flush", "close"}
  BY <1>2 DEF LoopOK, InFlush, Freeing, Flushing
<1>4. LeftOK(t)'
  BY <1>1, <1>3 DEF LeftOK, Rested, At, InFlush, Freeing
<1>5. ToldOK(t)'
  <2>1. \A u \in Datasets : Failing(u, t) => Failing(u, t)'
    BY FailingStays
  <2>2. Telling(t)' <=> r.err
    BY <1>1, <1>3 DEF Telling
  <2>3. Telling(t) <=> r.err
    BY <1>3 DEF Telling
  <2>4. unreported'[t] => flushErr'[t] \/ Telling(t)' \/ \E u \in Datasets : Failing(u, t)'
    BY <1>2, <2>1, <2>2, <2>3 DEF ToldOK
  <2> QED
    BY <1>1, <1>3, <2>4 DEF ToldOK, InFlush, Freeing
<1> QED
  BY <1>4, <1>5, OthersClose DEF Close

(* The slots before the one FlushCache is at stay empty ...                *)
LEMMA LoopStay ==
  ASSUME Sound, Close, NEW t \in Datasets, NEW r, Becomes(t, r), SlotsOut(t),
         thread[t].pc \in InFlush, r.pc \in InFlush \ {"take"},
         r.kind = thread[t].kind, r.pos = thread[t].pos,
         thread[t].pc = "take" => slot'[t][thread[t].pos] = NoBlock
  PROVE  LoopOK(t)'
<1>1. thread'[t] = r
  BY Others DEF Sound
<1>2. LoopOK(t)
  BY DEF Close
<1>3. r.pc # "wait" /\ r.kind # "destroy"
  BY <1>2 DEF LoopOK, InFlush, Freeing
<1>4. r.kind \in Flushing => \A j \in Positions : j < r.pos \/ j = r.pos => slot'[t][j] = NoBlock
  BY <1>2 DEF LoopOK, SlotsOut
<1> QED
  BY <1>1, <1>3, <1>4 DEF LoopOK

(* ... and it goes on to the next one that is not.                         *)
LEMMA LoopNext ==
  ASSUME Sound, Close, NEW t \in Datasets, NEW r, Becomes(t, r), SlotsOut(t),
         thread[t].pc \in InFlush, thread[t].kind \in Flushing,
         thread[t].pc = "take" => slot[t][thread[t].pos] = NoBlock,
         r.kind = thread[t].kind, NextSlot(t, thread[t].pos + 1, r.pos),
         r.pc = IF r.pos \in Positions THEN "take" ELSE "wait"
  PROVE  LoopOK(t)'
<1>1. thread'[t] = r
  BY Others DEF Sound
<1>2. LoopOK(t) /\ r.kind # "destroy"
  BY DEF Close, LoopOK, InFlush, Freeing
<1>3. thread[t].pos \in Positions /\ Positions \subseteq Nat
  BY LocalNow, CacheAssumption, FS_CardinalityType DEF Sound, LocalOK, MineOf, InFlush, Freeing
<1>4. \A j \in Positions : j < thread[t].pos + 1 => slot[t][j] = NoBlock
  <2>1. ASSUME NEW j \in Nat, NEW p \in Nat, j < p + 1
        PROVE  j < p \/ j = p
    BY <2>1
  <2>2. \A j \in Positions : j < thread[t].pos + 1 => j < thread[t].pos \/ j = thread[t].pos
    BY <1>3, <2>1
  <2> QED
    BY <1>2, <2>2 DEF LoopOK
<1>5. \A j \in Positions : j < r.pos \/ r.pos \notin Positions => slot[t][j] = NoBlock
  <2>1. ASSUME NEW j \in Positions, j < r.pos \/ r.pos \notin Positions
        PROVE  slot[t][j] = NoBlock
    <3>1. j < thread[t].pos + 1 \/ j >= thread[t].pos + 1
      BY <1>3
    <3> QED
      BY <1>4, <2>1, <3>1 DEF NextSlot
  <2> QED
    BY <2>1
<1>6. \A j \in Positions : j < r.pos \/ r.pos \notin Positions => slot'[t][j] = NoBlock
  BY <1>5 DEF SlotsOut
<1> QED
  BY <1>1, <1>2, <1>6 DEF LoopOK, InFlush, Freeing
-----------------------------------------------------------------------------
(***************************************************************************)
(* Requests and evictions do not disturb a flush.                          *)
(***************************************************************************)
LEMMA RefuseClose ==
  ASSUME Sound, Close, NEW t \in Datasets, NEW kind \in Requests, NEW i \in Positions,
    RasterIO(t, kind, i), kind # "read", flushErr[t]
  PROVE  Close'
<1> DEFINE old == thread[t]
<1> DEFINE r == Locals(old.pc, kind, old.pos, old.mine, old.victim, old.togo, old.counted, old.again,
       old.err, old.ops + 1)
<1>1. LocalOK(t, old) /\ Typed /\ Control /\ Places
  BY LocalNow DEF Sound
<1>2. old.pc = "idle" /\ Becomes(t, r)
  BY <1>1, RefuseStep
<1>r. Becomes(t, r)
  BY <1>2
<1>3. r.kind = kind /\ r.pc = old.pc
  BY DEF Locals
<1> HIDE DEF r
<1>4. /\ old.pc # "failed" /\ ~old.err
      /\ r.kind \notin Flushing /\ r.pc \notin {"wait", "destroy", "flushing"}
  BY <1>1, <1>2, <1>3 DEF LocalOK, KindOf, MineOf, HandOf, CountOf, Requests, Flushing,
    Scanning, Freeing, Stuck
<1>5. NoneOut
  BY <1>1, RefusePlaces DEF NoneOut, SameHands
<1>6. \A d \in Datasets \ {t} : SlotsOut(d)
  BY <1>1 DEF RasterIO, SlotsOut, Typed, cache
<1>7. /\ \A d \in Datasets \ {t} : flushErr'[d] = flushErr[d] /\ unreported'[d] = unreported[d]
      /\ unreported'[t] => unreported[t] /\ (flushErr[t] => flushErr'[t])
  BY <1>1 DEF RasterIO, Report, Typed
<1> QED
  BY <1>r, <1>4, <1>5, <1>6, <1>7, CloseAway

LEMMA RequestClose ==
  ASSUME Sound, Close, NEW t \in Datasets, NEW kind \in Requests, NEW i \in Positions,
    RasterIO(t, kind, i), kind = "read" \/ ~flushErr[t]
  PROVE  Close'
<1> DEFINE old == thread[t]
<1> DEFINE r == Locals(IF kind = "read" THEN "pending" ELSE "enter", kind, i, old.mine, old.victim,
       old.togo, old.counted, old.again, old.err, old.ops + 1)
<1>1. LocalOK(t, old) /\ Typed /\ Control /\ Places
  BY LocalNow DEF Sound
<1>2. old.pc = "idle" /\ Becomes(t, r)
  BY <1>1, RequestStep
<1>r. Becomes(t, r)
  BY <1>2
<1>3. r.kind = kind /\ r.pc = (IF kind = "read" THEN "pending" ELSE "enter")
  BY DEF Locals
<1> HIDE DEF r
<1>4. /\ old.pc # "failed" /\ ~old.err
      /\ r.kind \notin Flushing /\ r.pc \notin {"wait", "destroy", "flushing"}
  BY <1>1, <1>2, <1>3 DEF LocalOK, KindOf, MineOf, HandOf, CountOf, Requests, Flushing,
    Scanning, Freeing, Stuck
<1>5. NoneOut
  BY <1>1, RequestPlaces DEF NoneOut, SameHands
<1>6. \A d \in Datasets \ {t} : SlotsOut(d)
  BY <1>1 DEF RasterIO, SlotsOut, Typed, cache
<1>7. UNCHANGED <<flushErr, unreported>>
  BY DEF RasterIO, band, history
<1> QED
  BY <1>r, <1>4, <1>5, <1>6, <1>7, CloseAway

LEMMA WaitPendingClose ==
  ASSUME Sound, Close, NEW t \in Datasets, WaitPending(t)
  PROVE  Close'
<1> DEFINE old == thread[t]
<1> DEFINE r == Locals("enter", old.kind, old.pos, old.mine, old.victim, old.togo, old.counted, old.again,
       old.err, old.ops)
<1>1. LocalOK(t, old) /\ Typed /\ Control /\ Places
  BY LocalNow DEF Sound
<1>2. old.pc = "pending" /\ Becomes(t, r)
  BY <1>1, WaitPendingStep
<1>r. Becomes(t, r)
  BY <1>2
<1>3. r.kind = old.kind /\ r.pc = "enter"
  BY DEF Locals
<1> HIDE DEF r
<1>4. /\ old.pc # "failed" /\ ~old.err
      /\ r.kind \notin Flushing /\ r.pc \notin {"wait", "destroy", "flushing"}
  BY <1>1, <1>2, <1>3 DEF LocalOK, KindOf, MineOf, HandOf, CountOf, Requests, Flushing,
    Scanning, Freeing, Stuck
<1>5. NoneOut
  BY <1>1, WaitPendingPlaces DEF NoneOut, SameHands
<1>6. \A d \in Datasets \ {t} : SlotsOut(d)
  BY <1>1 DEF WaitPending, SlotsOut, Typed, cache
<1>7. UNCHANGED <<flushErr, unreported>>
  BY DEF WaitPending, band, history
<1> QED
  BY <1>r, <1>4, <1>5, <1>6, <1>7, CloseAway

LEMMA EnterClose ==
  ASSUME Sound, Close, NEW t \in Datasets, EnterReadWrite(t)
  PROVE  Close'
<1> DEFINE old == thread[t]
<1> DEFINE r == Locals(IF old.kind # "read" /\ flushErr[t] THEN "leave" ELSE "lookup", old.kind, old.pos,
       old.mine, old.victim, old.togo, old.counted, old.again, old.err, old.ops)
<1>1. LocalOK(t, old) /\ Typed /\ Control /\ Places
  BY LocalNow DEF Sound
<1>2. old.pc = "enter" /\ Becomes(t, r)
  BY <1>1, EnterStep
<1>r. Becomes(t, r)
  BY <1>2
<1>3. r.kind = old.kind /\ r.pc = (IF old.kind # "read" /\ flushErr[t] THEN "leave" ELSE "lookup")
  BY DEF Locals
<1> HIDE DEF r
<1>4. /\ old.pc # "failed" /\ ~old.err
      /\ r.kind \notin Flushing /\ r.pc \notin {"wait", "destroy", "flushing"}
  BY <1>1, <1>2, <1>3 DEF LocalOK, KindOf, MineOf, HandOf, CountOf, Requests, Flushing,
    Scanning, Freeing, Stuck
<1>5. NoneOut
  BY <1>1, EnterPlaces DEF NoneOut, SameHands
<1>6. \A d \in Datasets \ {t} : SlotsOut(d)
  BY <1>1 DEF EnterReadWrite, SlotsOut, Typed, cache
<1>7. /\ \A d \in Datasets \ {t} : flushErr'[d] = flushErr[d] /\ unreported'[d] = unreported[d]
      /\ unreported'[t] => unreported[t] /\ (flushErr[t] => flushErr'[t])
  BY <1>1 DEF EnterReadWrite, Report, Typed
<1> QED
  BY <1>r, <1>4, <1>5, <1>6, <1>7, CloseAway

LEMMA LeaveClose ==
  ASSUME Sound, Close, NEW t \in Datasets, LeaveReadWrite(t)
  PROVE  Close'
<1> DEFINE old == thread[t]
<1> DEFINE r == Locals("idle", IF old.kind = "flush" THEN "flush" ELSE "none", 0, NoBlock, NoVictim, <<>>,
       FALSE, FALSE, FALSE, old.ops)
<1>1. LocalOK(t, old) /\ Typed /\ Control /\ Places
  BY LocalNow DEF Sound
<1>2. old.pc = "leave" /\ Becomes(t, r)
  BY <1>1, LeaveStep
<1>r. Becomes(t, r)
  BY <1>2
<1>3. r.kind = (IF old.kind = "flush" THEN "flush" ELSE "none") /\ r.pc = "idle"
  BY DEF Locals
<1> HIDE DEF r
<1>4. /\ old.pc # "failed" /\ ~old.err
      /\ r.kind \notin Flushing /\ r.pc \notin {"wait", "destroy", "flushing"}
  BY <1>1, <1>2, <1>3 DEF LocalOK, KindOf, MineOf, HandOf, CountOf, Requests, Flushing,
    Scanning, Freeing, Stuck
<1>5. NoneOut
  BY <1>1, LeavePlaces DEF NoneOut, SameHands
<1>6. \A d \in Datasets \ {t} : SlotsOut(d)
  BY <1>1 DEF LeaveReadWrite, SlotsOut, Typed, cache
<1>7. UNCHANGED <<flushErr, unreported>>
  BY DEF LeaveReadWrite, band, history
<1> QED
  BY <1>r, <1>4, <1>5, <1>6, <1>7, CloseAway

LEMMA LookupClose ==
  ASSUME Sound, Close, NEW t \in Datasets, Lookup(t)
  PROVE  Close'
<1> DEFINE old == thread[t]
<1> DEFINE r == Locals("addlock", old.kind, old.pos, slot[t][old.pos], old.victim, old.togo, old.counted,
       old.again, old.err, old.ops)
<1>1. LocalOK(t, old) /\ Typed /\ Control /\ Places
  BY LocalNow DEF Sound
<1>2. old.pc = "lookup" /\ slot[t][old.pos] # NoBlock /\ Becomes(t, r)
  BY <1>1, LookupStep
<1>r. Becomes(t, r)
  BY <1>2
<1>3. r.kind = old.kind /\ r.pc = "addlock"
  BY DEF Locals
<1> HIDE DEF r
<1>4. /\ old.pc # "failed" /\ ~old.err
      /\ r.kind \notin Flushing /\ r.pc \notin {"wait", "destroy", "flushing"}
  BY <1>1, <1>2, <1>3 DEF LocalOK, KindOf, MineOf, HandOf, CountOf, Requests, Flushing,
    Scanning, Freeing, Stuck
<1>5. NoneOut
  BY <1>1, LookupPlaces DEF NoneOut, SameHands
<1>6. \A d \in Datasets \ {t} : SlotsOut(d)
  BY <1>1 DEF Lookup, SlotsOut, Typed, cache
<1>7. UNCHANGED <<flushErr, unreported>>
  BY DEF Lookup, band, history
<1> QED
  BY <1>r, <1>4, <1>5, <1>6, <1>7, CloseAway

LEMMA EvictClose ==
  ASSUME Sound, Close, NEW t \in Datasets, FlushCacheBlock(t)
  PROVE  Close'
<1> DEFINE old == thread[t]
<1> DEFINE r == Locals("scan", "evict", old.pos, old.mine, old.victim, old.togo, old.counted, old.again,
       old.err, old.ops + 1)
<1>1. LocalOK(t, old) /\ Typed /\ Control /\ Places
  BY LocalNow DEF Sound
<1>2. old.pc = "idle" /\ Becomes(t, r)
  BY <1>1, EvictStep
<1>r. Becomes(t, r)
  BY <1>2
<1>3. r.kind = "evict" /\ r.pc = "scan"
  BY DEF Locals
<1> HIDE DEF r
<1>4. /\ old.pc # "failed" /\ ~old.err
      /\ r.kind \notin Flushing /\ r.pc \notin {"wait", "destroy", "flushing"}
  BY <1>1, <1>2, <1>3 DEF LocalOK, KindOf, MineOf, HandOf, CountOf, Requests, Flushing,
    Scanning, Freeing, Stuck
<1>5. NoneOut
  BY <1>1, EvictPlaces DEF NoneOut, SameHands
<1>6. \A d \in Datasets \ {t} : SlotsOut(d)
  BY <1>1 DEF FlushCacheBlock, SlotsOut, Typed, cache
<1>7. UNCHANGED <<flushErr, unreported>>
  BY DEF FlushCacheBlock, band, history
<1> QED
  BY <1>r, <1>4, <1>5, <1>6, <1>7, CloseAway

LEMMA InternalizeClose ==
  ASSUME Sound, Close, NEW t \in Datasets, Internalize(t)
  PROVE  Close'
<1> DEFINE old == thread[t]
<1> DEFINE r == Locals("scan", old.kind, old.pos, old.mine, old.victim, old.togo, TRUE, FALSE, old.err,
       old.ops)
<1>1. LocalOK(t, old) /\ Typed /\ Control /\ Places
  BY LocalNow DEF Sound
<1>2. old.pc = "internalize" /\ Becomes(t, r)
  BY <1>1, InternalizeStep
<1>r. Becomes(t, r)
  BY <1>2
<1>3. r.kind = old.kind /\ r.pc = "scan"
  BY DEF Locals
<1> HIDE DEF r
<1>4. /\ old.pc # "failed" /\ ~old.err
      /\ r.kind \notin Flushing /\ r.pc \notin {"wait", "destroy", "flushing"}
  BY <1>1, <1>2, <1>3 DEF LocalOK, KindOf, MineOf, HandOf, CountOf, Requests, Flushing,
    Scanning, Freeing, Stuck
<1>5. NoneOut
  BY <1>1, InternalizePlaces DEF NoneOut, SameHands
<1>6. \A d \in Datasets \ {t} : SlotsOut(d)
  BY <1>1 DEF Internalize, SlotsOut, Typed, cache
<1>7. UNCHANGED <<flushErr, unreported>>
  BY DEF Internalize, band, history
<1> QED
  BY <1>r, <1>4, <1>5, <1>6, <1>7, CloseAway

LEMMA TouchKeepClose ==
  ASSUME Sound, Close, NEW t \in Datasets, Touch(t), thread[t].kind = "evict" \/
    thread[t].again
  PROVE  Close'
<1> DEFINE old == thread[t]
<1> DEFINE r == Locals("free", old.kind, old.pos, old.mine, old.victim, old.togo, old.counted, old.again,
       old.err, old.ops)
<1>1. LocalOK(t, old) /\ Typed /\ Control /\ Places
  BY LocalNow DEF Sound
<1>2. old.pc \in {"scan", "scanned"} /\ (old.kind = "evict" \/ old.again) /\ Becomes(t, r)
  BY <1>1, TouchKeepStep
<1>r. Becomes(t, r)
  BY <1>2
<1>3. r.kind = old.kind /\ r.pc = "free"
  BY DEF Locals
<1> HIDE DEF r
<1>4. /\ old.pc # "failed" /\ ~old.err
      /\ r.kind \notin Flushing /\ r.pc \notin {"wait", "destroy", "flushing"}
  BY <1>1, <1>2, <1>3 DEF LocalOK, KindOf, MineOf, HandOf, CountOf, Requests, Flushing,
    Scanning, Freeing, Stuck
<1>5. NoneOut
  BY <1>1, TouchKeepPlaces DEF NoneOut, SameHands
<1>6. \A d \in Datasets \ {t} : SlotsOut(d)
  BY <1>1 DEF Touch, SlotsOut, Typed, cache
<1>7. UNCHANGED <<flushErr, unreported>>
  BY DEF Touch, band, history
<1> QED
  BY <1>r, <1>4, <1>5, <1>6, <1>7, CloseAway

LEMMA FreedEvictClose ==
  ASSUME Sound, Close, NEW t \in Datasets, Freed(t), thread[t].kind = "evict"
  PROVE  Close'
<1> DEFINE old == thread[t]
<1> DEFINE r == Locals("idle", IF old.kind = "flush" THEN "flush" ELSE "none", 0, NoBlock, NoVictim, <<>>,
       FALSE, FALSE, FALSE, old.ops)
<1>1. LocalOK(t, old) /\ Typed /\ Control /\ Places
  BY LocalNow DEF Sound
<1>2. old.pc = "free" /\ old.togo = <<>> /\ (old.kind = "evict") /\ Becomes(t, r)
  BY <1>1, FreedEvictStep
<1>r. Becomes(t, r)
  BY <1>2
<1>3. r.kind = (IF old.kind = "flush" THEN "flush" ELSE "none") /\ r.pc = "idle"
  BY DEF Locals
<1> HIDE DEF r
<1>4. /\ old.pc # "failed" /\ ~old.err
      /\ r.kind \notin Flushing /\ r.pc \notin {"wait", "destroy", "flushing"}
  BY <1>1, <1>2, <1>3 DEF LocalOK, KindOf, MineOf, HandOf, CountOf, Requests, Flushing,
    Scanning, Freeing, Stuck
<1>5. NoneOut
  BY <1>1, FreedEvictPlaces DEF NoneOut, SameHands
<1>6. \A d \in Datasets \ {t} : SlotsOut(d)
  BY <1>1 DEF Freed, SlotsOut, Typed, cache
<1>7. UNCHANGED <<flushErr, unreported>>
  BY DEF Freed, band, history
<1> QED
  BY <1>r, <1>4, <1>5, <1>6, <1>7, CloseAway

LEMMA FreedClose ==
  ASSUME Sound, Close, NEW t \in Datasets, Freed(t), thread[t].kind # "evict"
  PROVE  Close'
<1> DEFINE old == thread[t]
<1> DEFINE r == Locals("internalize", old.kind, old.pos, old.mine, old.victim, old.togo, old.counted,
       old.again, old.err, old.ops)
<1>1. LocalOK(t, old) /\ Typed /\ Control /\ Places
  BY LocalNow DEF Sound
<1>2. old.pc = "free" /\ old.togo = <<>> /\ old.again /\ (old.kind # "evict") /\ Becomes(t, r)
  BY <1>1, FreedStep
<1>r. Becomes(t, r)
  BY <1>2
<1>3. r.kind = old.kind /\ r.pc = "internalize"
  BY DEF Locals
<1> HIDE DEF r
<1>4. /\ old.pc # "failed" /\ ~old.err
      /\ r.kind \notin Flushing /\ r.pc \notin {"wait", "destroy", "flushing"}
  BY <1>1, <1>2, <1>3 DEF LocalOK, KindOf, MineOf, HandOf, CountOf, Requests, Flushing,
    Scanning, Freeing, Stuck
<1>5. NoneOut
  BY <1>1, FreedPlaces DEF NoneOut, SameHands
<1>6. \A d \in Datasets \ {t} : SlotsOut(d)
  BY <1>1 DEF Freed, SlotsOut, Typed, cache
<1>7. UNCHANGED <<flushErr, unreported>>
  BY DEF Freed, band, history
<1> QED
  BY <1>r, <1>4, <1>5, <1>6, <1>7, CloseAway

LEMMA WaitEvictionLeaveClose ==
  ASSUME Sound, Close, NEW t \in Datasets, WaitEviction(t), thread[t].kind \notin Flushing
  PROVE  Close'
<1> DEFINE old == thread[t]
<1> DEFINE r == Locals("leave", old.kind, old.pos, old.mine, old.victim, old.togo, old.counted, old.again,
       old.err, old.ops)
<1>1. LocalOK(t, old) /\ Typed /\ Control /\ Places
  BY LocalNow DEF Sound
<1>2. old.pc = "evicted" /\ (old.kind \notin Flushing) /\ Becomes(t, r)
  BY <1>1, WaitEvictionLeaveStep
<1>r. Becomes(t, r)
  BY <1>2
<1>3. r.kind = old.kind /\ r.pc = "leave"
  BY DEF Locals
<1> HIDE DEF r
<1>4. /\ old.pc # "failed" /\ ~old.err
      /\ r.kind \notin Flushing /\ r.pc \notin {"wait", "destroy", "flushing"}
  BY <1>1, <1>2, <1>3 DEF LocalOK, KindOf, MineOf, HandOf, CountOf, Requests, Flushing,
    Scanning, Freeing, Stuck
<1>5. NoneOut
  BY <1>1, WaitEvictionLeavePlaces DEF NoneOut, SameHands
<1>6. \A d \in Datasets \ {t} : SlotsOut(d)
  BY <1>1 DEF WaitEviction, SlotsOut, Typed, cache
<1>7. UNCHANGED <<flushErr, unreported>>
  BY DEF WaitEviction, band, history
<1> QED
  BY <1>r, <1>4, <1>5, <1>6, <1>7, CloseAway

LEMMA TakeLeaveClose ==
  ASSUME Sound, Close, NEW t \in Datasets, Take(t), thread[t].kind \notin Flushing,
    slot[t][thread[t].pos] = NoBlock
  PROVE  Close'
<1> DEFINE old == thread[t]
<1> DEFINE r == Locals("leave", old.kind, old.pos, old.mine, old.victim, old.togo, old.counted, old.again,
       old.err, old.ops)
<1>1. LocalOK(t, old) /\ Typed /\ Control /\ Places
  BY LocalNow DEF Sound
<1>2. old.pc = "take" /\ (old.kind \notin Flushing) /\ (slot[t][old.pos] = NoBlock) /\ Becomes(t, r)
  BY <1>1, TakeLeaveStep
<1>r. Becomes(t, r)
  BY <1>2
<1>3. r.kind = old.kind /\ r.pc = "leave"
  BY DEF Locals
<1> HIDE DEF r
<1>4. /\ old.pc # "failed" /\ ~old.err
      /\ r.kind \notin Flushing /\ r.pc \notin {"wait", "destroy", "flushing"}
  BY <1>1, <1>2, <1>3 DEF LocalOK, KindOf, MineOf, HandOf, CountOf, Requests, Flushing,
    Scanning, Freeing, Stuck
<1>5. NoneOut
  BY <1>1, TakeLeavePlaces DEF NoneOut, SameHands
<1>6. \A d \in Datasets \ {t} : SlotsOut(d)
  BY <1>1 DEF Take, SlotsOut, Typed, cache
<1>7. UNCHANGED <<flushErr, unreported>>
  BY DEF Take, band, history
<1> QED
  BY <1>r, <1>4, <1>5, <1>6, <1>7, CloseAway

LEMMA FillWholeClose ==
  ASSUME Sound, Close, NEW t \in Datasets, Fill(t), thread[t].pc = "fill", UNCHANGED block,
    Becomes(t, Locals("use", thread[t].kind, thread[t].pos, thread[t].mine, thread[t].victim,
    thread[t].togo, thread[t].counted, thread[t].again, thread[t].err, thread[t].ops))
  PROVE  Close'
<1> DEFINE old == thread[t]
<1> DEFINE r == Locals("use", old.kind, old.pos, old.mine, old.victim, old.togo, old.counted, old.again,
       old.err, old.ops)
<1>1. LocalOK(t, old) /\ Typed /\ Control /\ Places
  BY LocalNow DEF Sound
<1>2. old.pc = "fill" /\ Becomes(t, r)
  BY <1>1, LocalNow
<1>r. Becomes(t, r)
  BY <1>2
<1>3. r.kind = old.kind /\ r.pc = "use"
  BY DEF Locals
<1> HIDE DEF r
<1>4. /\ old.pc # "failed" /\ ~old.err
      /\ r.kind \notin Flushing /\ r.pc \notin {"wait", "destroy", "flushing"}
  BY <1>1, <1>2, <1>3 DEF LocalOK, KindOf, MineOf, HandOf, CountOf, Requests, Flushing,
    Scanning, Freeing, Stuck
<1>5. NoneOut
  BY <1>1, FillWholePlaces DEF NoneOut, SameHands
<1>6. \A d \in Datasets \ {t} : SlotsOut(d)
  BY <1>1 DEF Fill, SlotsOut, Typed, cache
<1>7. UNCHANGED <<flushErr, unreported>>
  BY DEF Fill, band, history
<1> QED
  BY <1>r, <1>4, <1>5, <1>6, <1>7, CloseAway

LEMMA AddLockClose ==
  ASSUME Sound, Close, NEW t \in Datasets, AddLock(t)
  PROVE  Close'
<1> DEFINE old == thread[t]
<1> DEFINE r == Locals(IF block[t][old.mine].lock = -1 THEN "unlock" ELSE "use", old.kind, old.pos,
       old.mine, old.victim, old.togo, old.counted, old.again, old.err, old.ops)
<1>1. LocalOK(t, old) /\ Typed /\ Control /\ Places
  BY LocalNow DEF Sound
<1>2. old.pc = "addlock" /\ Becomes(t, r)
  BY <1>1, AddLockStep
<1>r. Becomes(t, r)
  BY <1>2
<1>3. r.kind = old.kind /\ r.pc = (IF block[t][old.mine].lock = -1 THEN "unlock" ELSE "use")
  BY DEF Locals
<1> HIDE DEF r
<1>4. /\ old.pc # "failed" /\ ~old.err
      /\ r.kind \notin Flushing /\ r.pc \notin {"wait", "destroy", "flushing"}
  BY <1>1, <1>2, <1>3 DEF LocalOK, KindOf, MineOf, HandOf, CountOf, Requests, Flushing,
    Scanning, Freeing, Stuck
<1>5. NoneOut
  BY <1>1, AddLockPlaces DEF NoneOut, SameHands
<1>6. \A d \in Datasets \ {t} : SlotsOut(d)
  BY <1>1 DEF AddLock, SetMine, SlotsOut, Typed, cache
<1>7. UNCHANGED <<flushErr, unreported>>
  BY DEF AddLock, SetMine, band, history
<1> QED
  BY <1>r, <1>4, <1>5, <1>6, <1>7, CloseAway

LEMMA TakeLockFailsClose ==
  ASSUME Sound, Close, NEW t \in Datasets, TakeLockFails(t)
  PROVE  Close'
<1> DEFINE old == thread[t]
<1> DEFINE r == Locals("create", old.kind, old.pos, NoBlock, old.victim, old.togo, old.counted, old.again,
       old.err, old.ops)
<1>1. LocalOK(t, old) /\ Typed /\ Control /\ Places
  BY LocalNow DEF Sound
<1>2. old.pc = "unlock" /\ Becomes(t, r)
  BY <1>1, TakeLockFailsStep
<1>r. Becomes(t, r)
  BY <1>2
<1>3. r.kind = old.kind /\ r.pc = "create"
  BY DEF Locals
<1> HIDE DEF r
<1>4. /\ old.pc # "failed" /\ ~old.err
      /\ r.kind \notin Flushing /\ r.pc \notin {"wait", "destroy", "flushing"}
  BY <1>1, <1>2, <1>3 DEF LocalOK, KindOf, MineOf, HandOf, CountOf, Requests, Flushing,
    Scanning, Freeing, Stuck
<1>5. NoneOut
  BY <1>1, TakeLockFailsPlaces DEF NoneOut, SameHands
<1>6. \A d \in Datasets \ {t} : SlotsOut(d)
  BY <1>1 DEF TakeLockFails, SetMine, SlotsOut, Typed, cache
<1>7. UNCHANGED <<flushErr, unreported>>
  BY DEF TakeLockFails, SetMine, band, history
<1> QED
  BY <1>r, <1>4, <1>5, <1>6, <1>7, CloseAway

LEMMA UseReadClose ==
  ASSUME Sound, Close, NEW t \in Datasets, Use(t), thread[t].kind = "read"
  PROVE  Close'
<1> DEFINE old == thread[t]
<1> DEFINE r == Locals("leave", old.kind, old.pos, old.mine, old.victim, old.togo, old.counted, old.again,
       old.err, old.ops)
<1>1. LocalOK(t, old) /\ Typed /\ Control /\ Places
  BY LocalNow DEF Sound
<1>2. old.pc = "use" /\ (old.kind = "read") /\ Becomes(t, r)
  BY <1>1, UseReadStep
<1>r. Becomes(t, r)
  BY <1>2
<1>3. r.kind = old.kind /\ r.pc = "leave"
  BY DEF Locals
<1> HIDE DEF r
<1>4. /\ old.pc # "failed" /\ ~old.err
      /\ r.kind \notin Flushing /\ r.pc \notin {"wait", "destroy", "flushing"}
  BY <1>1, <1>2, <1>3 DEF LocalOK, KindOf, MineOf, HandOf, CountOf, Requests, Flushing,
    Scanning, Freeing, Stuck
<1>5. NoneOut
  BY <1>1, UseReadPlaces DEF NoneOut, SameHands
<1>6. \A d \in Datasets \ {t} : SlotsOut(d)
  BY <1>1 DEF Use, SetMine, SlotsOut, Typed, cache
<1>7. UNCHANGED <<flushErr, unreported>>
  BY DEF Use, SetMine, band, history
<1> QED
  BY <1>r, <1>4, <1>5, <1>6, <1>7, CloseAway

LEMMA UseClose ==
  ASSUME Sound, Close, NEW t \in Datasets, Use(t), thread[t].kind # "read"
  PROVE  Close'
<1> DEFINE old == thread[t]
<1> DEFINE r == Locals("leave", old.kind, old.pos, old.mine, old.victim, old.togo, old.counted, old.again,
       old.err, old.ops)
<1>1. LocalOK(t, old) /\ Typed /\ Control /\ Places
  BY LocalNow DEF Sound
<1>2. old.pc = "use" /\ (old.kind # "read") /\ Becomes(t, r)
  BY <1>1, UseStep
<1>r. Becomes(t, r)
  BY <1>2
<1>3. r.kind = old.kind /\ r.pc = "leave"
  BY DEF Locals
<1> HIDE DEF r
<1>4. /\ old.pc # "failed" /\ ~old.err
      /\ r.kind \notin Flushing /\ r.pc \notin {"wait", "destroy", "flushing"}
  BY <1>1, <1>2, <1>3 DEF LocalOK, KindOf, MineOf, HandOf, CountOf, Requests, Flushing,
    Scanning, Freeing, Stuck
<1>5. NoneOut
  BY <1>1, UsePlaces DEF NoneOut, SameHands
<1>6. \A d \in Datasets \ {t} : SlotsOut(d)
  BY <1>1 DEF Use, SetMine, SlotsOut, Typed, cache
<1>7. UNCHANGED <<flushErr, unreported>>
  BY DEF Use, SetMine, band, history
<1> QED
  BY <1>r, <1>4, <1>5, <1>6, <1>7, CloseAway

LEMMA FillReadClose ==
  ASSUME Sound, Close, NEW t \in Datasets, Fill(t), thread[t].pc = "fill", SetMine(t,
    [Mine(t) EXCEPT !.val = disk[t][thread[t].pos]]), Becomes(t, Locals("use",
    thread[t].kind, thread[t].pos, thread[t].mine, thread[t].victim, thread[t].togo,
    thread[t].counted, thread[t].again, thread[t].err, thread[t].ops))
  PROVE  Close'
<1> DEFINE old == thread[t]
<1> DEFINE r == Locals("use", old.kind, old.pos, old.mine, old.victim, old.togo, old.counted, old.again,
       old.err, old.ops)
<1>1. LocalOK(t, old) /\ Typed /\ Control /\ Places
  BY LocalNow DEF Sound
<1>2. old.pc = "fill" /\ Becomes(t, r)
  BY <1>1, LocalNow
<1>r. Becomes(t, r)
  BY <1>2
<1>3. r.kind = old.kind /\ r.pc = "use"
  BY DEF Locals
<1> HIDE DEF r
<1>4. /\ old.pc # "failed" /\ ~old.err
      /\ r.kind \notin Flushing /\ r.pc \notin {"wait", "destroy", "flushing"}
  BY <1>1, <1>2, <1>3 DEF LocalOK, KindOf, MineOf, HandOf, CountOf, Requests, Flushing,
    Scanning, Freeing, Stuck
<1>5. NoneOut
  BY <1>1, FillReadPlaces DEF NoneOut, SameHands
<1>6. \A d \in Datasets \ {t} : SlotsOut(d)
  BY <1>1 DEF Fill, SetMine, SlotsOut, Typed, cache
<1>7. UNCHANGED <<flushErr, unreported>>
  BY DEF Fill, SetMine, band, history
<1> QED
  BY <1>r, <1>4, <1>5, <1>6, <1>7, CloseAway

LEMMA FillFailsClose ==
  ASSUME Sound, Close, NEW t \in Datasets, Fill(t), thread[t].pc = "fill", SetMine(t,
    [Mine(t) EXCEPT !.lock = @ - 1]), Becomes(t, Locals("take", thread[t].kind,
    thread[t].pos, thread[t].mine, thread[t].victim, thread[t].togo, thread[t].counted,
    thread[t].again, thread[t].err, thread[t].ops))
  PROVE  Close'
<1> DEFINE old == thread[t]
<1> DEFINE r == Locals("take", old.kind, old.pos, old.mine, old.victim, old.togo, old.counted, old.again,
       old.err, old.ops)
<1>1. LocalOK(t, old) /\ Typed /\ Control /\ Places
  BY LocalNow DEF Sound
<1>2. old.pc = "fill" /\ Becomes(t, r)
  BY <1>1, LocalNow
<1>r. Becomes(t, r)
  BY <1>2
<1>3. r.kind = old.kind /\ r.pc = "take"
  BY DEF Locals
<1> HIDE DEF r
<1>4. /\ old.pc # "failed" /\ ~old.err
      /\ r.kind \notin Flushing /\ r.pc \notin {"wait", "destroy", "flushing"}
  BY <1>1, <1>2, <1>3 DEF LocalOK, KindOf, MineOf, HandOf, CountOf, Requests, Flushing,
    Scanning, Freeing, Stuck
<1>5. NoneOut
  BY <1>1, FillFailsPlaces DEF NoneOut, SameHands
<1>6. \A d \in Datasets \ {t} : SlotsOut(d)
  BY <1>1 DEF Fill, SetMine, SlotsOut, Typed, cache
<1>7. UNCHANGED <<flushErr, unreported>>
  BY DEF Fill, SetMine, band, history
<1> QED
  BY <1>r, <1>4, <1>5, <1>6, <1>7, CloseAway

LEMMA TouchPutClose ==
  ASSUME Sound, Close, NEW t \in Datasets, Touch(t), thread[t].kind # "evict",
    ~thread[t].again
  PROVE  Close'
<1> DEFINE old == thread[t]
<1> DEFINE r == Locals("free", old.kind, old.pos, old.mine, old.victim, old.togo, FALSE, old.again,
       old.err, old.ops)
<1>1. LocalOK(t, old) /\ Typed /\ Control /\ Places
  BY LocalNow DEF Sound
<1>2. old.pc \in {"scan", "scanned"} /\ (old.kind # "evict") /\ (~old.again) /\ Becomes(t, r)
  BY <1>1, TouchPutStep
<1>r. Becomes(t, r)
  BY <1>2
<1>3. r.kind = old.kind /\ r.pc = "free"
  BY DEF Locals
<1> HIDE DEF r
<1>4. /\ old.pc # "failed" /\ ~old.err
      /\ r.kind \notin Flushing /\ r.pc \notin {"wait", "destroy", "flushing"}
  BY <1>1, <1>2, <1>3 DEF LocalOK, KindOf, MineOf, HandOf, CountOf, Requests, Flushing,
    Scanning, Freeing, Stuck
<1>5. NoneOut
  BY <1>1, TouchPutPlaces DEF NoneOut, SameHands
<1>6. \A d \in Datasets \ {t} : SlotsOut(d)
  BY <1>1 DEF Touch, SetMine, SlotsOut, Typed, cache
<1>7. UNCHANGED <<flushErr, unreported>>
  BY DEF Touch, SetMine, band, history
<1> QED
  BY <1>r, <1>4, <1>5, <1>6, <1>7, CloseAway

LEMMA MallocClose ==
  ASSUME Sound, Close, NEW t \in Datasets, Malloc(t)
  PROVE  Close'
<1> DEFINE old == thread[t]
<1> DEFINE r == Locals("reacquire", old.kind, old.pos, old.mine, old.victim, old.togo, old.counted,
       old.again, old.err, old.ops)
<1>1. LocalOK(t, old) /\ Typed /\ Control /\ Places
  BY LocalNow DEF Sound
<1>2. old.pc = "free" /\ old.togo = <<>> /\ old.kind # "evict" /\ ~old.again /\ Becomes(t, r)
  BY <1>1, MallocStep
<1>r. Becomes(t, r)
  BY <1>2
<1>3. r.kind = old.kind /\ r.pc = "reacquire"
  BY DEF Locals
<1> HIDE DEF r
<1>4. /\ old.pc # "failed" /\ ~old.err
      /\ r.kind \notin Flushing /\ r.pc \notin {"wait", "destroy", "flushing"}
  BY <1>1, <1>2, <1>3 DEF LocalOK, KindOf, MineOf, HandOf, CountOf, Requests, Flushing,
    Scanning, Freeing, Stuck
<1>5. NoneOut
  BY <1>1, MallocPlaces DEF NoneOut, SameHands
<1>6. \A d \in Datasets \ {t} : SlotsOut(d)
  BY <1>1 DEF Malloc, SetMine, SlotsOut, Typed, cache
<1>7. UNCHANGED <<flushErr, unreported>>
  BY DEF Malloc, SetMine, band, history
<1> QED
  BY <1>r, <1>4, <1>5, <1>6, <1>7, CloseAway

LEMMA CreateClose ==
  ASSUME Sound, Close, NEW t \in Datasets, CreateBlock(t)
  PROVE  Close'
<1> DEFINE old == thread[t]
<1> DEFINE r == Locals("internalize", old.kind, old.pos, Least(Available(t)), old.victim, old.togo,
       old.counted, old.again, old.err, old.ops)
<1>1. LocalOK(t, old) /\ Typed /\ Control /\ Places
  BY LocalNow DEF Sound
<1>2. /\ old.pc = "create" \/ (old.pc = "lookup" /\ slot[t][old.pos] = NoBlock)
      /\ Least(Available(t)) \in Available(t) /\ Least(Available(t)) \in Ids
      /\ Becomes(t, r)
  BY <1>1, CreateStep
<1>r. Becomes(t, r)
  BY <1>2
<1>3. r.kind = old.kind /\ r.pc = "internalize"
  BY DEF Locals
<1> HIDE DEF r
<1>4. /\ old.pc # "failed" /\ ~old.err
      /\ r.kind \notin Flushing /\ r.pc \notin {"wait", "destroy", "flushing"}
  BY <1>1, <1>2, <1>3 DEF LocalOK, KindOf, MineOf, HandOf, CountOf, Requests, Flushing,
    Scanning, Freeing, Stuck
<1>5. NoneOut
  BY <1>1, CreatePlaces DEF NoneOut, SameHands
<1>6. \A d \in Datasets \ {t} : SlotsOut(d)
  BY <1>1 DEF CreateBlock, SlotsOut, Typed, cache
<1>7. UNCHANGED <<flushErr, unreported>>
  BY DEF CreateBlock, band, history
<1> QED
  BY <1>r, <1>4, <1>5, <1>6, <1>7, CloseAway

LEMMA AdoptClose ==
  ASSUME Sound, Close, NEW t \in Datasets, Adopt(t)
  PROVE  Close'
<1> DEFINE old == thread[t]
<1> DEFINE r == Locals("fill", old.kind, old.pos, old.mine, old.victim, old.togo, old.counted, old.again,
       old.err, old.ops)
<1>1. LocalOK(t, old) /\ Typed /\ Control /\ Places
  BY LocalNow DEF Sound
<1>2. old.pc = "reacquire" /\ Becomes(t, r)
  BY <1>1, AdoptStep
<1>r. Becomes(t, r)
  BY <1>2
<1>3. r.kind = old.kind /\ r.pc = "fill"
  BY DEF Locals
<1> HIDE DEF r
<1>4. /\ old.pc # "failed" /\ ~old.err
      /\ r.kind \notin Flushing /\ r.pc \notin {"wait", "destroy", "flushing"}
  BY <1>1, <1>2, <1>3 DEF LocalOK, KindOf, MineOf, HandOf, CountOf, Requests, Flushing,
    Scanning, Freeing, Stuck
<1>5. NoneOut
  BY <1>1, AdoptPlaces DEF NoneOut, SameHands
<1>6. \A d \in Datasets \ {t} : SlotsOut(d)
  BY <1>1 DEF Adopt, SlotsOut, Typed, cache
<1>7. UNCHANGED <<flushErr, unreported>>
  BY DEF Adopt, band, history
<1> QED
  BY <1>r, <1>4, <1>5, <1>6, <1>7, CloseAway

LEMMA RemoveLeaveClose ==
  ASSUME Sound, Close, NEW t \in Datasets, Remove(t), ~(Mine(t).dirty /\ ~thread[t].err),
    thread[t].kind \notin Flushing
  PROVE  Close'
<1> DEFINE old == thread[t]
<1> DEFINE r == Locals("leave", old.kind, old.pos, old.mine, old.victim, old.togo, old.counted, old.again,
       old.err, old.ops)
<1>1. LocalOK(t, old) /\ Typed /\ Control /\ Places
  BY LocalNow DEF Sound
<1>2. old.pc = "remove" /\ (~(Mine(t).dirty /\ ~old.err)) /\ (old.kind \notin Flushing) /\ Becomes(t, r)
  BY <1>1, RemoveLeaveStep
<1>r. Becomes(t, r)
  BY <1>2
<1>3. r.kind = old.kind /\ r.pc = "leave"
  BY DEF Locals
<1> HIDE DEF r
<1>4. /\ old.pc # "failed" /\ ~old.err
      /\ r.kind \notin Flushing /\ r.pc \notin {"wait", "destroy", "flushing"}
  BY <1>1, <1>2, <1>3 DEF LocalOK, KindOf, MineOf, HandOf, CountOf, Requests, Flushing,
    Scanning, Freeing, Stuck
<1>5. NoneOut
  BY <1>1, RemoveLeavePlaces DEF NoneOut, SameHands
<1>6. \A d \in Datasets \ {t} : SlotsOut(d)
  BY <1>1 DEF Remove, SetMine, SlotsOut, Typed, cache
<1>7. UNCHANGED <<flushErr, unreported>>
  <2>1. ~Mine(t).dirty
    BY <1>1, <1>2 DEF Places, Mine1, Mine, LocalOK, KindOf, MineOf, HandOf, CountOf,
      Requests, Flushing, Scanning, Freeing, Stuck
  <2>2. unreported' = [unreported EXCEPT ![t] = @ \/ Mine(t).dirty] /\ flushErr' = flushErr
    BY <1>2 DEF Remove, band
  <2>3. PICK m : m = Mine(t).dirty
    OBVIOUS
  <2> QED
    BY <1>1, <2>1, <2>2, <2>3 DEF Typed
<1> QED
  BY <1>r, <1>4, <1>5, <1>6, <1>7, CloseAway

-----------------------------------------------------------------------------
(***************************************************************************)
(* A flush among its blocks.                                               *)
(***************************************************************************)
LEMMA CloseStay ==
  ASSUME Sound, Close, NEW t \in Datasets, NEW r, Becomes(t, r), NoneOut,
         thread[t].pc \in InFlush \ {"failed"}, r.pc \in InFlush \ {"take"},
         r.kind = thread[t].kind, r.pos = thread[t].pos, r.err = thread[t].err,
         thread[t].pc = "take" => slot'[t][thread[t].pos] = NoBlock,
         \A d \in Datasets : SlotsOut(d), UNCHANGED <<flushErr, unreported>>
  PROVE  Close'
<1>1. CASE thread[t].kind \in Flushing
  <2>1. LoopOK(t)'
    BY LoopStay
  <2> QED
    BY <1>1, <2>1, CloseLoop
<1>2. CASE thread[t].kind \notin Flushing
  <2>1. ~thread[t].err
    BY <1>2, LocalNow DEF Sound, LocalOK, CountOf
  <2> QED
    BY <1>2, <2>1, CloseAway DEF InFlush, Freeing
<1> QED
  BY <1>1, <1>2

(* Who writes a block, writes it to a dataset that is not closed yet.      *)
LEMMA FirstOpen ==
  ASSUME Sound, Close, NEW t \in Datasets, thread[t].pc \in {"free", "iwrite", "failed"},
         thread[t].togo # <<>>
  PROVE  /\ First(t) \in AllBlocks /\ First(t)[1] \in Datasets /\ ~Rested(First(t)[1])
         /\ thread[t].kind \in Flushing => First(t)[1] = t
<1>1. CASE thread[t].kind \in Flushing
  <2>1. First(t) = <<t, thread[t].mine>> /\ thread[t].mine \in Ids
    BY <1>1, LocalNow DEF Sound, LocalOK, HandOf, MineOf, Freeing, First
  <2>2. ~Rested(t)
    BY DEF Close, LoopOK, Rested, At
  <2> QED
    BY <2>1, <2>2 DEF AllBlocks
<1>2. CASE thread[t].kind \notin Flushing
  <2>1. First(t) \in AllBlocks /\ First(t) \in Held(t)
    BY <1>2, FirstHand DEF Sound, Freeing
  <2>2. PICK d \in Datasets, b \in Ids : First(t) = <<d, b>> /\ First(t)[1] = d
    BY <2>1, Pairs
  <2>3. Evicted(d, b)
    BY <2>1, <2>2 DEF Evicted
  <2>4. ~Rested(d)
    BY <2>3 DEF Close, LeftOK, Emptied
  <2> QED
    BY <1>2, <2>1, <2>2, <2>4
<1> QED
  BY <1>1, <1>2

(* A block is being written, and the write may fail.                       *)
LEMMA CloseFail ==
  ASSUME Sound, Close, NEW t \in Datasets, NEW r, Becomes(t, r), SameHands, slot' = slot,
         thread[t].pc \in {"free", "iwrite"}, thread[t].togo # <<>>,
         r.pc \in Freeing \cup {"delete"}, r.kind = thread[t].kind, r.pos = thread[t].pos,
         r.err = thread[t].err, r.togo = thread[t].togo, flushErr' = flushErr,
         \A d \in Datasets : d # First(t)[1] => unreported'[d] = unreported[d],
         \A d \in Datasets : unreported'[d] => unreported[d] \/ flushErr[d] \/ r.pc = "failed"
  PROVE  Close'
<1>1. thread'[t] = r /\ \A u \in Datasets \ {t} : thread'[u] = thread[u]
  BY Others DEF Sound
<1>2. First(t)[1] \in Datasets /\ ~Rested(First(t)[1])
  BY FirstOpen
<1>3. NoneOut /\ \A d \in Datasets : SlotsOut(d)
  BY DEF NoneOut, SlotsOut, SameHands
<1>4. LoopOK(t)' /\ LeftOK(t)'
  <2>1. LoopOK(t)'
    BY <1>3, LoopStay DEF InFlush, Freeing
  <2>2. r.kind # "destroy"
    BY DEF Close, LoopOK
  <2> QED
    BY <1>1, <2>1, <2>2 DEF LeftOK, Rested, At, Freeing
<1>5. ASSUME NEW d \in Datasets
      PROVE  ToldOK(d)'
  <2>1. ToldOK(d) /\ thread'[d].kind = thread[d].kind /\ thread'[d].err = thread[d].err
    BY <1>1 DEF Close
  <2>2. Telling(d)' <=> Telling(d)
    BY <2>1 DEF Telling
  <2>3. \A u \in Datasets : Failing(u, d) => Failing(u, d)'
    BY FailingStays
  <2>4. unreported'[d] => flushErr'[d] \/ Telling(d)' \/ \E u \in Datasets : Failing(u, d)'
    <3>1. CASE d # First(t)[1]
      BY <2>1, <2>2, <2>3, <3>1 DEF ToldOK
    <3>2. CASE d = First(t)[1]
      <4>1. r.pc = "failed" => Failing(t, d)'
        BY <1>1, <3>2 DEF Failing, At, First
      <4> QED
        BY <2>1, <2>2, <2>3, <4>1 DEF ToldOK
    <3> QED
      BY <3>1, <3>2
  <2>5. thread'[d].kind = "destroy" => ~unreported'[d] /\ ~flushErr'[d]
    <3>1. thread[d].kind = "destroy" => d # First(t)[1]
      BY <1>2 DEF Rested
    <3> QED
      BY <2>1, <3>1 DEF ToldOK
  <2>6. thread'[d].pc \in {"destroy", "flushing"} => ~thread'[d].err
    <3>1. CASE d = t
      BY <1>1, <3>1 DEF Freeing
    <3>2. CASE d # t
      BY <1>1, <2>1, <3>2 DEF ToldOK
    <3> QED
      BY <3>1, <3>2
  <2> QED
    BY <2>4, <2>5, <2>6 DEF ToldOK
<1>6. \A d \in Datasets \ {t} : LoopOK(d)' /\ LeftOK(d)'
  BY <1>3, OthersLeft
<1> QED
  BY <1>4, <1>5, <1>6 DEF Close

(* The end of a flush, with nothing left of the band.                      *)
LEMMA NothingHeld ==
  ASSUME Sound, Count, NEW t \in Datasets, keepAlive[t] = 0, NEW b \in Ids
  PROVE  ~Evicted(t, b)
<1>1. Kept(t) = {}
  BY CountedIs, AllFinite, FS_EmptySet DEF Count
<1>2. SUFFICES ASSUME NEW u \in Datasets, <<t, b>> \in Held(u) PROVE FALSE
  BY DEF Evicted
<1>3. <<u, <<t, b>>>> \in Kept(t)
  BY <1>2 DEF Kept, Keeps, Held, AllBlocks
<1> QED
  BY <1>1, <1>3

LEMMA CloseEnd ==
  ASSUME Sound, Count, Close, NEW t \in Datasets, NEW r, Becomes(t, r), SameHands, slot' = slot,
         thread[t].pc = "wait", keepAlive[t] = 0, ~r.err, flushErr' = flushErr,
         r.pc \in {"idle", "destroy", "closed"},
         r.kind = "destroy" => thread[t].kind = "destroy" /\ r.pc = "closed",
         \A d \in Datasets \ {t} : unreported'[d] = unreported[d],
         unreported'[t] => unreported[t] /\ (thread[t].kind = "destroy" \/ ~thread[t].err)
  PROVE  Close'
<1>1. thread'[t] = r
  BY Others DEF Sound
<1>2. NoneOut /\ \A d \in Datasets : SlotsOut(d)
  BY DEF NoneOut, SlotsOut, SameHands
<1>3. LoopOK(t) /\ ToldOK(t) /\ thread[t].kind \in Flushing
  BY LocalNow DEF Close, Sound, LocalOK, KindOf
<1>4. LoopOK(t)'
  BY <1>1 DEF LoopOK, InFlush, Freeing
<1>5. LeftOK(t)'
  <2>1. \A b \in Ids : ~Evicted(t, b) /\ ~InSlot(t, b)
    BY <1>3, NothingHeld DEF LoopOK, InSlot, Ids, NoBlock
  <2> QED
    BY <2>1 DEF LeftOK, Emptied, SameHands, InSlot
<1>6. ToldOK(t)'
  <2>1. \A u \in Datasets : Failing(u, t) => Failing(u, t)'
    BY FailingStays
  <2>2. unreported'[t] => ~Telling(t) /\ unreported[t]
    BY <1>3 DEF Telling
  <2>3. unreported'[t] => flushErr'[t] \/ Telling(t)' \/ \E u \in Datasets : Failing(u, t)'
    BY <1>3, <2>1, <2>2 DEF ToldOK
  <2> QED
    BY <1>1, <1>3, <2>2, <2>3 DEF ToldOK
<1> QED
  BY <1>2, <1>4, <1>5, <1>6, OthersClose DEF Close
LEMMA TakeClose ==
  ASSUME Sound, Close, NEW t \in Datasets, Take(t), slot[t][thread[t].pos] # NoBlock
  PROVE  Close'
<1> DEFINE old == thread[t]
<1>1. LocalOK(t, old) /\ Typed /\ Control /\ Places
  BY LocalNow DEF Sound
<1> DEFINE r == Locals("droplock", old.kind, old.pos, slot[t][old.pos], old.victim, old.togo,
  old.counted, old.again, old.err, old.ops)
<1>2. old.pc = "take" /\ slot[t][old.pos] # NoBlock /\ (slot[t][old.pos] # NoBlock) /\
  Becomes(t, r)
  BY <1>1, TakeStep
<1>r. Becomes(t, r)
  BY <1>2
<1>3. r.pc = "droplock" /\ r.kind = old.kind /\ r.pos = old.pos /\ r.err = old.err
  BY DEF Locals
<1> HIDE DEF r
<1>4. NoneOut
  BY <1>1, TakePlaces DEF NoneOut, SameHands
<1>5. \A d \in Datasets : SlotsOut(d)
  BY <1>1, <1>2 DEF Take, SlotsOut, Typed, cache
<1>6. UNCHANGED <<flushErr, unreported>>
  BY DEF Take, band, history
<1>7. slot'[t][old.pos] = NoBlock
  <2>1. old.pos \in Positions
    BY <1>1, <1>2 DEF LocalOK, KindOf, MineOf
  <2> QED
    BY <1>1, <2>1 DEF Take, Typed
<1> QED
  BY <1>2, <1>r, <1>3, <1>4, <1>5, <1>6, <1>7, CloseStay DEF InFlush, Freeing

LEMMA DropLockClose ==
  ASSUME Sound, Close, NEW t \in Datasets, DropLockForRemoval(t), Mine(t).lock = 0
  PROVE  Close'
<1> DEFINE old == thread[t]
<1>1. LocalOK(t, old) /\ Typed /\ Control /\ Places
  BY LocalNow DEF Sound
<1> DEFINE r == Locals("remove", old.kind, old.pos, old.mine, old.victim, old.togo,
  old.counted, old.again, old.err, old.ops)
<1>2. old.pc = "droplock" /\ Becomes(t, r)
  BY <1>1, DropLockStep
<1>r. Becomes(t, r)
  BY <1>2
<1>3. r.pc = "remove" /\ r.kind = old.kind /\ r.pos = old.pos /\ r.err = old.err
  BY DEF Locals
<1> HIDE DEF r
<1>4. NoneOut
  BY <1>1, DropLockPlaces DEF NoneOut, SameHands
<1>5. \A d \in Datasets : SlotsOut(d)
  BY <1>1, <1>2 DEF DropLockForRemoval, SlotsOut, Typed, cache
<1>6. UNCHANGED <<flushErr, unreported>>
  BY DEF DropLockForRemoval, band, history
<1> QED
  BY <1>2, <1>r, <1>3, <1>4, <1>5, <1>6, CloseStay DEF InFlush, Freeing

LEMMA DropLockEvictedClose ==
  ASSUME Sound, Close, NEW t \in Datasets, DropLockForRemoval(t), Mine(t).lock # 0
  PROVE  Close'
<1> DEFINE old == thread[t]
<1>1. LocalOK(t, old) /\ Typed /\ Control /\ Places
  BY LocalNow DEF Sound
<1> DEFINE r == Locals("evicted", old.kind, old.pos, old.mine, old.victim, old.togo,
  old.counted, old.again, old.err, old.ops)
<1>2. old.pc = "droplock" /\ Becomes(t, r)
  BY <1>1, DropLockEvictedStep
<1>r. Becomes(t, r)
  BY <1>2
<1>3. r.pc = "evicted" /\ r.kind = old.kind /\ r.pos = old.pos /\ r.err = old.err
  BY DEF Locals
<1> HIDE DEF r
<1>4. NoneOut
  BY <1>1, DropLockEvictedPlaces DEF NoneOut, SameHands
<1>5. \A d \in Datasets : SlotsOut(d)
  BY <1>1, <1>2 DEF DropLockForRemoval, SlotsOut, Typed, cache
<1>6. UNCHANGED <<flushErr, unreported>>
  BY DEF DropLockForRemoval, band, history
<1> QED
  BY <1>2, <1>r, <1>3, <1>4, <1>5, <1>6, CloseStay DEF InFlush, Freeing

LEMMA RemoveWriteClose ==
  ASSUME Sound, Close, NEW t \in Datasets, Remove(t), Mine(t).dirty /\ ~thread[t].err,
    thread[t].kind \in Flushing
  PROVE  Close'
<1> DEFINE old == thread[t]
<1>1. LocalOK(t, old) /\ Typed /\ Control /\ Places
  BY LocalNow DEF Sound
<1> DEFINE r == Locals("free", old.kind, old.pos, old.mine, old.victim, <<<<t, old.mine>>>>,
  old.counted, old.again, old.err, old.ops)
<1>2. old.pc = "remove" /\ (Mine(t).dirty /\ ~old.err) /\ Becomes(t, r)
  BY <1>1, RemoveWriteStep
<1>r. Becomes(t, r)
  BY <1>2
<1>3. r.pc = "free" /\ r.kind = old.kind /\ r.pos = old.pos /\ r.err = old.err
  BY DEF Locals
<1> HIDE DEF r
<1>4. NoneOut
  BY <1>1, RemoveWritePlaces DEF NoneOut, SameHands
<1>5. \A d \in Datasets : SlotsOut(d)
  BY <1>1, <1>2 DEF Remove, SlotsOut, Typed, cache
<1>6. UNCHANGED <<flushErr, unreported>>
  BY DEF Remove, band, history
<1> QED
  BY <1>2, <1>r, <1>3, <1>4, <1>5, <1>6, CloseStay DEF InFlush, Freeing

LEMMA WaitEvictionClose ==
  ASSUME Sound, Close, NEW t \in Datasets, WaitEviction(t), thread[t].kind \in Flushing
  PROVE  Close'
<1> DEFINE old == thread[t]
<1>1. LocalOK(t, old) /\ Typed /\ Control /\ Places
  BY LocalNow DEF Sound
<1> DEFINE R(j) == Locals(IF j \in Positions THEN "take" ELSE "wait", old.kind, j, NoBlock,
  old.victim, <<>>, old.counted, old.again, old.err, old.ops)
<1>2. PICK j : old.pc = "evicted" /\ old.kind \in Flushing /\ NextSlot(t, old.pos + 1, j) /\
  Becomes(t, R(j))
  BY <1>1, WaitEvictionStep
<1> DEFINE r == R(j)
<1>r. Becomes(t, r)
  BY <1>2
<1>3. r.pc = (IF j \in Positions THEN "take" ELSE "wait") /\ r.kind = old.kind /\ r.pos = j
      /\ r.err = old.err
  BY DEF Locals
<1> HIDE DEF r
<1>4. NoneOut
  BY <1>1, WaitEvictionPlaces DEF NoneOut, SameHands
<1>5. \A d \in Datasets : SlotsOut(d)
  BY <1>1, <1>2 DEF WaitEviction, SlotsOut, Typed, cache
<1>6. UNCHANGED <<flushErr, unreported>>
  BY DEF WaitEviction, band, history
<1>7. LoopOK(t)'
  BY <1>2, <1>r, <1>3, <1>5, LoopNext DEF InFlush
<1> QED
  BY <1>2, <1>r, <1>3, <1>4, <1>5, <1>6, <1>7, CloseLoop DEF InFlush, Freeing

LEMMA TakeNextClose ==
  ASSUME Sound, Close, NEW t \in Datasets, Take(t), thread[t].kind \in Flushing,
    slot[t][thread[t].pos] = NoBlock
  PROVE  Close'
<1> DEFINE old == thread[t]
<1>1. LocalOK(t, old) /\ Typed /\ Control /\ Places
  BY LocalNow DEF Sound
<1> DEFINE R(j) == Locals(IF j \in Positions THEN "take" ELSE "wait", old.kind, j, NoBlock,
  old.victim, <<>>, old.counted, old.again, old.err, old.ops)
<1>2. PICK j : old.pc = "take" /\ old.kind \in Flushing /\ NextSlot(t, old.pos + 1, j) /\
  Becomes(t, R(j))
  BY <1>1, TakeNextStep
<1> DEFINE r == R(j)
<1>r. Becomes(t, r)
  BY <1>2
<1>3. r.pc = (IF j \in Positions THEN "take" ELSE "wait") /\ r.kind = old.kind /\ r.pos = j
      /\ r.err = old.err
  BY DEF Locals
<1> HIDE DEF r
<1>4. NoneOut
  BY <1>1, TakeNextPlaces DEF NoneOut, SameHands
<1>5. \A d \in Datasets : SlotsOut(d)
  BY <1>1, <1>2 DEF Take, SlotsOut, Typed, cache
<1>6. UNCHANGED <<flushErr, unreported>>
  BY DEF Take, band, history
<1>7. LoopOK(t)'
  BY <1>2, <1>r, <1>3, <1>5, LoopNext DEF InFlush
<1> QED
  BY <1>2, <1>r, <1>3, <1>4, <1>5, <1>6, <1>7, CloseLoop DEF InFlush, Freeing

LEMMA RemoveNextClose ==
  ASSUME Sound, Close, NEW t \in Datasets, Remove(t), ~(Mine(t).dirty /\ ~thread[t].err),
    thread[t].kind \in Flushing
  PROVE  Close'
<1> DEFINE old == thread[t]
<1>1. LocalOK(t, old) /\ Typed /\ Control /\ Places
  BY LocalNow DEF Sound
<1> DEFINE R(j) == Locals(IF j \in Positions THEN "take" ELSE "wait", old.kind, j, NoBlock,
  old.victim, <<>>, old.counted, old.again, old.err, old.ops)
<1>2. PICK j : old.pc = "remove" /\ old.kind \in Flushing /\ NextSlot(t, old.pos + 1, j) /\
  Becomes(t, R(j))
  BY <1>1, RemoveNextStep
<1> DEFINE r == R(j)
<1>r. Becomes(t, r)
  BY <1>2
<1>3. r.pc = (IF j \in Positions THEN "take" ELSE "wait") /\ r.kind = old.kind /\ r.pos = j
      /\ r.err = old.err
  BY DEF Locals
<1> HIDE DEF r
<1>4. NoneOut
  BY <1>1, RemoveNextPlaces DEF NoneOut, SameHands
<1>5. \A d \in Datasets : SlotsOut(d)
  BY <1>1, <1>2 DEF Remove, SlotsOut, Typed, cache
<1>6. /\ flushErr' = flushErr /\ \A d \in Datasets \ {t} : unreported'[d] = unreported[d]
      /\ unreported'[t] => unreported[t] \/ r.err
  <2>1. flushErr' = flushErr /\ unreported' = [unreported EXCEPT ![t] = @ \/ Mine(t).dirty]
    BY DEF Remove, band
  <2>2. PICK m : m = Mine(t).dirty
    OBVIOUS
  <2>3. m => r.err
    BY <1>3, <2>2
  <2> QED
    BY <1>1, <2>1, <2>2, <2>3 DEF Typed
<1>7. LoopOK(t)'
  BY <1>2, <1>r, <1>3, <1>5, LoopNext DEF InFlush
<1> QED
  BY <1>2, <1>r, <1>3, <1>4, <1>5, <1>6, <1>7, CloseLoop DEF InFlush, Freeing

LEMMA DeleteClose ==
  ASSUME Sound, Close, NEW t \in Datasets, Delete(t)
  PROVE  Close'
<1> DEFINE old == thread[t]
<1>1. LocalOK(t, old) /\ Typed /\ Control /\ Places
  BY LocalNow DEF Sound
<1> DEFINE R(j) == Locals(IF j \in Positions THEN "take" ELSE "wait", old.kind, j, NoBlock,
  old.victim, <<>>, old.counted, old.again, old.err, old.ops)
<1>2. PICK j : old.pc = "delete" /\ old.kind \in Flushing /\ NextSlot(t, old.pos + 1, j) /\
  Becomes(t, R(j))
  BY <1>1, DeleteStep
<1> DEFINE r == R(j)
<1>r. Becomes(t, r)
  BY <1>2
<1>3. r.pc = (IF j \in Positions THEN "take" ELSE "wait") /\ r.kind = old.kind /\ r.pos = j
      /\ r.err = old.err
  BY DEF Locals
<1> HIDE DEF r
<1>4. NoneOut
  BY <1>1, DeletePlaces DEF NoneOut, SameHands
<1>5. \A d \in Datasets : SlotsOut(d)
  BY <1>1, <1>2 DEF Delete, SlotsOut, Typed, cache
<1>6. UNCHANGED <<flushErr, unreported>>
  BY DEF Delete, band, history
<1>7. LoopOK(t)'
  BY <1>2, <1>r, <1>3, <1>5, LoopNext DEF InFlush
<1> QED
  BY <1>2, <1>r, <1>3, <1>4, <1>5, <1>6, <1>7, CloseLoop DEF InFlush, Freeing

LEMMA AddBlockClose ==
  ASSUME Sound, Close, NEW t \in Datasets, AddBlockToFreeList(t)
  PROVE  Close'
<1> DEFINE old == thread[t]
<1>1. LocalOK(t, old) /\ Typed /\ Control /\ Places /\ old.kind \notin Flushing
  BY LocalNow, AddBlockPlaces DEF Sound
<1> DEFINE r == Locals("countdown", old.kind, old.pos, old.mine, old.victim, old.togo,
  old.counted, old.again, old.err, old.ops)
<1>2. old.pc \in {"giveback", "free"} /\ old.togo # <<>> /\ (old.kind \notin Flushing) /\
  Becomes(t, r)
  BY <1>1, AddBlockStep
<1>r. Becomes(t, r)
  BY <1>2
<1>3. r.pc = "countdown" /\ r.kind = old.kind
  BY DEF Locals
<1> HIDE DEF r
<1>4. /\ old.pc # "failed" /\ ~old.err
      /\ r.kind \notin Flushing /\ r.pc \notin {"wait", "destroy", "flushing"}
  BY <1>1, <1>2, <1>3 DEF LocalOK, KindOf, CountOf, Requests, Flushing, Scanning, Freeing
<1>5. NoneOut
  BY <1>1, AddBlockPlaces DEF NoneOut
<1>6. \A d \in Datasets : SlotsOut(d)
  BY <1>1, <1>2 DEF AddBlockToFreeList, SlotsOut, Typed, cache
<1>7. UNCHANGED <<flushErr, unreported>>
  BY DEF AddBlockToFreeList, band, history
<1> QED
  BY <1>r, <1>4, <1>5, <1>6, <1>7, CloseAway

LEMMA CountDownClose ==
  ASSUME Sound, Close, NEW t \in Datasets, CountDown(t)
  PROVE  Close'
<1> DEFINE old == thread[t]
<1>1. LocalOK(t, old) /\ Typed /\ Control /\ Places
  BY LocalNow DEF Sound
<1> DEFINE r == Locals("free", old.kind, old.pos, old.mine, old.victim, Tail(old.togo),
  old.counted, old.again, old.err, old.ops)
<1>2. old.pc = "countdown" /\ Becomes(t, r)
  BY <1>1, CountDownStep
<1>r. Becomes(t, r)
  BY <1>2
<1>3. r.pc = "free" /\ r.kind = old.kind
  BY DEF Locals
<1> HIDE DEF r
<1>4. /\ old.pc # "failed" /\ ~old.err
      /\ r.kind \notin Flushing /\ r.pc \notin {"wait", "destroy", "flushing"}
  BY <1>1, <1>2, <1>3 DEF LocalOK, KindOf, CountOf, Requests, Flushing, Scanning, Freeing
<1>5. NoneOut
  BY <1>1, CountDownPlaces DEF NoneOut, SameHands
<1>6. \A d \in Datasets : SlotsOut(d)
  BY <1>1, <1>2 DEF CountDown, SlotsOut, Typed, cache
<1>7. UNCHANGED <<flushErr, unreported>>
  BY DEF CountDown, band, history
<1> QED
  BY <1>r, <1>4, <1>5, <1>6, <1>7, CloseAway

LEMMA UnreferenceClose ==
  ASSUME Sound, Close, NEW t \in Datasets, NEW full \in BOOLEAN,
         Unreference(t, full)
  PROVE  Close'
<1> DEFINE old == thread[t]
<1>1. LocalOK(t, old) /\ Typed /\ Control /\ Places
  BY LocalNow DEF Sound
<1> DEFINE stop == The(old.victim).dirty \/ full \/ old.kind = "evict"
           r == Locals(IF stop THEN "scanned" ELSE "scan", old.kind, old.pos, old.mine,
                       NoVictim, Append(old.togo, old.victim), old.counted,
                       (stop /\ old.kind # "evict" /\ nCacheUsed > nCacheMax), old.err, old.ops)
<1>2. old.pc = "unref" /\ old.victim \in AllBlocks /\ Becomes(t, r)
  BY <1>1, UnreferenceStep
<1>r. Becomes(t, r)
  BY <1>2
<1>3. r.pc = (IF stop THEN "scanned" ELSE "scan")
      /\ r.kind = old.kind
  BY DEF Locals
<1> HIDE DEF r, stop
<1>4. /\ old.pc # "failed" /\ ~old.err
      /\ r.kind \notin Flushing /\ r.pc \notin {"wait", "destroy", "flushing"}
  BY <1>1, <1>2, <1>3 DEF LocalOK, KindOf, CountOf, Requests, Flushing, Scanning, Freeing
<1>5. NoneOut
  BY <1>1, UnreferencePlaces DEF NoneOut
<1>6. \A d \in Datasets : SlotsOut(d)
  BY <1>1, <1>2 DEF Unreference, SlotsOut, Typed, cache
<1>7. UNCHANGED <<flushErr, unreported>>
  BY DEF Unreference, band, history
<1> QED
  BY <1>r, <1>4, <1>5, <1>6, <1>7, CloseAway

LEMMA ClaimClose ==
  ASSUME Sound, Close, NEW t \in Datasets, NEW x \in AllBlocks, Claim(t, x)
  PROVE  Close'
<1> DEFINE old == thread[t]
           r == Locals("unref", old.kind, old.pos, old.mine, x, old.togo, old.counted,
                       old.again, old.err, old.ops)
<1>1. LocalOK(t, old) /\ Typed /\ Control /\ Places
  BY LocalNow DEF Sound
<1>2. /\ x \notin HandsOf(t)
      /\ \A c, e : Evicted(c, e)' <=> Evicted(c, e) \/ <<c, e>> = x
  BY <1>1, ClaimPlaces
<1>3. old.pc = "scan" /\ Becomes(t, r)
  BY <1>1, <1>2, ClaimStep
<1>r. Becomes(t, r)
  BY <1>3
<1>4. r.pc = "unref" /\ r.kind = old.kind
  BY DEF Locals
<1> HIDE DEF r
<1>5. /\ old.pc # "failed" /\ ~old.err
      /\ r.kind \notin Flushing /\ r.pc \notin {"wait", "destroy", "flushing"}
  BY <1>1, <1>3, <1>4 DEF LocalOK, KindOf, CountOf, Requests, Flushing, Scanning, Freeing
<1>6. NoneOut
  <2>1. PICK d \in Datasets, b \in Ids : x = <<d, b>>
    BY Pairs
  <2>2. /\ \/ slot[d][block[d][b].pos] = b
           \/ Works(d, b, {"droplock"}) /\ block[d][b].pos = thread[d].pos
        /\ block[d][b].pos \in Positions
    BY <1>1, <1>3, <2>1, Claimable DEF Claim
  <2>3. ~Rested(d)
    <3>1. CASE slot[d][block[d][b].pos] = b
      BY <2>2, <3>1 DEF Close, LeftOK, Emptied, InSlot
    <3>2. CASE Works(d, b, {"droplock"})
      BY <3>2 DEF Close, LoopOK, Rested, Works, At
    <3> QED
      BY <2>2, <3>1, <3>2
  <2>4. ASSUME NEW c \in Datasets, Rested(c), NEW e \in Ids, Evicted(c, e)'
        PROVE  Evicted(c, e)
    <3>1. <<c, e>> # <<d, b>>
      BY <2>3, <2>4
    <3> QED
      BY <1>2, <2>1, <2>4, <3>1
  <2> QED
    BY <2>4 DEF NoneOut
<1>7. \A d \in Datasets : SlotsOut(d)
  BY DEF Claim, SlotsOut
<1>8. UNCHANGED <<flushErr, unreported>>
  BY DEF Claim, history
<1> QED
  BY <1>r, <1>5, <1>6, <1>7, <1>8, CloseAway

LEMMA WriteClose ==
  ASSUME Sound, Close, NEW t \in Datasets, Write(t)
  PROVE  Close'
<1> DEFINE old == thread[t]
           r == Locals(IF flushErr[First(t)[1]] THEN "failed" ELSE "iwrite", old.kind,
                       old.pos, old.mine, old.victim, old.togo, old.counted, old.again,
                       old.err, old.ops)
<1>1. LocalOK(t, old) /\ Typed /\ Control /\ Places
  BY LocalNow DEF Sound
<1>2. old.pc = "free" /\ old.togo # <<>> /\ Becomes(t, r)
  BY <1>1, WriteStep
<1>r. Becomes(t, r)
  BY <1>2
<1>3. /\ r.pc = IF flushErr[First(t)[1]] THEN "failed" ELSE "iwrite"
      /\ r.kind = old.kind /\ r.pos = old.pos /\ r.err = old.err /\ r.togo = old.togo
  BY DEF Locals
<1> HIDE DEF r
<1>4. SameHands
  BY <1>1, WritePlaces, WriteOwnPlaces
<1>5. PICK d \in Datasets : d = First(t)[1]
  BY <1>2, FirstOpen
<1>6. unreported' = [unreported EXCEPT ![d] = @ \/ flushErr[d]] /\ flushErr' = flushErr
      /\ slot' = slot
  BY <1>5 DEF Write, band
<1>7. /\ \A c \in Datasets : c # d => unreported'[c] = unreported[c]
      /\ \A c \in Datasets : unreported'[c] => unreported[c] \/ flushErr[c]
  BY <1>1, <1>6 DEF Typed
<1> QED
  BY <1>2, <1>r, <1>3, <1>4, <1>5, <1>6, <1>7, CloseFail DEF Freeing

LEMMA GotoPc ==
  ASSUME Typed, NEW t \in Datasets, NEW w, Goto(t, w)
  PROVE  thread'[t].pc = w
<1> DEFINE r == Locals(w, thread[t].kind, thread[t].pos, thread[t].mine, thread[t].victim,
                       thread[t].togo, thread[t].counted, thread[t].again, thread[t].err,
                       thread[t].ops)
<1>1. Becomes(t, r)
  BY StepPc DEF Goto
<1>2. r.pc = w
  BY DEF Locals
<1> HIDE DEF r
<1> QED
  BY <1>1, <1>2, Others

LEMMA IWriteClose ==
  ASSUME Sound, Close, NEW t \in Datasets, IWriteBlock(t)
  PROVE  Close'
<1> DEFINE old == thread[t]
           R(j) == Locals(j, old.kind, old.pos, old.mine, old.victim, old.togo, old.counted,
                          old.again, old.err, old.ops)
<1>1. LocalOK(t, old) /\ Typed /\ Control /\ Places
  BY LocalNow DEF Sound
<1>2. PICK j : /\ old.pc = "iwrite" /\ Becomes(t, R(j))
               /\ j \in {IF old.kind \in Flushing THEN "delete" ELSE "giveback", "failed"}
  BY <1>1, IWriteStep
<1> DEFINE r == R(j)
<1>r. Becomes(t, r)
  BY <1>2
<1>3. r.pc = j /\ r.kind = old.kind /\ r.pos = old.pos /\ r.err = old.err /\ r.togo = old.togo
  BY DEF Locals
<1>4. thread'[t].pc = j
  BY <1>1, <1>r, <1>3, Others
<1> HIDE DEF r
<1>5. SameHands
  BY <1>1, IWritePlaces
<1>6. old.togo # <<>>
  BY <1>1, <1>2 DEF LocalOK, HandOf
<1>7. PICK d \in Datasets : d = First(t)[1]
  BY <1>2, <1>6, FirstOpen
<1>8. /\ flushErr' = flushErr /\ slot' = slot
      /\ unreported' = unreported \/ (unreported' = [unreported EXCEPT ![d] = TRUE] /\ Goto(t, "failed"))
  BY <1>7 DEF IWriteBlock, band, cache
<1>9. unreported' = unreported \/ (unreported' = [unreported EXCEPT ![d] = TRUE] /\ j = "failed")
  <2>1. Goto(t, "failed") => thread'[t].pc = "failed"
    BY <1>1, GotoPc
  <2> QED
    BY <1>4, <1>8, <2>1
<1>10. /\ \A c \in Datasets : c # d => unreported'[c] = unreported[c]
       /\ \A c \in Datasets : unreported'[c] => unreported[c] \/ j = "failed"
  BY <1>1, <1>9 DEF Typed
<1> QED
  BY <1>2, <1>r, <1>3, <1>5, <1>6, <1>7, <1>8, <1>10, CloseFail DEF Freeing

(* FlushCache remembers the error of a block it could not write itself.    *)
LEMMA WriteFailedFlushClose ==
  ASSUME Sound, Close, NEW t \in Datasets, WriteFailed(t), thread[t].kind \in Flushing
  PROVE  Close'
<1> DEFINE old == thread[t]
           r == Locals("delete", old.kind, old.pos, old.mine, old.victim, old.togo, old.counted,
                       old.again, TRUE, old.ops)
<1>1. LocalOK(t, old) /\ Typed /\ Control /\ Places
  BY LocalNow DEF Sound
<1>2. old.pc = "failed" /\ Becomes(t, r)
  BY <1>1, WriteFailedFlushStep
<1>r. Becomes(t, r)
  BY <1>2
<1>3. r.pc = "delete" /\ r.kind = old.kind /\ r.pos = old.pos /\ r.err = TRUE
  BY DEF Locals
<1> HIDE DEF r
<1>4. /\ NoneOut /\ (\A d \in Datasets : SlotsOut(d)) /\ UNCHANGED <<flushErr, unreported>>
  BY <1>1, WriteFailedFlushPlaces DEF NoneOut, SameHands, SlotsOut, WriteFailed, cache, history
<1>5. First(t)[1] = t
  BY <1>1, <1>2, FirstOpen DEF LocalOK, HandOf
<1>6. thread'[t] = r /\ \A u \in Datasets \ {t} : thread'[u] = thread[u]
  BY <1>1, <1>r, Others
<1>7. old.kind \in {"flush", "close"}
  BY <1>2 DEF Close, LoopOK, Flushing
<1>8. LoopOK(t)' /\ LeftOK(t)' /\ ToldOK(t)'
  <2>1. LoopOK(t)'
    BY <1>2, <1>r, <1>3, <1>4, LoopStay DEF InFlush, Freeing
  <2>2. LeftOK(t)' /\ ToldOK(t)'
    BY <1>3, <1>6, <1>7 DEF LeftOK, Rested, ToldOK, Telling, At
  <2> QED
    BY <2>1, <2>2
<1>9. ASSUME NEW d \in Datasets \ {t}
      PROVE  LoopOK(d)' /\ LeftOK(d)' /\ ToldOK(d)'
  <2>1. thread'[d] = thread[d] /\ LoopOK(d)' /\ LeftOK(d)' /\ ToldOK(d)
    BY <1>r, <1>4, OthersLeft DEF Close
  <2>2. ASSUME NEW u \in Datasets, Failing(u, d)
        PROVE  Failing(u, d)'
    <3>1. thread'[u] = thread[u]
      BY <1>5, <1>6, <2>2 DEF Failing
    <3> QED
      BY <2>2, <3>1 DEF Failing, At, First
  <2> QED
    BY <1>4, <2>1, <2>2 DEF ToldOK, Telling, At
<1> QED
  BY <1>8, <1>9 DEF Close

(* An eviction leaves the error with the band.                             *)
LEMMA WriteFailedClose ==
  ASSUME Sound, Close, NEW t \in Datasets, WriteFailed(t), thread[t].kind \notin Flushing
  PROVE  Close'
<1> DEFINE old == thread[t]
           r == Locals("giveback", old.kind, old.pos, old.mine, old.victim, old.togo,
                       old.counted, old.again, old.err, old.ops)
<1>1. LocalOK(t, old) /\ Typed /\ Control /\ Places
  BY LocalNow DEF Sound
<1>2. old.pc = "failed" /\ old.togo # <<>> /\ Becomes(t, r)
  BY <1>1, WriteFailedStep DEF LocalOK, HandOf
<1>r. Becomes(t, r)
  BY <1>2
<1>3. r.pc = "giveback" /\ r.kind = old.kind
  BY DEF Locals
<1> HIDE DEF r
<1>4. NoneOut /\ (\A d \in Datasets : SlotsOut(d)) /\ unreported' = unreported
  BY <1>1, WriteFailedPlaces DEF NoneOut, SameHands, SlotsOut, WriteFailed, cache, history
<1>5. PICK c \in Datasets : c = First(t)[1] /\ ~Rested(c)
  BY <1>2, FirstOpen
<1>6. flushErr'[c] = TRUE /\ \A d \in Datasets \ {c} : flushErr'[d] = flushErr[d]
  BY <1>1, <1>5 DEF WriteFailed, SetFlushBlockErr, Typed
<1>7. thread'[t] = r /\ \A u \in Datasets \ {t} : thread'[u] = thread[u]
  BY <1>1, <1>r, Others
<1>8. LoopOK(t)' /\ LeftOK(t)'
  BY <1>3, <1>7 DEF LoopOK, LeftOK, Rested, At, Flushing
<1>9. \A d \in Datasets \ {t} : LoopOK(d)' /\ LeftOK(d)'
  BY <1>r, <1>4, OthersLeft
<1>10. ASSUME NEW d \in Datasets
       PROVE  ToldOK(d)'
  <2>1. ToldOK(d)
    BY DEF Close
  <2>2. /\ Telling(d) => Telling(d)'
        /\ (thread[d].kind = "destroy")' => thread[d].kind = "destroy"
        /\ thread'[d].pc \in {"destroy", "flushing"} =>
             thread[d].pc = thread'[d].pc /\ thread'[d].err = thread[d].err
    BY <1>3, <1>7 DEF Telling, Flushing
  <2>3. CASE d = c
    BY <1>5, <1>6, <2>1, <2>2, <2>3 DEF ToldOK, Rested
  <2>4. CASE d # c
    <3>1. ASSUME NEW u \in Datasets, Failing(u, d)
          PROVE  Failing(u, d)'
      <4>1. thread'[u] = thread[u]
        BY <1>5, <1>7, <2>4, <3>1 DEF Failing
      <4> QED
        BY <3>1, <4>1 DEF Failing, At, First
    <3> QED
      BY <1>4, <1>6, <2>1, <2>2, <2>4, <3>1 DEF ToldOK
  <2> QED
    BY <2>3, <2>4
<1> QED
  BY <1>8, <1>9, <1>10 DEF Close

(* FlushCache reports the error it finds, before it starts.                *)
LEMMA FlushCacheClose ==
  ASSUME Sound, Close, NEW t \in Datasets, NEW kind \in Flushing, FlushCache(t, kind)
  PROVE  Close'
<1> DEFINE old == thread[t]
           r == Locals("flushing", kind, old.pos, old.mine, old.victim, old.togo, old.counted,
                       old.again, old.err, old.ops + (IF kind = "flush" THEN 1 ELSE 0))
<1>1. LocalOK(t, old) /\ Typed /\ Control /\ Places /\ ToldOK(t)
  BY LocalNow DEF Sound, Close
<1>2. old.pc = (IF kind = "destroy" THEN "destroy" ELSE "idle") /\ Becomes(t, r)
  BY <1>1, FlushCacheStep
<1>r. Becomes(t, r)
  BY <1>2
<1>3. r.pc = "flushing" /\ r.kind = kind /\ r.err = old.err
  BY DEF Locals
<1> HIDE DEF r
<1>4. NoneOut /\ (\A d \in Datasets : SlotsOut(d)) /\ UNCHANGED slot
  BY <1>1, FlushCachePlaces DEF NoneOut, SameHands, SlotsOut, FlushCache, cache
<1>5. ~old.err
  BY <1>1, <1>2 DEF LocalOK, CountOf, ToldOK
<1>6. /\ \A d \in Datasets \ {t} : unreported'[d] = unreported[d] /\ flushErr'[d] = flushErr[d]
      /\ ~flushErr'[t] /\ (unreported'[t] => unreported[t] /\ ~flushErr[t])
  <2>1. CASE flushErr[t]
    BY <1>1, <2>1 DEF FlushCache, Report, Typed
  <2>2. CASE ~flushErr[t]
    BY <1>1, <2>2 DEF FlushCache
  <2> QED
    BY <2>1, <2>2
<1>7. thread'[t] = r
  BY <1>1, <1>r, Others
<1>8. LoopOK(t)'
  BY <1>3, <1>7 DEF LoopOK, InFlush, Freeing
<1>9. LeftOK(t)'
  <2>1. SUFFICES ASSUME kind = "destroy" PROVE Emptied(t)'
    BY <1>3, <1>7 DEF LeftOK, Rested, At
  <2>2. Rested(t) /\ Emptied(t)
    BY <1>2, <2>1 DEF Rested, At, Close, LeftOK
  <2> QED
    BY <1>4, <2>2, EmptyStays
<1>10. ToldOK(t)'
  <2>1. \A u \in Datasets : Failing(u, t) => Failing(u, t)'
    BY <1>2, <1>r, FailingStays
  <2>2. unreported'[t] => \E u \in Datasets : Failing(u, t)
    BY <1>1, <1>5, <1>6 DEF ToldOK, Telling
  <2>3. kind = "destroy" => ~unreported'[t]
    <3>1. SUFFICES ASSUME kind = "destroy", NEW u \in Datasets, Failing(u, t) PROVE FALSE
      BY <2>2
    <3>2. Rested(t)
      BY <1>2, <3>1 DEF Rested, At
    <3>3. thread[u].pc = "failed" /\ thread[u].togo # <<>> /\ First(u)[1] = t
      BY <1>1, <3>1, LocalNow DEF Failing, At, LocalOK, HandOf
    <3> QED
      BY <3>2, <3>3, FirstOpen
  <2> QED
    BY <1>3, <1>5, <1>6, <1>7, <2>1, <2>2, <2>3 DEF ToldOK
<1> QED
  BY <1>2, <1>r, <1>4, <1>6, <1>8, <1>9, <1>10, OthersClose DEF Close

LEMMA FlushBlocksClose ==
  ASSUME Sound, Close, NEW t \in Datasets, FlushBlocks(t)
  PROVE  Close'
<1> DEFINE old == thread[t]
           R(j) == Locals(IF j \in Positions THEN "take" ELSE "wait", old.kind, j, NoBlock,
                          old.victim, <<>>, old.counted, old.again, flushErr[t], old.ops)
<1>1. LocalOK(t, old) /\ Typed /\ Control /\ Places
  BY LocalNow DEF Sound
<1>2. PICK j : old.pc = "flushing" /\ NextSlot(t, 1, j) /\ Becomes(t, R(j))
  BY <1>1, FlushBlocksStep
<1> DEFINE r == R(j)
<1>r. Becomes(t, r)
  BY <1>2
<1>3. /\ r.pc = IF j \in Positions THEN "take" ELSE "wait"
      /\ r.kind = old.kind /\ r.pos = j /\ r.err = flushErr[t]
  BY DEF Locals
<1> HIDE DEF r
<1>4. NoneOut /\ (\A d \in Datasets : SlotsOut(d)) /\ UNCHANGED <<slot, flushErr, unreported>>
  BY <1>1, FlushBlocksPlaces DEF NoneOut, SameHands, SlotsOut, FlushBlocks, history
<1>5. thread'[t] = r
  BY <1>1, <1>r, Others
<1>6. \A k \in Positions : k < j \/ j \notin Positions => slot[t][k] = NoBlock
  BY <1>2, CacheAssumption, FS_CardinalityType DEF NextSlot
<1>7. old.kind = "destroy" => j \notin Positions
  BY <1>2 DEF Close, LeftOK, Rested, Emptied, InSlot, NextSlot, Ids, NoBlock, Sound, Typed
<1>8. LoopOK(t)'
  BY <1>3, <1>4, <1>5, <1>6, <1>7 DEF LoopOK
<1>9. LeftOK(t)'
  <2>1. SUFFICES ASSUME old.kind = "destroy" PROVE Emptied(t)'
    BY <1>3, <1>5 DEF LeftOK, Rested, At
  <2>2. Rested(t) /\ Emptied(t)
    BY <2>1 DEF Rested, Close, LeftOK
  <2> QED
    BY <1>4, <2>2, EmptyStays
<1>10. ToldOK(t)'
  <2>1. \A u \in Datasets : Failing(u, t) => Failing(u, t)'
    BY <1>2, <1>r, FailingStays
  <2>2. ToldOK(t) /\ ~Telling(t)
    BY <1>2 DEF Close, ToldOK, Telling
  <2> QED
    BY <1>3, <1>4, <1>5, <2>1, <2>2 DEF ToldOK
<1> QED
  BY <1>2, <1>r, <1>4, <1>8, <1>9, <1>10, OthersClose DEF Close
(* FlushCache tells its caller of the blocks it could not write; in the    *)
(* destructor nobody listens, but then there is nothing left to tell.      *)
LEMMA FlushedClose ==
  ASSUME Sound, Count, Close, NEW t \in Datasets, Flushed(t), thread[t].kind = "flush"
  PROVE  Close'
<1> DEFINE old == thread[t]
           r == Locals("idle", IF old.kind = "flush" THEN "flush" ELSE "none", 0, NoBlock,
                       NoVictim, <<>>, FALSE, FALSE, FALSE, old.ops)
<1>1. Typed /\ Control /\ Places
  BY DEF Sound
<1>2. old.pc = "wait" /\ old.kind = "flush" /\ Becomes(t, r)
  BY <1>1, FlushedStep
<1>r. Becomes(t, r)
  BY <1>2
<1>3. r.pc = "idle" /\ r.kind = "flush" /\ r.err = FALSE
  BY <1>2 DEF Locals
<1> HIDE DEF r
<1>4. SameHands
  BY <1>1, FlushedPlaces
<1>5. /\ keepAlive[t] = 0 /\ slot' = slot /\ flushErr' = flushErr
      /\ unreported' = [unreported EXCEPT ![t] = @ /\ ~old.err]
  BY <1>2 DEF Flushed
<1>6. /\ \A d \in Datasets \ {t} : unreported'[d] = unreported[d]
      /\ unreported'[t] => unreported[t] /\ ~old.err
  <2>1. PICK m : m = old.err
    OBVIOUS
  <2> QED
    BY <1>1, <1>5, <2>1 DEF Typed
<1> QED
  BY <1>2, <1>r, <1>3, <1>4, <1>5, <1>6, CloseEnd

LEMMA ClosedClose ==
  ASSUME Sound, Count, Close, NEW t \in Datasets, Flushed(t), thread[t].kind = "close"
  PROVE  Close'
<1> DEFINE old == thread[t]
           r == Locals("destroy", "close", 0, NoBlock, NoVictim, <<>>, FALSE, FALSE, FALSE, 0)
<1>1. Typed /\ Control /\ Places
  BY DEF Sound
<1>2. old.pc = "wait" /\ old.kind = "close" /\ Becomes(t, r)
  BY <1>1, ClosedStep
<1>r. Becomes(t, r)
  BY <1>2
<1>3. r.pc = "destroy" /\ r.kind = "close" /\ r.err = FALSE
  BY DEF Locals
<1> HIDE DEF r
<1>4. SameHands
  BY <1>1, ClosedPlaces
<1>5. /\ keepAlive[t] = 0 /\ slot' = slot /\ flushErr' = flushErr
      /\ unreported' = [unreported EXCEPT ![t] = @ /\ ~old.err]
  BY <1>2 DEF Flushed
<1>6. /\ \A d \in Datasets \ {t} : unreported'[d] = unreported[d]
      /\ unreported'[t] => unreported[t] /\ ~old.err
  <2>1. PICK m : m = old.err
    OBVIOUS
  <2> QED
    BY <1>1, <1>5, <2>1 DEF Typed
<1> QED
  BY <1>2, <1>r, <1>3, <1>4, <1>5, <1>6, CloseEnd

LEMMA DestroyedClose ==
  ASSUME Sound, Count, Close, NEW t \in Datasets, Flushed(t), thread[t].kind = "destroy"
  PROVE  Close'
<1> DEFINE old == thread[t]
           r == Locals("closed", "destroy", 0, NoBlock, NoVictim, <<>>, FALSE, FALSE, FALSE, 0)
<1>1. Typed /\ Control /\ Places
  BY DEF Sound
<1>2. old.pc = "wait" /\ old.kind = "destroy" /\ Becomes(t, r)
  BY <1>1, DestroyedStep
<1>r. Becomes(t, r)
  BY <1>2
<1>3. r.pc = "closed" /\ r.kind = "destroy" /\ r.err = FALSE
  BY DEF Locals
<1> HIDE DEF r
<1>4. SameHands
  BY <1>1, DestroyedPlaces
<1>5. keepAlive[t] = 0 /\ slot' = slot /\ flushErr' = flushErr /\ unreported' = unreported
  BY <1>2 DEF Flushed
<1> QED
  BY <1>2, <1>r, <1>3, <1>4, <1>5, CloseEnd
-----------------------------------------------------------------------------
(***************************************************************************)
(* Every behaviour closes its datasets in order.                           *)
(***************************************************************************)
LEMMA CloseInit ==
  ASSUME Init
  PROVE  Close
<1>1. \A t \in Datasets : thread[t] = Idle /\ ~flushErr[t] /\ ~unreported[t]
  BY DEF Init
<1> QED
  BY <1>1 DEF Idle, Close, LoopOK, LeftOK, ToldOK, Rested, Telling, At, InFlush, Freeing, Flushing

LEMMA CloseRequest ==
  ASSUME Sound, Close, NEW t \in Datasets, Request(t)
  PROVE  Close'
<1>1. CASE \E kind \in {"read", "write", "update"}, i \in Positions : RasterIO(t, kind, i)
  <2>1. PICK kind \in Requests, i \in Positions : RasterIO(t, kind, i)
    BY <1>1 DEF Requests
  <2>2. CASE kind # "read" /\ flushErr[t]
    BY <2>1, <2>2, RefuseClose
  <2>3. CASE kind = "read" \/ ~flushErr[t]
    BY <2>1, <2>3, RequestClose
  <2> QED
    BY <2>2, <2>3
<1>2. CASE FlushCacheBlock(t)
  BY <1>2, EvictClose
<1>3. CASE FlushCache(t, "flush")
  BY <1>3, FlushCacheClose DEF Flushing
<1> QED
  BY <1>1, <1>2, <1>3 DEF Request

LEMMA CloseQuiet ==
  ASSUME Close, Quiet
  PROVE  Close'
<1> USE DEF Quiet, band, history
<1>1. \A d, b : (Evicted(d, b)' <=> Evicted(d, b)) /\ (InSlot(d, b)' <=> InSlot(d, b))
  BY DEF Evicted, Held, HandsOf, First, InSlot
<1>2. \A u, d : Failing(u, d)' <=> Failing(u, d)
  BY DEF Failing, At, First
<1> QED
  BY <1>1, <1>2 DEF Close, LoopOK, LeftOK, Rested, Emptied, ToldOK, Telling, At

LEMMA CloseRun ==
  ASSUME Sound, Count, Close, NEW t \in Datasets, Run(t)
  PROVE  Close'
<1>1. CASE WaitPending(t) \/ EnterReadWrite(t) \/ Lookup(t) \/ AddLock(t) \/ TakeLockFails(t)
           \/ LeaveReadWrite(t) \/ CreateBlock(t) \/ Internalize(t)
  BY <1>1, WaitPendingClose, EnterClose, LookupClose, AddLockClose, TakeLockFailsClose,
    LeaveClose, CreateClose, InternalizeClose
<1>2. CASE Use(t)
  BY <1>2, UseReadClose, UseClose
<1>3. CASE (\E full \in BOOLEAN : Unreference(t, full)) \/ CountDown(t) \/ Malloc(t) \/ Adopt(t)
           \/ FlushBlocks(t) \/ Delete(t) \/ IWriteBlock(t)
  BY <1>3, UnreferenceClose, CountDownClose, MallocClose, AdoptClose, FlushBlocksClose,
    DeleteClose, IWriteClose
<1>4. CASE (\E x \in AllBlocks : Pass(t, x) \/ Claim(t, x)) \/ Rescan(t)
  BY <1>4, ClaimClose, LooksOn, CloseQuiet
<1>5. CASE Touch(t)
  BY <1>5, TouchKeepClose, TouchPutClose
<1>6. CASE Write(t) \/ AddBlockToFreeList(t)
  BY <1>6, WriteClose, AddBlockClose
<1>7. CASE WriteFailed(t)
  BY <1>7, WriteFailedFlushClose, WriteFailedClose
<1>8. CASE Freed(t)
  BY <1>8, FreedEvictClose, FreedClose
<1>9. CASE Fill(t)
  BY <1>9, FillStep, FillWholeClose, FillReadClose, FillFailsClose DEF Sound
<1>10. CASE FlushCache(t, "close") \/ FlushCache(t, "destroy")
  BY <1>10, FlushCacheClose DEF Flushing
<1>11. CASE Take(t)
  BY <1>11, TakeClose, TakeLeaveClose, TakeNextClose
<1>12. CASE DropLockForRemoval(t)
  BY <1>12, DropLockClose, DropLockEvictedClose
<1>13. CASE WaitEviction(t)
  BY <1>13, WaitEvictionLeaveClose, WaitEvictionClose
<1>14. CASE Remove(t)
  <2>1. CASE Mine(t).dirty /\ ~thread[t].err
    <3>1. thread[t].pc = "remove" /\ thread[t].kind \in Requests \cup Flushing
      BY <1>14, LocalNow DEF Sound, Remove, At, LocalOK, KindOf
    <3>2. thread[t].kind \in Flushing
      BY <2>1, <3>1 DEF Sound, Places, Mine1, Mine
    <3> QED
      BY <1>14, <2>1, <3>2, RemoveWriteClose
  <2>2. CASE ~(Mine(t).dirty /\ ~thread[t].err)
    BY <1>14, <2>2, RemoveLeaveClose, RemoveNextClose
  <2> QED
    BY <2>1, <2>2
<1>15. CASE Flushed(t)
  <2>1. thread[t].kind \in Flushing
    BY <1>15, LocalNow DEF Sound, Flushed, At, LocalOK, KindOf
  <2> QED
    BY <1>15, <2>1, FlushedClose, ClosedClose, DestroyedClose DEF Flushing
<1> QED
  BY <1>1, <1>2, <1>3, <1>4, <1>5, <1>6, <1>7, <1>8, <1>9, <1>10, <1>11, <1>12, <1>13,
    <1>14, <1>15 DEF Run

LEMMA AlwaysClose ==
  Spec => [](Sound /\ Count /\ Close)
<1>1. Init => Close
  BY CloseInit
<1>2. Sound /\ Count /\ Close /\ [Next]_vars => Close'
  <2>1. ASSUME Sound, Count, Close, Next
        PROVE  Close'
    BY <2>1, CloseRequest, CloseRun DEF Next
  <2> QED
    BY <2>1, LooksOn, CloseQuiet
<1> QED
  BY <1>1, <1>2, AlwaysCount, PTL DEF Spec

(* A dataset is closed when every block of it is written or the failure is *)
(* reported to its owner, whoever it was that tried to write it.           *)
THEOREM ErrorsToldHolds ==
  Spec => []ErrorsTold
<1>1. Sound /\ Close => ErrorsTold
  BY LocalNow DEF Sound, Close, ToldOK, ErrorsTold, At, LocalOK, KindOf
<1> QED
  BY <1>1, AlwaysClose, PTL
-----------------------------------------------------------------------------
(***************************************************************************)
(* What a block holds, and what the file holds of the blocks that are not  *)
(* in the cache.                                                           *)
(***************************************************************************)
(* A block is pending from the moment the application writes in it to the  *)
(* moment the file has it, and unfilled until it has been read or written. *)
Writing(d, b) == \E u \in Datasets : At(u, "iwrite") /\ First(u) = <<d, b>>
Pending(d, b) == block[d][b].live /\ (block[d][b].dirty \/ Writing(d, b))
Unfilled(d, b) ==
  /\ thread[d].mine = b
  /\ \/ At(d, "fill")
     \/ At(d, "use") /\ thread[d].kind = "write"
     \/ At(d, "take") /\ thread[d].kind \in Requests

ValuesOK(d) ==
  Reliable(d) =>
    /\ \A b \in Ids : Pending(d, b) => block[d][b].val = written[d][block[d][b].pos]
    /\ \A i \in Positions :
         (\A b \in Ids : Pending(d, b) => block[d][b].pos # i) => disk[d][i] = written[d][i]
    /\ \A i \in Positions : \A b \in Ids : slot[d][i] = b =>
         /\ ~Works(d, b, {"fill"}) =>
              \A c \in Ids \ {b} : Pending(d, c) => block[d][c].pos # i
         /\ ~Pending(d, b) /\ ~Unfilled(d, b) => block[d][b].val = written[d][i]

CleanHand(t) == thread[t].pc \in {"iwrite", "failed", "giveback"} => ~The(First(t)).dirty
Retaken(t) ==
  At(t, "take") /\ thread[t].kind \in Requests =>
    /\ thread[t].mine \in Ids
    /\ \A i \in Positions : slot[t][i] = thread[t].mine => i = thread[t].pos
Faultless ==
  "write" \notin faults =>
    \A t \in Datasets : ~flushErr[t] /\ ~thread[t].err /\ ~At(t, "failed")

Data == Faultless /\ \A t \in Datasets : CleanHand(t) /\ Retaken(t) /\ ValuesOK(t)
-----------------------------------------------------------------------------
(* Who writes a block has it in his hands.                                 *)
LEMMA WritingHand ==
  ASSUME Sound, NEW u \in Datasets, At(u, "iwrite"), NEW d, NEW b, First(u) = <<d, b>>
  PROVE  /\ d \in Datasets /\ b \in Ids
         /\ IF thread[u].kind \in Flushing THEN u = d /\ thread[d].mine = b /\ Own(d, b)
            ELSE <<d, b>> \in Held(u)
<1>1. CASE thread[u].kind \in Flushing
  <2>1. First(u) = <<u, thread[u].mine>> /\ thread[u].mine \in Ids
    BY <1>1, LocalNow DEF Sound, LocalOK, HandOf, MineOf, Freeing, First, At
  <2> QED
    BY <1>1, <2>1 DEF At, Own, Owned
<1>2. CASE thread[u].kind \notin Flushing
  <2>1. thread[u].togo # <<>>
    BY LocalNow DEF Sound, LocalOK, HandOf, At
  <2>2. First(u) \in AllBlocks /\ First(u) \in Held(u)
    BY <1>2, <2>1, FirstHand DEF Sound, Freeing, At
  <2> QED
    BY <1>2, <2>2 DEF AllBlocks
<1> QED
  BY <1>1, <1>2

LEMMA WritingOut ==
  ASSUME Sound, NEW d \in Datasets, NEW b \in Ids, Writing(d, b)
  PROVE  Evicted(d, b) \/ Own(d, b)
<1>1. PICK u \in Datasets : At(u, "iwrite") /\ First(u) = <<d, b>>
  BY DEF Writing
<1> QED
  BY <1>1, WritingHand DEF Evicted

LEMMA FreeNotWriting ==
  ASSUME Sound, NEW d \in Datasets, NEW b \in Ids, b \in freeList[d] \/ ~block[d][b].live
  PROVE  ~Pending(d, b) /\ ~Writing(d, b)
<1>1. BlockOK(d, b)
  BY DEF Sound, Places
<1>2. ~Evicted(d, b) /\ ~Own(d, b) /\ (block[d][b].live => ~block[d][b].dirty)
  BY <1>1 DEF BlockOK, Dead, GivenBack
<1> QED
  BY <1>2, WritingOut DEF Pending

(* A thread that neither begins nor ends to write a block.                 *)
LEMMA WritingFrame ==
  ASSUME Sound, NEW t \in Datasets, NEW r, Becomes(t, r),
         thread[t].pc # "iwrite", r.pc # "iwrite"
  PROVE  \A d, b : Writing(d, b)' <=> Writing(d, b)
<1>1. ASSUME NEW u \in Datasets
      PROVE  At(u, "iwrite")' <=> At(u, "iwrite")
  BY Others DEF Sound, At
<1>2. ASSUME NEW u \in Datasets, At(u, "iwrite")
      PROVE  First(u)' = First(u)
  <2>1. thread'[u] = thread[u]
    BY <1>2, Others DEF Sound, At
  <2> QED
    BY <2>1 DEF First
<1> QED
  BY <1>1, <1>2 DEF Writing

(* A band whose blocks keep what they hold.                                *)
LEMMA ValuesFrame ==
  ASSUME Typed, NEW d \in Datasets, ValuesOK(d), Reliable(d)' => Reliable(d),
         disk'[d] = disk[d], written'[d] = written[d], SlotsOut(d),
         \A b \in Ids : Pending(d, b)' <=> Pending(d, b),
         \A b \in Ids : Pending(d, b) \/ InSlot(d, b)' =>
           block'[d][b].pos = block[d][b].pos /\ block'[d][b].val = block[d][b].val,
         \A b \in Ids : InSlot(d, b)' =>
           (Unfilled(d, b) => Unfilled(d, b)') /\ (Works(d, b, {"fill"}) => Works(d, b, {"fill"})')
  PROVE  ValuesOK(d)'
<1>1. SUFFICES ASSUME Reliable(d)' PROVE ValuesOK(d)'
  BY DEF ValuesOK
<1>2. \A b \in Ids : Pending(d, b)' => block'[d][b].val = written'[d][block'[d][b].pos]
  BY <1>1 DEF ValuesOK
<1>3. ASSUME NEW i \in Positions, \A b \in Ids : Pending(d, b)' => block'[d][b].pos # i
      PROVE  disk'[d][i] = written'[d][i]
  BY <1>1, <1>3 DEF ValuesOK
<1>4. ASSUME NEW i \in Positions, NEW b \in Ids, slot'[d][i] = b
      PROVE  /\ ~Works(d, b, {"fill"})' =>
                  \A c \in Ids \ {b} : Pending(d, c)' => block'[d][c].pos # i
             /\ ~Pending(d, b)' /\ ~Unfilled(d, b)' => block'[d][b].val = written'[d][i]
  <2>1. slot[d][i] = b /\ InSlot(d, b)'
    BY <1>4 DEF SlotsOut, InSlot, Ids, NoBlock
  <2>2. ~Works(d, b, {"fill"})' => \A c \in Ids \ {b} : Pending(d, c) => block[d][c].pos # i
    BY <1>1, <2>1 DEF ValuesOK
  <2>3. ~Pending(d, b) /\ ~Unfilled(d, b)' => block[d][b].val = written[d][i]
    BY <1>1, <2>1 DEF ValuesOK
  <2> QED
    BY <2>1, <2>2, <2>3
<1> QED
  BY <1>2, <1>3, <1>4 DEF ValuesOK

(* What a step keeps of a block, unless it is one that nobody needs.       *)
SameData(d, b) ==
  /\ block'[d][b].live = block[d][b].live /\ block'[d][b].dirty = block[d][b].dirty
  /\ block'[d][b].pos = block[d][b].pos /\ block'[d][b].val = block[d][b].val
Blanked(d, b) ==
  ~Pending(d, b) /\ ~Writing(d, b) /\ ~block'[d][b].dirty /\ ~InSlot(d, b)'
Alike(d) == \A b \in Ids : SameData(d, b) \/ Blanked(d, b)

LEMMA AlikeValues ==
  ASSUME Typed, NEW d \in Datasets, ValuesOK(d), Reliable(d)' => Reliable(d),
         disk'[d] = disk[d], written'[d] = written[d], SlotsOut(d), Alike(d),
         \A b \in Ids : Writing(d, b)' <=> Writing(d, b),
         \A b \in Ids : InSlot(d, b)' =>
           (Unfilled(d, b) => Unfilled(d, b)') /\ (Works(d, b, {"fill"}) => Works(d, b, {"fill"})')
  PROVE  ValuesOK(d)'
<1>1. ASSUME NEW b \in Ids
      PROVE  /\ Pending(d, b)' <=> Pending(d, b)
             /\ Pending(d, b) \/ InSlot(d, b)' =>
                  block'[d][b].pos = block[d][b].pos /\ block'[d][b].val = block[d][b].val
  <2>1. CASE SameData(d, b)
    BY <2>1 DEF SameData, Pending
  <2>2. CASE Blanked(d, b)
    BY <2>2 DEF Blanked, Pending
  <2> QED
    BY <2>1, <2>2 DEF Alike
<1> QED
  BY <1>1, ValuesFrame

(* The other threads and their bands.                                      *)
LEMMA OthersValues ==
  ASSUME Sound, Data, NEW t \in Datasets, NEW r, Becomes(t, r), NEW d \in Datasets \ {t},
         faults' = faults, raced'[d] = raced[d], disk'[d] = disk[d], written'[d] = written[d],
         SlotsOut(d), Alike(d), \A b \in Ids : Writing(d, b)' <=> Writing(d, b)
  PROVE  ValuesOK(d)' /\ Retaken(d)'
<1>1. thread'[d] = thread[d] /\ ValuesOK(d) /\ Retaken(d) /\ Typed
  BY Others DEF Sound, Data
<1>2. Reliable(d)' => Reliable(d)
  BY DEF Reliable
<1>3. \A b \in Ids : (Unfilled(d, b)' <=> Unfilled(d, b))
                     /\ (Works(d, b, {"fill"})' <=> Works(d, b, {"fill"}))
  BY <1>1 DEF Unfilled, Works, At
<1>4. ValuesOK(d)'
  BY <1>1, <1>2, <1>3, AlikeValues
<1>5. Retaken(d)'
  <2>1. ASSUME At(d, "take"), thread[d].kind \in Requests
        PROVE  /\ thread[d].mine \in Ids
               /\ \A i \in Positions : slot'[d][i] = thread[d].mine => i = thread[d].pos
    <3>1. thread[d].mine \in Ids
      BY <1>1, <2>1 DEF Retaken
    <3> QED
      BY <1>1, <2>1, <3>1 DEF Retaken, SlotsOut, Ids, NoBlock
  <2> QED
    BY <1>1, <2>1 DEF Retaken, At
<1> QED
  BY <1>4, <1>5

LEMMA OthersHand ==
  ASSUME Sound, Data, NEW t \in Datasets, NEW r, Becomes(t, r), NEW u \in Datasets \ {t},
         \A d \in Datasets : \A b \in Ids :
           First(u) = <<d, b>> /\ thread[u].pc \in {"iwrite", "failed", "giveback"} =>
             block'[d][b].dirty = block[d][b].dirty \/ ~block'[d][b].dirty
  PROVE  CleanHand(u)'
<1>1. thread'[u] = thread[u] /\ CleanHand(u)
  BY Others DEF Sound, Data
<1>2. SUFFICES ASSUME thread[u].pc \in {"iwrite", "failed", "giveback"} PROVE ~The(First(u))'.dirty
  BY <1>1 DEF CleanHand
<1>3. First(u)' = First(u)
  BY <1>1 DEF First
<1>4. thread[u].togo # <<>> /\ thread[u].togo \in Seq(AllBlocks)
  BY <1>2, LocalNow DEF Sound, LocalOK, HandOf, Threads
<1>5. First(u) \in AllBlocks
  BY <1>4, TogoTail, LocalNow DEF First, Sound, LocalOK, HandOf
<1>6. PICK d \in Datasets, b \in Ids : First(u) = <<d, b>>
  BY <1>5, Pairs
<1> QED
  BY <1>1, <1>2, <1>3, <1>6 DEF CleanHand, The

LEMMA FaultlessFrame ==
  ASSUME Sound, Faultless, NEW t \in Datasets, NEW r, Becomes(t, r), faults' = faults,
         "write" \notin faults => r.pc # "failed", r.err => thread[t].err \/ flushErr[t],
         \A d \in Datasets : flushErr'[d] => flushErr[d]
  PROVE  Faultless'
<1>1. thread'[t] = r /\ \A u \in Datasets \ {t} : thread'[u] = thread[u]
  BY Others DEF Sound
<1> QED
  BY <1>1 DEF Faultless, At

(* A step that writes nothing and reads nothing.                           *)
LEMMA DataFrame ==
  ASSUME Sound, Data, NEW t \in Datasets, NEW r, Becomes(t, r),
         UNCHANGED <<faults, disk, written, raced>>,
         thread[t].pc # "iwrite", r.pc \notin {"iwrite", "failed", "giveback"},
         r.pc = "take" => r.kind \notin Requests,
         r.err => thread[t].err \/ flushErr[t], \A d \in Datasets : flushErr'[d] => flushErr[d],
         \A d \in Datasets : SlotsOut(d) /\ Alike(d),
         \A b \in Ids : InSlot(t, b)' => ~Unfilled(t, b) /\ ~Works(t, b, {"fill"})
  PROVE  Data'
<1>1. thread'[t] = r /\ Typed /\ ValuesOK(t)
  BY Others DEF Sound, Data
<1>2. \A d, b : Writing(d, b)' <=> Writing(d, b)
  BY WritingFrame
<1>3. \A u \in Datasets \ {t} : ValuesOK(u)' /\ Retaken(u)'
  BY <1>2, OthersValues
<1>4. \A u \in Datasets \ {t} : CleanHand(u)'
  <2>1. \A d \in Datasets : \A b \in Ids :
          block'[d][b].dirty = block[d][b].dirty \/ ~block'[d][b].dirty
    BY DEF Alike, SameData, Blanked
  <2> QED
    BY <2>1, OthersHand
<1>5. Faultless'
  BY FaultlessFrame DEF Data
<1>6. CleanHand(t)' /\ Retaken(t)'
  BY <1>1 DEF CleanHand, Retaken, At
<1>7. ValuesOK(t)'
  <2>1. Reliable(t)' => Reliable(t)
    BY DEF Reliable
  <2> QED
    BY <1>1, <1>2, <2>1, AlikeValues
<1> QED
  BY <1>3, <1>4, <1>5, <1>6, <1>7 DEF Data
-----------------------------------------------------------------------------
(* The edits the steps make.                                               *)
LEMMA KeptAlike ==
  ASSUME UNCHANGED block
  PROVE  \A d \in Datasets : Alike(d)
  BY DEF Alike, SameData

LEMMA EditAlike ==
  ASSUME Typed, NEW d \in Datasets, NEW b \in Ids, NEW e,
         block' = [block EXCEPT ![d][b] = e],
         e.live = block[d][b].live, e.dirty = block[d][b].dirty,
         e.pos = block[d][b].pos, e.val = block[d][b].val
  PROVE  \A c \in Datasets : Alike(c)
<1>1. /\ block'[d][b] = e /\ block[d][b] \in Entries
      /\ \A c \in Ids \ {b} : block'[d][c] = block[d][c]
      /\ \A c \in Datasets \ {d} : block'[c] = block[c]
  BY EditBlock
<1>2. ASSUME NEW c \in Datasets, NEW a \in Ids
      PROVE  SameData(c, a)
  <2>1. CASE c = d /\ a = b
    BY <1>1, <2>1 DEF SameData
  <2>2. CASE c # d \/ a # b
    <3>1. block'[c][a] = block[c][a]
      BY <1>1, <2>2
    <3> QED
      BY <3>1 DEF SameData
  <2> QED
    BY <2>1, <2>2
<1> QED
  BY <1>2 DEF Alike

LEMMA BlankAlike ==
  ASSUME Typed, NEW d \in Datasets, NEW b \in Ids, NEW e,
         block' = [block EXCEPT ![d][b] = e], ~e.dirty,
         ~Pending(d, b), ~Writing(d, b), ~InSlot(d, b)'
  PROVE  \A c \in Datasets : Alike(c)
<1>1. /\ block'[d][b] = e /\ block[d][b] \in Entries
      /\ \A c \in Ids \ {b} : block'[d][c] = block[d][c]
      /\ \A c \in Datasets \ {d} : block'[c] = block[c]
  BY EditBlock
<1>2. ASSUME NEW c \in Datasets, NEW a \in Ids
      PROVE  SameData(c, a) \/ Blanked(c, a)
  <2>1. CASE c = d /\ a = b
    BY <1>1, <2>1 DEF Blanked
  <2>2. CASE c # d \/ a # b
    <3>1. block'[c][a] = block[c][a]
      BY <1>1, <2>2
    <3> QED
      BY <3>1 DEF SameData
  <2> QED
    BY <2>1, <2>2
<1> QED
  BY <1>2 DEF Alike

(* The dangling blocks that are freed hold nothing.                        *)
LEMMA RowAlike ==
  ASSUME Sound, NEW t \in Datasets, block' = [block EXCEPT ![t] = Dangling(t, @)],
         \A b \in freeList[t] : ~InSlot(t, b)'
  PROVE  \A d \in Datasets : Alike(d)
<1>1. ASSUME NEW b \in Ids
      PROVE  SameData(t, b) \/ Blanked(t, b)
  <2>1. block'[t][b] = IF b \in freeList[t] THEN Deleted ELSE block[t][b]
    BY DEF Sound, Typed, Dangling
  <2>2. CASE b \in freeList[t]
    BY <2>1, <2>2, FreeNotWriting DEF Blanked, Deleted
  <2>3. CASE b \notin freeList[t]
    BY <2>1, <2>3 DEF SameData
  <2> QED
    BY <2>2, <2>3
<1>2. ASSUME NEW d \in Datasets \ {t}, NEW b \in Ids
      PROVE  SameData(d, b)
  <2>1. block'[d] = block[d]
    BY DEF Sound, Typed
  <2> QED
    BY <2>1 DEF SameData
<1> QED
  BY <1>1, <1>2 DEF Alike

LEMMA FreeNotSlotted ==
  ASSUME Sound, NEW t \in Datasets, NEW b \in Ids, b \in freeList[t] \/ ~block[t][b].live
  PROVE  ~InSlot(t, b)
  BY DEF Sound, Places, BlockOK, Dead, Slotted, InSlot

(* What its thread removes is in no slot, and written, or was never        *)
(* dirty.                                                                  *)
LEMMA RemovedBlank ==
  ASSUME Sound, NEW t \in Datasets, thread[t].pc \in {"remove", "delete"},
         thread[t].pc = "remove" => ~Mine(t).dirty
  PROVE  /\ thread[t].mine \in Ids
         /\ ~Pending(t, thread[t].mine) /\ ~Writing(t, thread[t].mine) /\ ~InSlot(t, thread[t].mine)
<1>1. PICK b \in Ids : b = thread[t].mine
  BY LocalNow DEF Sound, LocalOK, MineOf
<1>2. Mine1(t) /\ BlockOK(t, b) /\ Own(t, b)
  BY <1>1 DEF Sound, Places, Own, Owned
<1>3. ~InSlot(t, b) /\ ~block[t][b].dirty
  <2>1. CASE thread[t].pc = "remove"
    BY <1>1, <1>2, <2>1 DEF Mine1, Mine
  <2>2. CASE thread[t].pc = "delete"
    <3>1. Flusher(t)
      BY <2>2, LocalNow DEF Sound, LocalOK, KindOf, Flusher
    <3> QED
      BY <1>1, <1>2, <2>2, <3>1 DEF Mine1
  <2> QED
    BY <2>1, <2>2
<1>4. ~Writing(t, b)
  <2>1. SUFFICES ASSUME NEW u \in Datasets, At(u, "iwrite"), First(u) = <<t, b>> PROVE FALSE
    BY DEF Writing
  <2>2. u = t \/ <<t, b>> \in Held(u)
    BY <2>1, WritingHand
  <2>3. u # t
    BY <2>1 DEF At
  <2> QED
    BY <1>2, <2>2, <2>3 DEF BlockOK, OutOfList, Evicted
<1> QED
  BY <1>1, <1>3, <1>4 DEF Pending
-----------------------------------------------------------------------------
(***************************************************************************)
(* Steps that neither write nor read.                                      *)
(***************************************************************************)
LEMMA RefuseData ==
  ASSUME Sound, Data, NEW t \in Datasets, NEW kind \in Requests, NEW i \in Positions,
    RasterIO(t, kind, i), kind # "read", flushErr[t]
  PROVE  Data'
<1> DEFINE old == thread[t]
<1>1. LocalOK(t, old) /\ Typed /\ Control /\ Places
  BY LocalNow DEF Sound
<1> DEFINE r == Locals(old.pc, kind, old.pos, old.mine, old.victim, old.togo, old.counted,
  old.again, old.err, old.ops + 1)
<1>2. old.pc = "idle" /\ Becomes(t, r)
  BY <1>1, RefuseStep
<1>r. Becomes(t, r)
  BY <1>2
<1>3. r.pc = old.pc /\ r.kind = kind /\ r.err = old.err
  BY DEF Locals
<1> HIDE DEF r
<1>4. /\ old.pc # "iwrite" /\ r.pc \notin {"iwrite", "failed", "giveback"}
      /\ r.pc = "take" => r.kind \notin Requests
      /\ r.err => old.err \/ flushErr[t]
  BY <1>1, <1>2, <1>3 DEF LocalOK, KindOf, MineOf, HandOf, CountOf, Requests, Flushing,
    Scanning, Freeing, Stuck
<1>5. /\ UNCHANGED <<faults, disk, written, raced>>
      /\ \A d \in Datasets : flushErr'[d] => flushErr[d]
  BY <1>1 DEF RasterIO, Report, band, history, Typed
<1>6. \A d \in Datasets : SlotsOut(d)
  BY <1>1, <1>2 DEF RasterIO, SlotsOut, Typed, cache
<1>7. \A d \in Datasets : Alike(d)
  <2>1. block' = block
    BY <1>2 DEF RasterIO, cache
  <2> QED
    BY <2>1, KeptAlike
<1>8. \A b \in Ids : InSlot(t, b)' => ~Unfilled(t, b) /\ ~Works(t, b, {"fill"})
  BY <1>1, <1>2 DEF Unfilled, Works, At, LocalOK, KindOf, MineOf, HandOf, CountOf, Requests,
    Flushing, Scanning, Freeing, Stuck
<1> QED
  BY <1>r, <1>4, <1>5, <1>6, <1>7, <1>8, DataFrame

LEMMA RequestData ==
  ASSUME Sound, Data, NEW t \in Datasets, NEW kind \in Requests, NEW i \in Positions,
    RasterIO(t, kind, i), kind = "read" \/ ~flushErr[t]
  PROVE  Data'
<1> DEFINE old == thread[t]
<1>1. LocalOK(t, old) /\ Typed /\ Control /\ Places
  BY LocalNow DEF Sound
<1> DEFINE r == Locals(IF kind = "read" THEN "pending" ELSE "enter", kind, i, old.mine,
  old.victim, old.togo, old.counted, old.again, old.err, old.ops + 1)
<1>2. old.pc = "idle" /\ Becomes(t, r)
  BY <1>1, RequestStep
<1>r. Becomes(t, r)
  BY <1>2
<1>3. r.pc = (IF kind = "read" THEN "pending" ELSE "enter") /\ r.kind = kind /\ r.err = old.err
  BY DEF Locals
<1> HIDE DEF r
<1>4. /\ old.pc # "iwrite" /\ r.pc \notin {"iwrite", "failed", "giveback"}
      /\ r.pc = "take" => r.kind \notin Requests
      /\ r.err => old.err \/ flushErr[t]
  BY <1>1, <1>2, <1>3 DEF LocalOK, KindOf, MineOf, HandOf, CountOf, Requests, Flushing,
    Scanning, Freeing, Stuck
<1>5. /\ UNCHANGED <<faults, disk, written, raced>>
      /\ \A d \in Datasets : flushErr'[d] => flushErr[d]
  BY <1>1 DEF RasterIO, band, history, Typed
<1>6. \A d \in Datasets : SlotsOut(d)
  BY <1>1, <1>2 DEF RasterIO, SlotsOut, Typed, cache
<1>7. \A d \in Datasets : Alike(d)
  <2>1. block' = block
    BY <1>2 DEF RasterIO, cache
  <2> QED
    BY <2>1, KeptAlike
<1>8. \A b \in Ids : InSlot(t, b)' => ~Unfilled(t, b) /\ ~Works(t, b, {"fill"})
  BY <1>1, <1>2 DEF Unfilled, Works, At, LocalOK, KindOf, MineOf, HandOf, CountOf, Requests,
    Flushing, Scanning, Freeing, Stuck
<1> QED
  BY <1>r, <1>4, <1>5, <1>6, <1>7, <1>8, DataFrame

LEMMA WaitPendingData ==
  ASSUME Sound, Data, NEW t \in Datasets, WaitPending(t)
  PROVE  Data'
<1> DEFINE old == thread[t]
<1>1. LocalOK(t, old) /\ Typed /\ Control /\ Places
  BY LocalNow DEF Sound
<1> DEFINE r == Locals("enter", old.kind, old.pos, old.mine, old.victim, old.togo,
  old.counted, old.again, old.err, old.ops)
<1>2. old.pc = "pending" /\ Becomes(t, r)
  BY <1>1, WaitPendingStep
<1>r. Becomes(t, r)
  BY <1>2
<1>3. r.pc = "enter" /\ r.kind = old.kind /\ r.err = old.err
  BY DEF Locals
<1> HIDE DEF r
<1>4. /\ old.pc # "iwrite" /\ r.pc \notin {"iwrite", "failed", "giveback"}
      /\ r.pc = "take" => r.kind \notin Requests
      /\ r.err => old.err \/ flushErr[t]
  BY <1>1, <1>2, <1>3 DEF LocalOK, KindOf, MineOf, HandOf, CountOf, Requests, Flushing,
    Scanning, Freeing, Stuck
<1>5. /\ UNCHANGED <<faults, disk, written, raced>>
      /\ \A d \in Datasets : flushErr'[d] => flushErr[d]
  BY <1>1 DEF WaitPending, band, history, Typed
<1>6. \A d \in Datasets : SlotsOut(d)
  BY <1>1, <1>2 DEF WaitPending, SlotsOut, Typed, cache
<1>7. \A d \in Datasets : Alike(d)
  <2>1. block' = block
    BY <1>2 DEF WaitPending, cache
  <2> QED
    BY <2>1, KeptAlike
<1>8. \A b \in Ids : InSlot(t, b)' => ~Unfilled(t, b) /\ ~Works(t, b, {"fill"})
  BY <1>1, <1>2 DEF Unfilled, Works, At, LocalOK, KindOf, MineOf, HandOf, CountOf, Requests,
    Flushing, Scanning, Freeing, Stuck
<1> QED
  BY <1>r, <1>4, <1>5, <1>6, <1>7, <1>8, DataFrame

LEMMA EnterData ==
  ASSUME Sound, Data, NEW t \in Datasets, EnterReadWrite(t)
  PROVE  Data'
<1> DEFINE old == thread[t]
<1>1. LocalOK(t, old) /\ Typed /\ Control /\ Places
  BY LocalNow DEF Sound
<1> DEFINE r == Locals( IF old.kind # "read" /\ flushErr[t] THEN "leave" ELSE "lookup",
  old.kind, old.pos, old.mine, old.victim, old.togo, old.counted, old.again, old.err,
  old.ops)
<1>2. old.pc = "enter" /\ Becomes(t, r)
  BY <1>1, EnterStep
<1>r. Becomes(t, r)
  BY <1>2
<1>3. r.pc = (IF old.kind # "read" /\ flushErr[t] THEN "leave" ELSE "lookup") /\ r.kind =
      old.kind /\ r.err = old.err
  BY DEF Locals
<1> HIDE DEF r
<1>4. /\ old.pc # "iwrite" /\ r.pc \notin {"iwrite", "failed", "giveback"}
      /\ r.pc = "take" => r.kind \notin Requests
      /\ r.err => old.err \/ flushErr[t]
  BY <1>1, <1>2, <1>3 DEF LocalOK, KindOf, MineOf, HandOf, CountOf, Requests, Flushing,
    Scanning, Freeing, Stuck
<1>5. /\ UNCHANGED <<faults, disk, written, raced>>
      /\ \A d \in Datasets : flushErr'[d] => flushErr[d]
  BY <1>1 DEF EnterReadWrite, Report, band, history, Typed
<1>6. \A d \in Datasets : SlotsOut(d)
  BY <1>1, <1>2 DEF EnterReadWrite, SlotsOut, Typed, cache
<1>7. \A d \in Datasets : Alike(d)
  <2>1. block' = block
    BY <1>2 DEF EnterReadWrite, cache
  <2> QED
    BY <2>1, KeptAlike
<1>8. \A b \in Ids : InSlot(t, b)' => ~Unfilled(t, b) /\ ~Works(t, b, {"fill"})
  BY <1>1, <1>2 DEF Unfilled, Works, At, LocalOK, KindOf, MineOf, HandOf, CountOf, Requests,
    Flushing, Scanning, Freeing, Stuck
<1> QED
  BY <1>r, <1>4, <1>5, <1>6, <1>7, <1>8, DataFrame

LEMMA LeaveData ==
  ASSUME Sound, Data, NEW t \in Datasets, LeaveReadWrite(t)
  PROVE  Data'
<1> DEFINE old == thread[t]
<1>1. LocalOK(t, old) /\ Typed /\ Control /\ Places
  BY LocalNow DEF Sound
<1> DEFINE r == Locals("idle", IF old.kind = "flush" THEN "flush" ELSE "none", 0, NoBlock,
  NoVictim, <<>>, FALSE, FALSE, FALSE, old.ops)
<1>2. old.pc = "leave" /\ Becomes(t, r)
  BY <1>1, LeaveStep
<1>r. Becomes(t, r)
  BY <1>2
<1>3. r.pc = "idle" /\ r.kind = (IF old.kind = "flush" THEN "flush" ELSE "none") /\ r.err =
      FALSE
  BY DEF Locals
<1> HIDE DEF r
<1>4. /\ old.pc # "iwrite" /\ r.pc \notin {"iwrite", "failed", "giveback"}
      /\ r.pc = "take" => r.kind \notin Requests
      /\ r.err => old.err \/ flushErr[t]
  BY <1>1, <1>2, <1>3 DEF LocalOK, KindOf, MineOf, HandOf, CountOf, Requests, Flushing,
    Scanning, Freeing, Stuck
<1>5. /\ UNCHANGED <<faults, disk, written, raced>>
      /\ \A d \in Datasets : flushErr'[d] => flushErr[d]
  BY <1>1 DEF LeaveReadWrite, band, history, Typed
<1>6. \A d \in Datasets : SlotsOut(d)
  BY <1>1, <1>2 DEF LeaveReadWrite, SlotsOut, Typed, cache
<1>7. \A d \in Datasets : Alike(d)
  <2>1. block' = block
    BY <1>2 DEF LeaveReadWrite, cache
  <2> QED
    BY <2>1, KeptAlike
<1>8. \A b \in Ids : InSlot(t, b)' => ~Unfilled(t, b) /\ ~Works(t, b, {"fill"})
  BY <1>1, <1>2 DEF Unfilled, Works, At, LocalOK, KindOf, MineOf, HandOf, CountOf, Requests,
    Flushing, Scanning, Freeing, Stuck
<1> QED
  BY <1>r, <1>4, <1>5, <1>6, <1>7, <1>8, DataFrame

LEMMA LookupData ==
  ASSUME Sound, Data, NEW t \in Datasets, Lookup(t)
  PROVE  Data'
<1> DEFINE old == thread[t]
<1>1. LocalOK(t, old) /\ Typed /\ Control /\ Places
  BY LocalNow DEF Sound
<1> DEFINE r == Locals("addlock", old.kind, old.pos, slot[t][old.pos], old.victim, old.togo,
  old.counted, old.again, old.err, old.ops)
<1>2. old.pc = "lookup" /\ slot[t][old.pos] # NoBlock /\ Becomes(t, r)
  BY <1>1, LookupStep
<1>r. Becomes(t, r)
  BY <1>2
<1>3. r.pc = "addlock" /\ r.kind = old.kind /\ r.err = old.err
  BY DEF Locals
<1> HIDE DEF r
<1>4. /\ old.pc # "iwrite" /\ r.pc \notin {"iwrite", "failed", "giveback"}
      /\ r.pc = "take" => r.kind \notin Requests
      /\ r.err => old.err \/ flushErr[t]
  BY <1>1, <1>2, <1>3 DEF LocalOK, KindOf, MineOf, HandOf, CountOf, Requests, Flushing,
    Scanning, Freeing, Stuck
<1>5. /\ UNCHANGED <<faults, disk, written, raced>>
      /\ \A d \in Datasets : flushErr'[d] => flushErr[d]
  BY <1>1 DEF Lookup, band, history, Typed
<1>6. \A d \in Datasets : SlotsOut(d)
  BY <1>1, <1>2 DEF Lookup, SlotsOut, Typed, cache
<1>7. \A d \in Datasets : Alike(d)
  <2>1. block' = block
    BY <1>2 DEF Lookup, cache
  <2> QED
    BY <2>1, KeptAlike
<1>8. \A b \in Ids : InSlot(t, b)' => ~Unfilled(t, b) /\ ~Works(t, b, {"fill"})
  BY <1>1, <1>2 DEF Unfilled, Works, At, LocalOK, KindOf, MineOf, HandOf, CountOf, Requests,
    Flushing, Scanning, Freeing, Stuck
<1> QED
  BY <1>r, <1>4, <1>5, <1>6, <1>7, <1>8, DataFrame

LEMMA EvictData ==
  ASSUME Sound, Data, NEW t \in Datasets, FlushCacheBlock(t)
  PROVE  Data'
<1> DEFINE old == thread[t]
<1>1. LocalOK(t, old) /\ Typed /\ Control /\ Places
  BY LocalNow DEF Sound
<1> DEFINE r == Locals("scan", "evict", old.pos, old.mine, old.victim, old.togo, old.counted,
  old.again, old.err, old.ops + 1)
<1>2. old.pc = "idle" /\ Becomes(t, r)
  BY <1>1, EvictStep
<1>r. Becomes(t, r)
  BY <1>2
<1>3. r.pc = "scan" /\ r.kind = "evict" /\ r.err = old.err
  BY DEF Locals
<1> HIDE DEF r
<1>4. /\ old.pc # "iwrite" /\ r.pc \notin {"iwrite", "failed", "giveback"}
      /\ r.pc = "take" => r.kind \notin Requests
      /\ r.err => old.err \/ flushErr[t]
  BY <1>1, <1>2, <1>3 DEF LocalOK, KindOf, MineOf, HandOf, CountOf, Requests, Flushing,
    Scanning, Freeing, Stuck
<1>5. /\ UNCHANGED <<faults, disk, written, raced>>
      /\ \A d \in Datasets : flushErr'[d] => flushErr[d]
  BY <1>1 DEF FlushCacheBlock, band, history, Typed
<1>6. \A d \in Datasets : SlotsOut(d)
  BY <1>1, <1>2 DEF FlushCacheBlock, SlotsOut, Typed, cache
<1>7. \A d \in Datasets : Alike(d)
  <2>1. block' = block
    BY <1>2 DEF FlushCacheBlock, cache
  <2> QED
    BY <2>1, KeptAlike
<1>8. \A b \in Ids : InSlot(t, b)' => ~Unfilled(t, b) /\ ~Works(t, b, {"fill"})
  BY <1>1, <1>2 DEF Unfilled, Works, At, LocalOK, KindOf, MineOf, HandOf, CountOf, Requests,
    Flushing, Scanning, Freeing, Stuck
<1> QED
  BY <1>r, <1>4, <1>5, <1>6, <1>7, <1>8, DataFrame

LEMMA InternalizeData ==
  ASSUME Sound, Data, NEW t \in Datasets, Internalize(t)
  PROVE  Data'
<1> DEFINE old == thread[t]
<1>1. LocalOK(t, old) /\ Typed /\ Control /\ Places
  BY LocalNow DEF Sound
<1> DEFINE r == Locals("scan", old.kind, old.pos, old.mine, old.victim, old.togo, TRUE,
  FALSE, old.err, old.ops)
<1>2. old.pc = "internalize" /\ Becomes(t, r)
  BY <1>1, InternalizeStep
<1>r. Becomes(t, r)
  BY <1>2
<1>3. r.pc = "scan" /\ r.kind = old.kind /\ r.err = old.err
  BY DEF Locals
<1> HIDE DEF r
<1>4. /\ old.pc # "iwrite" /\ r.pc \notin {"iwrite", "failed", "giveback"}
      /\ r.pc = "take" => r.kind \notin Requests
      /\ r.err => old.err \/ flushErr[t]
  BY <1>1, <1>2, <1>3 DEF LocalOK, KindOf, MineOf, HandOf, CountOf, Requests, Flushing,
    Scanning, Freeing, Stuck
<1>5. /\ UNCHANGED <<faults, disk, written, raced>>
      /\ \A d \in Datasets : flushErr'[d] => flushErr[d]
  BY <1>1 DEF Internalize, band, history, Typed
<1>6. \A d \in Datasets : SlotsOut(d)
  BY <1>1, <1>2 DEF Internalize, SlotsOut, Typed, cache
<1>7. \A d \in Datasets : Alike(d)
  <2>1. block' = block
    BY <1>2 DEF Internalize, cache
  <2> QED
    BY <2>1, KeptAlike
<1>8. \A b \in Ids : InSlot(t, b)' => ~Unfilled(t, b) /\ ~Works(t, b, {"fill"})
  BY <1>1, <1>2 DEF Unfilled, Works, At, LocalOK, KindOf, MineOf, HandOf, CountOf, Requests,
    Flushing, Scanning, Freeing, Stuck
<1> QED
  BY <1>r, <1>4, <1>5, <1>6, <1>7, <1>8, DataFrame

LEMMA TouchKeepData ==
  ASSUME Sound, Data, NEW t \in Datasets, Touch(t), thread[t].kind = "evict" \/
    thread[t].again
  PROVE  Data'
<1> DEFINE old == thread[t]
<1>1. LocalOK(t, old) /\ Typed /\ Control /\ Places
  BY LocalNow DEF Sound
<1> DEFINE r == Locals("free", old.kind, old.pos, old.mine, old.victim, old.togo,
  old.counted, old.again, old.err, old.ops)
<1>2. old.pc \in {"scan", "scanned"} /\ (old.kind = "evict" \/ old.again) /\ Becomes(t, r)
  BY <1>1, TouchKeepStep
<1>r. Becomes(t, r)
  BY <1>2
<1>3. r.pc = "free" /\ r.kind = old.kind /\ r.err = old.err
  BY DEF Locals
<1> HIDE DEF r
<1>4. /\ old.pc # "iwrite" /\ r.pc \notin {"iwrite", "failed", "giveback"}
      /\ r.pc = "take" => r.kind \notin Requests
      /\ r.err => old.err \/ flushErr[t]
  BY <1>1, <1>2, <1>3 DEF LocalOK, KindOf, MineOf, HandOf, CountOf, Requests, Flushing,
    Scanning, Freeing, Stuck
<1>5. /\ UNCHANGED <<faults, disk, written, raced>>
      /\ \A d \in Datasets : flushErr'[d] => flushErr[d]
  BY <1>1 DEF Touch, band, history, Typed
<1>6. \A d \in Datasets : SlotsOut(d)
  BY <1>1, <1>2 DEF Touch, SlotsOut, Typed, cache
<1>7. \A d \in Datasets : Alike(d)
  <2>1. block' = block
    BY <1>2 DEF Touch, cache
  <2> QED
    BY <2>1, KeptAlike
<1>8. \A b \in Ids : InSlot(t, b)' => ~Unfilled(t, b) /\ ~Works(t, b, {"fill"})
  BY <1>1, <1>2 DEF Unfilled, Works, At, LocalOK, KindOf, MineOf, HandOf, CountOf, Requests,
    Flushing, Scanning, Freeing, Stuck
<1> QED
  BY <1>r, <1>4, <1>5, <1>6, <1>7, <1>8, DataFrame

LEMMA FreedEvictData ==
  ASSUME Sound, Data, NEW t \in Datasets, Freed(t), thread[t].kind = "evict"
  PROVE  Data'
<1> DEFINE old == thread[t]
<1>1. LocalOK(t, old) /\ Typed /\ Control /\ Places
  BY LocalNow DEF Sound
<1> DEFINE r == Locals("idle", IF old.kind = "flush" THEN "flush" ELSE "none", 0, NoBlock,
  NoVictim, <<>>, FALSE, FALSE, FALSE, old.ops)
<1>2. old.pc = "free" /\ old.togo = <<>> /\ (old.kind = "evict") /\ Becomes(t, r)
  BY <1>1, FreedEvictStep
<1>r. Becomes(t, r)
  BY <1>2
<1>3. r.pc = "idle" /\ r.kind = (IF old.kind = "flush" THEN "flush" ELSE "none") /\ r.err =
      FALSE
  BY DEF Locals
<1> HIDE DEF r
<1>4. /\ old.pc # "iwrite" /\ r.pc \notin {"iwrite", "failed", "giveback"}
      /\ r.pc = "take" => r.kind \notin Requests
      /\ r.err => old.err \/ flushErr[t]
  BY <1>1, <1>2, <1>3 DEF LocalOK, KindOf, MineOf, HandOf, CountOf, Requests, Flushing,
    Scanning, Freeing, Stuck
<1>5. /\ UNCHANGED <<faults, disk, written, raced>>
      /\ \A d \in Datasets : flushErr'[d] => flushErr[d]
  BY <1>1 DEF Freed, band, history, Typed
<1>6. \A d \in Datasets : SlotsOut(d)
  BY <1>1, <1>2 DEF Freed, SlotsOut, Typed, cache
<1>7. \A d \in Datasets : Alike(d)
  <2>1. block' = block
    BY <1>2 DEF Freed, cache
  <2> QED
    BY <2>1, KeptAlike
<1>8. \A b \in Ids : InSlot(t, b)' => ~Unfilled(t, b) /\ ~Works(t, b, {"fill"})
  BY <1>1, <1>2 DEF Unfilled, Works, At, LocalOK, KindOf, MineOf, HandOf, CountOf, Requests,
    Flushing, Scanning, Freeing, Stuck
<1> QED
  BY <1>r, <1>4, <1>5, <1>6, <1>7, <1>8, DataFrame

LEMMA FreedData ==
  ASSUME Sound, Data, NEW t \in Datasets, Freed(t), thread[t].kind # "evict"
  PROVE  Data'
<1> DEFINE old == thread[t]
<1>1. LocalOK(t, old) /\ Typed /\ Control /\ Places
  BY LocalNow DEF Sound
<1> DEFINE r == Locals("internalize", old.kind, old.pos, old.mine, old.victim, old.togo,
  old.counted, old.again, old.err, old.ops)
<1>2. old.pc = "free" /\ old.togo = <<>> /\ old.again /\ (old.kind # "evict") /\ Becomes(t,
  r)
  BY <1>1, FreedStep
<1>r. Becomes(t, r)
  BY <1>2
<1>3. r.pc = "internalize" /\ r.kind = old.kind /\ r.err = old.err
  BY DEF Locals
<1> HIDE DEF r
<1>4. /\ old.pc # "iwrite" /\ r.pc \notin {"iwrite", "failed", "giveback"}
      /\ r.pc = "take" => r.kind \notin Requests
      /\ r.err => old.err \/ flushErr[t]
  BY <1>1, <1>2, <1>3 DEF LocalOK, KindOf, MineOf, HandOf, CountOf, Requests, Flushing,
    Scanning, Freeing, Stuck
<1>5. /\ UNCHANGED <<faults, disk, written, raced>>
      /\ \A d \in Datasets : flushErr'[d] => flushErr[d]
  BY <1>1 DEF Freed, band, history, Typed
<1>6. \A d \in Datasets : SlotsOut(d)
  BY <1>1, <1>2 DEF Freed, SlotsOut, Typed, cache
<1>7. \A d \in Datasets : Alike(d)
  <2>1. block' = block
    BY <1>2 DEF Freed, cache
  <2> QED
    BY <2>1, KeptAlike
<1>8. \A b \in Ids : InSlot(t, b)' => ~Unfilled(t, b) /\ ~Works(t, b, {"fill"})
  BY <1>1, <1>2 DEF Unfilled, Works, At, LocalOK, KindOf, MineOf, HandOf, CountOf, Requests,
    Flushing, Scanning, Freeing, Stuck
<1> QED
  BY <1>r, <1>4, <1>5, <1>6, <1>7, <1>8, DataFrame

LEMMA WaitEvictionLeaveData ==
  ASSUME Sound, Data, NEW t \in Datasets, WaitEviction(t), thread[t].kind \notin Flushing
  PROVE  Data'
<1> DEFINE old == thread[t]
<1>1. LocalOK(t, old) /\ Typed /\ Control /\ Places
  BY LocalNow DEF Sound
<1> DEFINE r == Locals("leave", old.kind, old.pos, old.mine, old.victim, old.togo,
  old.counted, old.again, old.err, old.ops)
<1>2. old.pc = "evicted" /\ (old.kind \notin Flushing) /\ Becomes(t, r)
  BY <1>1, WaitEvictionLeaveStep
<1>r. Becomes(t, r)
  BY <1>2
<1>3. r.pc = "leave" /\ r.kind = old.kind /\ r.err = old.err
  BY DEF Locals
<1> HIDE DEF r
<1>4. /\ old.pc # "iwrite" /\ r.pc \notin {"iwrite", "failed", "giveback"}
      /\ r.pc = "take" => r.kind \notin Requests
      /\ r.err => old.err \/ flushErr[t]
  BY <1>1, <1>2, <1>3 DEF LocalOK, KindOf, MineOf, HandOf, CountOf, Requests, Flushing,
    Scanning, Freeing, Stuck
<1>5. /\ UNCHANGED <<faults, disk, written, raced>>
      /\ \A d \in Datasets : flushErr'[d] => flushErr[d]
  BY <1>1 DEF WaitEviction, band, history, Typed
<1>6. \A d \in Datasets : SlotsOut(d)
  BY <1>1, <1>2 DEF WaitEviction, SlotsOut, Typed, cache
<1>7. \A d \in Datasets : Alike(d)
  <2>1. block' = block
    BY <1>2 DEF WaitEviction, cache
  <2> QED
    BY <2>1, KeptAlike
<1>8. \A b \in Ids : InSlot(t, b)' => ~Unfilled(t, b) /\ ~Works(t, b, {"fill"})
  BY <1>1, <1>2 DEF Unfilled, Works, At, LocalOK, KindOf, MineOf, HandOf, CountOf, Requests,
    Flushing, Scanning, Freeing, Stuck
<1> QED
  BY <1>r, <1>4, <1>5, <1>6, <1>7, <1>8, DataFrame

LEMMA WaitEvictionData ==
  ASSUME Sound, Data, NEW t \in Datasets, WaitEviction(t), thread[t].kind \in Flushing
  PROVE  Data'
<1> DEFINE old == thread[t]
<1>1. LocalOK(t, old) /\ Typed /\ Control /\ Places
  BY LocalNow DEF Sound
<1> DEFINE R(j) == Locals(IF j \in Positions THEN "take" ELSE "wait", old.kind, j, NoBlock,
  old.victim, <<>>, old.counted, old.again, old.err, old.ops)
<1>2. PICK j : old.pc = "evicted" /\ old.kind \in Flushing /\ NextSlot(t, old.pos + 1, j) /\
  Becomes(t, R(j))
  BY <1>1, WaitEvictionStep
<1> DEFINE r == R(j)
<1>r. Becomes(t, r)
  BY <1>2
<1>3. r.pc = (IF j \in Positions THEN "take" ELSE "wait") /\ r.kind = old.kind /\ r.err =
      old.err
  BY DEF Locals
<1> HIDE DEF r
<1>4. /\ old.pc # "iwrite" /\ r.pc \notin {"iwrite", "failed", "giveback"}
      /\ r.pc = "take" => r.kind \notin Requests
      /\ r.err => old.err \/ flushErr[t]
  BY <1>1, <1>2, <1>3 DEF LocalOK, KindOf, MineOf, HandOf, CountOf, Requests, Flushing,
    Scanning, Freeing, Stuck
<1>5. /\ UNCHANGED <<faults, disk, written, raced>>
      /\ \A d \in Datasets : flushErr'[d] => flushErr[d]
  BY <1>1 DEF WaitEviction, band, history, Typed
<1>6. \A d \in Datasets : SlotsOut(d)
  BY <1>1, <1>2 DEF WaitEviction, SlotsOut, Typed, cache
<1>7. \A d \in Datasets : Alike(d)
  <2>1. block' = block
    BY <1>2 DEF WaitEviction, cache
  <2> QED
    BY <2>1, KeptAlike
<1>8. \A b \in Ids : InSlot(t, b)' => ~Unfilled(t, b) /\ ~Works(t, b, {"fill"})
  BY <1>1, <1>2 DEF Unfilled, Works, At, LocalOK, KindOf, MineOf, HandOf, CountOf, Requests,
    Flushing, Scanning, Freeing, Stuck
<1> QED
  BY <1>r, <1>4, <1>5, <1>6, <1>7, <1>8, DataFrame

LEMMA TakeLeaveData ==
  ASSUME Sound, Data, NEW t \in Datasets, Take(t), thread[t].kind \notin Flushing,
    slot[t][thread[t].pos] = NoBlock
  PROVE  Data'
<1> DEFINE old == thread[t]
<1>1. LocalOK(t, old) /\ Typed /\ Control /\ Places
  BY LocalNow DEF Sound
<1> DEFINE r == Locals("leave", old.kind, old.pos, old.mine, old.victim, old.togo,
  old.counted, old.again, old.err, old.ops)
<1>2. old.pc = "take" /\ slot[t][old.pos] = NoBlock /\ (old.kind \notin Flushing) /\
  (slot[t][old.pos] = NoBlock) /\ Becomes(t, r)
  BY <1>1, TakeLeaveStep
<1>r. Becomes(t, r)
  BY <1>2
<1>3. r.pc = "leave" /\ r.kind = old.kind /\ r.err = old.err
  BY DEF Locals
<1> HIDE DEF r
<1>4. /\ old.pc # "iwrite" /\ r.pc \notin {"iwrite", "failed", "giveback"}
      /\ r.pc = "take" => r.kind \notin Requests
      /\ r.err => old.err \/ flushErr[t]
  BY <1>1, <1>2, <1>3 DEF LocalOK, KindOf, MineOf, HandOf, CountOf, Requests, Flushing,
    Scanning, Freeing, Stuck
<1>5. /\ UNCHANGED <<faults, disk, written, raced>>
      /\ \A d \in Datasets : flushErr'[d] => flushErr[d]
  BY <1>1 DEF Take, band, history, Typed
<1>6. \A d \in Datasets : SlotsOut(d)
  BY <1>1, <1>2 DEF Take, SlotsOut, Typed, cache
<1>7. \A d \in Datasets : Alike(d)
  <2>1. block' = block
    BY <1>2 DEF Take, cache
  <2> QED
    BY <2>1, KeptAlike
<1>8. \A b \in Ids : InSlot(t, b)' => ~Unfilled(t, b) /\ ~Works(t, b, {"fill"})
  <2>1. ASSUME NEW b \in Ids, NEW i \in Positions, slot'[t][i] = b, b = old.mine, old.kind \in Requests
        PROVE  FALSE
    <3>1. slot[t][i] = b
      BY <1>6, <2>1 DEF SlotsOut, Ids, NoBlock
    <3>2. i = old.pos
      BY <1>2, <2>1, <3>1 DEF Data, Retaken, At
    <3> QED
      BY <1>2, <2>1, <3>1, <3>2 DEF Ids, NoBlock
  <2> QED
    BY <1>2, <2>1 DEF InSlot, Unfilled, Works, At
<1> QED
  BY <1>r, <1>4, <1>5, <1>6, <1>7, <1>8, DataFrame

LEMMA TakeNextData ==
  ASSUME Sound, Data, NEW t \in Datasets, Take(t), thread[t].kind \in Flushing,
    slot[t][thread[t].pos] = NoBlock
  PROVE  Data'
<1> DEFINE old == thread[t]
<1>1. LocalOK(t, old) /\ Typed /\ Control /\ Places
  BY LocalNow DEF Sound
<1> DEFINE R(j) == Locals(IF j \in Positions THEN "take" ELSE "wait", old.kind, j, NoBlock,
  old.victim, <<>>, old.counted, old.again, old.err, old.ops)
<1>2. PICK j : old.pc = "take" /\ old.kind \in Flushing /\ NextSlot(t, old.pos + 1, j) /\
  Becomes(t, R(j))
  BY <1>1, TakeNextStep
<1> DEFINE r == R(j)
<1>r. Becomes(t, r)
  BY <1>2
<1>3. r.pc = (IF j \in Positions THEN "take" ELSE "wait") /\ r.kind = old.kind /\ r.err =
      old.err
  BY DEF Locals
<1> HIDE DEF r
<1>4. /\ old.pc # "iwrite" /\ r.pc \notin {"iwrite", "failed", "giveback"}
      /\ r.pc = "take" => r.kind \notin Requests
      /\ r.err => old.err \/ flushErr[t]
  BY <1>1, <1>2, <1>3 DEF LocalOK, KindOf, MineOf, HandOf, CountOf, Requests, Flushing,
    Scanning, Freeing, Stuck
<1>5. /\ UNCHANGED <<faults, disk, written, raced>>
      /\ \A d \in Datasets : flushErr'[d] => flushErr[d]
  BY <1>1 DEF Take, band, history, Typed
<1>6. \A d \in Datasets : SlotsOut(d)
  BY <1>1, <1>2 DEF Take, SlotsOut, Typed, cache
<1>7. \A d \in Datasets : Alike(d)
  <2>1. block' = block
    BY <1>2 DEF Take, cache
  <2> QED
    BY <2>1, KeptAlike
<1>8. \A b \in Ids : InSlot(t, b)' => ~Unfilled(t, b) /\ ~Works(t, b, {"fill"})
  BY <1>1, <1>2 DEF Unfilled, Works, At, LocalOK, KindOf, MineOf, HandOf, CountOf, Requests,
    Flushing, Scanning, Freeing, Stuck
<1> QED
  BY <1>r, <1>4, <1>5, <1>6, <1>7, <1>8, DataFrame

LEMMA TakeData ==
  ASSUME Sound, Data, NEW t \in Datasets, Take(t), slot[t][thread[t].pos] # NoBlock
  PROVE  Data'
<1> DEFINE old == thread[t]
<1>1. LocalOK(t, old) /\ Typed /\ Control /\ Places
  BY LocalNow DEF Sound
<1> DEFINE r == Locals("droplock", old.kind, old.pos, slot[t][old.pos], old.victim, old.togo,
  old.counted, old.again, old.err, old.ops)
<1>2. old.pc = "take" /\ slot[t][old.pos] # NoBlock /\ (slot[t][old.pos] # NoBlock) /\
  Becomes(t, r)
  BY <1>1, TakeStep
<1>r. Becomes(t, r)
  BY <1>2
<1>3. r.pc = "droplock" /\ r.kind = old.kind /\ r.err = old.err
  BY DEF Locals
<1> HIDE DEF r
<1>4. /\ old.pc # "iwrite" /\ r.pc \notin {"iwrite", "failed", "giveback"}
      /\ r.pc = "take" => r.kind \notin Requests
      /\ r.err => old.err \/ flushErr[t]
  BY <1>1, <1>2, <1>3 DEF LocalOK, KindOf, MineOf, HandOf, CountOf, Requests, Flushing,
    Scanning, Freeing, Stuck
<1>5. /\ UNCHANGED <<faults, disk, written, raced>>
      /\ \A d \in Datasets : flushErr'[d] => flushErr[d]
  BY <1>1 DEF Take, band, history, Typed
<1>6. \A d \in Datasets : SlotsOut(d)
  BY <1>1, <1>2 DEF Take, SlotsOut, Typed, cache
<1>7. \A d \in Datasets : Alike(d)
  <2>1. block' = block
    BY <1>2 DEF Take, cache
  <2> QED
    BY <2>1, KeptAlike
<1>8. \A b \in Ids : InSlot(t, b)' => ~Unfilled(t, b) /\ ~Works(t, b, {"fill"})
  <2>1. ASSUME NEW b \in Ids, NEW i \in Positions, slot'[t][i] = b, b = old.mine, old.kind \in Requests
        PROVE  FALSE
    <3>1. slot[t][i] = b
      BY <1>6, <2>1 DEF SlotsOut, Ids, NoBlock
    <3>2. i = old.pos
      BY <1>2, <2>1, <3>1 DEF Data, Retaken, At
    <3>3. slot'[t][i] = NoBlock
      BY <1>1, <2>1, <3>2 DEF Take, Typed
    <3> QED
      BY <2>1, <3>3 DEF Ids, NoBlock
  <2> QED
    BY <1>2, <2>1 DEF InSlot, Unfilled, Works, At
<1> QED
  BY <1>r, <1>4, <1>5, <1>6, <1>7, <1>8, DataFrame

LEMMA CountDownData ==
  ASSUME Sound, Data, NEW t \in Datasets, CountDown(t)
  PROVE  Data'
<1> DEFINE old == thread[t]
<1>1. LocalOK(t, old) /\ Typed /\ Control /\ Places
  BY LocalNow DEF Sound
<1> DEFINE r == Locals("free", old.kind, old.pos, old.mine, old.victim, Tail(old.togo),
  old.counted, old.again, old.err, old.ops)
<1>2. old.pc = "countdown" /\ Becomes(t, r)
  BY <1>1, CountDownStep
<1>r. Becomes(t, r)
  BY <1>2
<1>3. r.pc = "free" /\ r.kind = old.kind /\ r.err = old.err
  BY DEF Locals
<1> HIDE DEF r
<1>4. /\ old.pc # "iwrite" /\ r.pc \notin {"iwrite", "failed", "giveback"}
      /\ r.pc = "take" => r.kind \notin Requests
      /\ r.err => old.err \/ flushErr[t]
  BY <1>1, <1>2, <1>3 DEF LocalOK, KindOf, MineOf, HandOf, CountOf, Requests, Flushing,
    Scanning, Freeing, Stuck
<1>5. /\ UNCHANGED <<faults, disk, written, raced>>
      /\ \A d \in Datasets : flushErr'[d] => flushErr[d]
  BY <1>1 DEF CountDown, band, history, Typed
<1>6. \A d \in Datasets : SlotsOut(d)
  BY <1>1, <1>2 DEF CountDown, SlotsOut, Typed, cache
<1>7. \A d \in Datasets : Alike(d)
  <2>1. block' = block
    BY <1>2 DEF CountDown, cache
  <2> QED
    BY <2>1, KeptAlike
<1>8. \A b \in Ids : InSlot(t, b)' => ~Unfilled(t, b) /\ ~Works(t, b, {"fill"})
  BY <1>1, <1>2 DEF Unfilled, Works, At, LocalOK, KindOf, MineOf, HandOf, CountOf, Requests,
    Flushing, Scanning, Freeing, Stuck
<1> QED
  BY <1>r, <1>4, <1>5, <1>6, <1>7, <1>8, DataFrame

LEMMA UnreferenceData ==
  ASSUME Sound, Data, NEW t \in Datasets, NEW full \in BOOLEAN,
         Unreference(t, full)
  PROVE  Data'
<1> DEFINE old == thread[t]
<1>1. LocalOK(t, old) /\ Typed /\ Control /\ Places
  BY LocalNow DEF Sound
<1> DEFINE stop == The(old.victim).dirty \/ full \/ old.kind = "evict"
           r == Locals(IF stop THEN "scanned" ELSE "scan", old.kind, old.pos, old.mine,
                       NoVictim, Append(old.togo, old.victim), old.counted,
                       (stop /\ old.kind # "evict" /\ nCacheUsed > nCacheMax), old.err, old.ops)
<1>2. old.pc = "unref" /\ old.victim \in AllBlocks /\ Becomes(t, r)
  BY <1>1, UnreferenceStep
<1>r. Becomes(t, r)
  BY <1>2
<1>3. r.pc = (IF stop THEN "scanned" ELSE "scan")
      /\ r.kind = old.kind /\ r.err = old.err
  BY DEF Locals
<1> HIDE DEF r, stop
<1>4. /\ old.pc # "iwrite" /\ r.pc \notin {"iwrite", "failed", "giveback"}
      /\ r.pc = "take" => r.kind \notin Requests
      /\ r.err => old.err \/ flushErr[t]
  BY <1>1, <1>2, <1>3 DEF LocalOK, KindOf, MineOf, HandOf, CountOf, Requests, Flushing,
    Scanning, Freeing, Stuck
<1>5. /\ UNCHANGED <<faults, disk, written, raced>>
      /\ \A d \in Datasets : flushErr'[d] => flushErr[d]
  BY <1>1 DEF Unreference, band, history, Typed
<1>6. \A d \in Datasets : SlotsOut(d)
  BY <1>1, <1>2 DEF Unreference, SlotsOut, Typed, cache
<1>7. \A d \in Datasets : Alike(d)
  <2>1. block' = block
    BY <1>2 DEF Unreference, cache
  <2> QED
    BY <2>1, KeptAlike
<1>8. \A b \in Ids : InSlot(t, b)' => ~Unfilled(t, b) /\ ~Works(t, b, {"fill"})
  BY <1>1, <1>2 DEF Unfilled, Works, At, LocalOK, KindOf, MineOf, HandOf, CountOf, Requests,
    Flushing, Scanning, Freeing, Stuck
<1> QED
  BY <1>r, <1>4, <1>5, <1>6, <1>7, <1>8, DataFrame

LEMMA FlushCacheData ==
  ASSUME Sound, Data, NEW t \in Datasets, NEW kind \in Flushing, FlushCache(t, kind)
  PROVE  Data'
<1> DEFINE old == thread[t]
<1>1. LocalOK(t, old) /\ Typed /\ Control /\ Places
  BY LocalNow DEF Sound
<1> DEFINE r == Locals("flushing", kind, old.pos, old.mine, old.victim, old.togo,
  old.counted, old.again, old.err, old.ops + (IF kind = "flush" THEN 1 ELSE 0))
<1>2. old.pc = (IF kind = "destroy" THEN "destroy" ELSE "idle") /\ Becomes(t, r)
  BY <1>1, FlushCacheStep
<1>r. Becomes(t, r)
  BY <1>2
<1>3. r.pc = "flushing" /\ r.kind = kind /\ r.err = old.err
  BY DEF Locals
<1> HIDE DEF r
<1>4. /\ old.pc # "iwrite" /\ r.pc \notin {"iwrite", "failed", "giveback"}
      /\ r.pc = "take" => r.kind \notin Requests
      /\ r.err => old.err \/ flushErr[t]
  BY <1>1, <1>2, <1>3 DEF LocalOK, KindOf, MineOf, HandOf, CountOf, Requests, Flushing,
    Scanning, Freeing, Stuck
<1>5. /\ UNCHANGED <<faults, disk, written, raced>>
      /\ \A d \in Datasets : flushErr'[d] => flushErr[d]
  BY <1>1 DEF FlushCache, Report, band, history, Typed
<1>6. \A d \in Datasets : SlotsOut(d)
  BY <1>1, <1>2 DEF FlushCache, SlotsOut, Typed, cache
<1>7. \A d \in Datasets : Alike(d)
  <2>1. block' = block
    BY <1>2 DEF FlushCache, cache
  <2> QED
    BY <2>1, KeptAlike
<1>8. \A b \in Ids : InSlot(t, b)' => ~Unfilled(t, b) /\ ~Works(t, b, {"fill"})
  BY <1>1, <1>2 DEF Unfilled, Works, At, LocalOK, KindOf, MineOf, HandOf, CountOf, Requests,
    Flushing, Scanning, Freeing, Stuck
<1> QED
  BY <1>r, <1>4, <1>5, <1>6, <1>7, <1>8, DataFrame

LEMMA FlushedData ==
  ASSUME Sound, Data, NEW t \in Datasets, Flushed(t), thread[t].kind = "flush"
  PROVE  Data'
<1> DEFINE old == thread[t]
<1>1. LocalOK(t, old) /\ Typed /\ Control /\ Places
  BY LocalNow DEF Sound
<1> DEFINE r == Locals("idle", IF old.kind = "flush" THEN "flush" ELSE "none", 0, NoBlock,
  NoVictim, <<>>, FALSE, FALSE, FALSE, old.ops)
<1>2. old.pc = "wait" /\ (old.kind = "flush") /\ Becomes(t, r)
  BY <1>1, FlushedStep
<1>r. Becomes(t, r)
  BY <1>2
<1>3. r.pc = "idle" /\ r.kind = (IF old.kind = "flush" THEN "flush" ELSE "none") /\ r.err =
      FALSE
  BY DEF Locals
<1> HIDE DEF r
<1>4. /\ old.pc # "iwrite" /\ r.pc \notin {"iwrite", "failed", "giveback"}
      /\ r.pc = "take" => r.kind \notin Requests
      /\ r.err => old.err \/ flushErr[t]
  BY <1>1, <1>2, <1>3 DEF LocalOK, KindOf, MineOf, HandOf, CountOf, Requests, Flushing,
    Scanning, Freeing, Stuck
<1>5. /\ UNCHANGED <<faults, disk, written, raced>>
      /\ \A d \in Datasets : flushErr'[d] => flushErr[d]
  BY <1>1 DEF Flushed, band, history, Typed
<1>6. \A d \in Datasets : SlotsOut(d)
  BY <1>1, <1>2 DEF Flushed, SlotsOut, Typed, cache
<1>7. \A d \in Datasets : Alike(d)
  <2>1. block' = block
    BY <1>2 DEF Flushed, cache
  <2> QED
    BY <2>1, KeptAlike
<1>8. \A b \in Ids : InSlot(t, b)' => ~Unfilled(t, b) /\ ~Works(t, b, {"fill"})
  BY <1>1, <1>2 DEF Unfilled, Works, At, LocalOK, KindOf, MineOf, HandOf, CountOf, Requests,
    Flushing, Scanning, Freeing, Stuck
<1> QED
  BY <1>r, <1>4, <1>5, <1>6, <1>7, <1>8, DataFrame

LEMMA ClosedData ==
  ASSUME Sound, Data, NEW t \in Datasets, Flushed(t), thread[t].kind = "close"
  PROVE  Data'
<1> DEFINE old == thread[t]
<1>1. LocalOK(t, old) /\ Typed /\ Control /\ Places
  BY LocalNow DEF Sound
<1> DEFINE r == Locals("destroy", "close", 0, NoBlock, NoVictim, <<>>, FALSE, FALSE, FALSE,
  0)
<1>2. old.pc = "wait" /\ (old.kind = "close") /\ Becomes(t, r)
  BY <1>1, ClosedStep
<1>r. Becomes(t, r)
  BY <1>2
<1>3. r.pc = "destroy" /\ r.kind = "close" /\ r.err = FALSE
  BY DEF Locals
<1> HIDE DEF r
<1>4. /\ old.pc # "iwrite" /\ r.pc \notin {"iwrite", "failed", "giveback"}
      /\ r.pc = "take" => r.kind \notin Requests
      /\ r.err => old.err \/ flushErr[t]
  BY <1>1, <1>2, <1>3 DEF LocalOK, KindOf, MineOf, HandOf, CountOf, Requests, Flushing,
    Scanning, Freeing, Stuck
<1>5. /\ UNCHANGED <<faults, disk, written, raced>>
      /\ \A d \in Datasets : flushErr'[d] => flushErr[d]
  BY <1>1 DEF Flushed, band, history, Typed
<1>6. \A d \in Datasets : SlotsOut(d)
  BY <1>1, <1>2 DEF Flushed, SlotsOut, Typed, cache
<1>7. \A d \in Datasets : Alike(d)
  <2>1. block' = block
    BY <1>2 DEF Flushed, cache
  <2> QED
    BY <2>1, KeptAlike
<1>8. \A b \in Ids : InSlot(t, b)' => ~Unfilled(t, b) /\ ~Works(t, b, {"fill"})
  BY <1>1, <1>2 DEF Unfilled, Works, At, LocalOK, KindOf, MineOf, HandOf, CountOf, Requests,
    Flushing, Scanning, Freeing, Stuck
<1> QED
  BY <1>r, <1>4, <1>5, <1>6, <1>7, <1>8, DataFrame

LEMMA DropLockEvictedData ==
  ASSUME Sound, Data, NEW t \in Datasets, DropLockForRemoval(t), Mine(t).lock # 0
  PROVE  Data'
<1> DEFINE old == thread[t]
<1>1. LocalOK(t, old) /\ Typed /\ Control /\ Places
  BY LocalNow DEF Sound
<1> DEFINE r == Locals("evicted", old.kind, old.pos, old.mine, old.victim, old.togo,
  old.counted, old.again, old.err, old.ops)
<1>2. old.pc = "droplock" /\ Becomes(t, r)
  BY <1>1, DropLockEvictedStep
<1>r. Becomes(t, r)
  BY <1>2
<1>3. r.pc = "evicted" /\ r.kind = old.kind /\ r.err = old.err
  BY DEF Locals
<1> HIDE DEF r
<1>4. /\ old.pc # "iwrite" /\ r.pc \notin {"iwrite", "failed", "giveback"}
      /\ r.pc = "take" => r.kind \notin Requests
      /\ r.err => old.err \/ flushErr[t]
  BY <1>1, <1>2, <1>3 DEF LocalOK, KindOf, MineOf, HandOf, CountOf, Requests, Flushing,
    Scanning, Freeing, Stuck
<1>5. /\ UNCHANGED <<faults, disk, written, raced>>
      /\ \A d \in Datasets : flushErr'[d] => flushErr[d]
  BY <1>1 DEF DropLockForRemoval, band, history, Typed
<1>6. \A d \in Datasets : SlotsOut(d)
  BY <1>1, <1>2 DEF DropLockForRemoval, SlotsOut, Typed, cache
<1>7. \A d \in Datasets : Alike(d)
  <2>1. block' = block
    BY <1>2 DEF DropLockForRemoval, cache, StillOurs
  <2> QED
    BY <2>1, KeptAlike
<1>8. \A b \in Ids : InSlot(t, b)' => ~Unfilled(t, b) /\ ~Works(t, b, {"fill"})
  BY <1>1, <1>2 DEF Unfilled, Works, At, LocalOK, KindOf, MineOf, HandOf, CountOf, Requests,
    Flushing, Scanning, Freeing, Stuck
<1> QED
  BY <1>r, <1>4, <1>5, <1>6, <1>7, <1>8, DataFrame

LEMMA AddLockData ==
  ASSUME Sound, Data, NEW t \in Datasets, AddLock(t)
  PROVE  Data'
<1> DEFINE old == thread[t]
<1>1. LocalOK(t, old) /\ Typed /\ Control /\ Places
  BY LocalNow DEF Sound
<1> DEFINE r == Locals(IF block[t][old.mine].lock = -1 THEN "unlock" ELSE "use", old.kind,
  old.pos, old.mine, old.victim, old.togo, old.counted, old.again, old.err, old.ops)
<1>2. old.pc = "addlock" /\ Becomes(t, r)
  BY <1>1, AddLockStep
<1>r. Becomes(t, r)
  BY <1>2
<1>3. r.pc = (IF block[t][old.mine].lock = -1 THEN "unlock" ELSE "use") /\ r.kind = old.kind
      /\ r.err = old.err
  BY DEF Locals
<1> HIDE DEF r
<1>4. /\ old.pc # "iwrite" /\ r.pc \notin {"iwrite", "failed", "giveback"}
      /\ r.pc = "take" => r.kind \notin Requests
      /\ r.err => old.err \/ flushErr[t]
  BY <1>1, <1>2, <1>3 DEF LocalOK, KindOf, MineOf, HandOf, CountOf, Requests, Flushing,
    Scanning, Freeing, Stuck
<1>5. /\ UNCHANGED <<faults, disk, written, raced>>
      /\ \A d \in Datasets : flushErr'[d] => flushErr[d]
  BY <1>1 DEF AddLock, band, history, Typed
<1>6. \A d \in Datasets : SlotsOut(d)
  BY <1>1, <1>2 DEF AddLock, SlotsOut, Typed, cache
<1>7. \A d \in Datasets : Alike(d)
  <2>1. PICK b \in Ids : b = old.mine
    BY <1>1, <1>2 DEF LocalOK, KindOf, MineOf, HandOf, CountOf, Requests, Flushing, Scanning,
      Freeing, Stuck
  <2> DEFINE e == [block[t][b] EXCEPT !.lock = @ + 1]
  <2>2. block' = [block EXCEPT ![t][b] = e]
    BY <1>1, <1>2, <2>1 DEF AddLock, SetMine, Mine
  <2>3. /\ e.live = block[t][b].live /\ e.dirty = block[t][b].dirty
        /\ e.pos = block[t][b].pos /\ e.val = block[t][b].val
    BY <1>1 DEF Typed, Entries
  <2> HIDE DEF e
  <2> QED
    BY <1>1, <2>2, <2>3, EditAlike
<1>8. \A b \in Ids : InSlot(t, b)' => ~Unfilled(t, b) /\ ~Works(t, b, {"fill"})
  BY <1>1, <1>2 DEF Unfilled, Works, At, LocalOK, KindOf, MineOf, HandOf, CountOf, Requests,
    Flushing, Scanning, Freeing, Stuck
<1> QED
  BY <1>r, <1>4, <1>5, <1>6, <1>7, <1>8, DataFrame

LEMMA TakeLockFailsData ==
  ASSUME Sound, Data, NEW t \in Datasets, TakeLockFails(t)
  PROVE  Data'
<1> DEFINE old == thread[t]
<1>1. LocalOK(t, old) /\ Typed /\ Control /\ Places
  BY LocalNow DEF Sound
<1> DEFINE r == Locals("create", old.kind, old.pos, NoBlock, old.victim, old.togo,
  old.counted, old.again, old.err, old.ops)
<1>2. old.pc = "unlock" /\ Becomes(t, r)
  BY <1>1, TakeLockFailsStep
<1>r. Becomes(t, r)
  BY <1>2
<1>3. r.pc = "create" /\ r.kind = old.kind /\ r.err = old.err
  BY DEF Locals
<1> HIDE DEF r
<1>4. /\ old.pc # "iwrite" /\ r.pc \notin {"iwrite", "failed", "giveback"}
      /\ r.pc = "take" => r.kind \notin Requests
      /\ r.err => old.err \/ flushErr[t]
  BY <1>1, <1>2, <1>3 DEF LocalOK, KindOf, MineOf, HandOf, CountOf, Requests, Flushing,
    Scanning, Freeing, Stuck
<1>5. /\ UNCHANGED <<faults, disk, written, raced>>
      /\ \A d \in Datasets : flushErr'[d] => flushErr[d]
  BY <1>1 DEF TakeLockFails, band, history, Typed
<1>6. \A d \in Datasets : SlotsOut(d)
  BY <1>1, <1>2 DEF TakeLockFails, SlotsOut, Typed, cache
<1>7. \A d \in Datasets : Alike(d)
  <2>1. PICK b \in Ids : b = old.mine
    BY <1>1, <1>2 DEF LocalOK, KindOf, MineOf, HandOf, CountOf, Requests, Flushing, Scanning,
      Freeing, Stuck
  <2> DEFINE e == [block[t][b] EXCEPT !.lock = @ - 1]
  <2>2. block' = [block EXCEPT ![t][b] = e]
    BY <1>1, <1>2, <2>1 DEF TakeLockFails, SetMine, Mine
  <2>3. /\ e.live = block[t][b].live /\ e.dirty = block[t][b].dirty
        /\ e.pos = block[t][b].pos /\ e.val = block[t][b].val
    BY <1>1 DEF Typed, Entries
  <2> HIDE DEF e
  <2> QED
    BY <1>1, <2>2, <2>3, EditAlike
<1>8. \A b \in Ids : InSlot(t, b)' => ~Unfilled(t, b) /\ ~Works(t, b, {"fill"})
  BY <1>1, <1>2 DEF Unfilled, Works, At, LocalOK, KindOf, MineOf, HandOf, CountOf, Requests,
    Flushing, Scanning, Freeing, Stuck
<1> QED
  BY <1>r, <1>4, <1>5, <1>6, <1>7, <1>8, DataFrame

LEMMA UseReadData ==
  ASSUME Sound, Data, NEW t \in Datasets, Use(t), thread[t].kind = "read"
  PROVE  Data'
<1> DEFINE old == thread[t]
<1>1. LocalOK(t, old) /\ Typed /\ Control /\ Places
  BY LocalNow DEF Sound
<1> DEFINE r == Locals("leave", old.kind, old.pos, old.mine, old.victim, old.togo,
  old.counted, old.again, old.err, old.ops)
<1>2. old.pc = "use" /\ (old.kind = "read") /\ Becomes(t, r)
  BY <1>1, UseReadStep
<1>r. Becomes(t, r)
  BY <1>2
<1>3. r.pc = "leave" /\ r.kind = old.kind /\ r.err = old.err
  BY DEF Locals
<1> HIDE DEF r
<1>4. /\ old.pc # "iwrite" /\ r.pc \notin {"iwrite", "failed", "giveback"}
      /\ r.pc = "take" => r.kind \notin Requests
      /\ r.err => old.err \/ flushErr[t]
  BY <1>1, <1>2, <1>3 DEF LocalOK, KindOf, MineOf, HandOf, CountOf, Requests, Flushing,
    Scanning, Freeing, Stuck
<1>5. /\ UNCHANGED <<faults, disk, written, raced>>
      /\ \A d \in Datasets : flushErr'[d] => flushErr[d]
  BY <1>1 DEF Use, band, history, Typed
<1>6. \A d \in Datasets : SlotsOut(d)
  BY <1>1, <1>2 DEF Use, SlotsOut, Typed, cache
<1>7. \A d \in Datasets : Alike(d)
  <2>1. PICK b \in Ids : b = old.mine
    BY <1>1, <1>2 DEF LocalOK, KindOf, MineOf, HandOf, CountOf, Requests, Flushing, Scanning,
      Freeing, Stuck
  <2> DEFINE e == [block[t][b] EXCEPT !.lock = @ - 1]
  <2>2. block' = [block EXCEPT ![t][b] = e]
    BY <1>1, <1>2, <2>1 DEF Use, SetMine, Mine
  <2>3. /\ e.live = block[t][b].live /\ e.dirty = block[t][b].dirty
        /\ e.pos = block[t][b].pos /\ e.val = block[t][b].val
    BY <1>1 DEF Typed, Entries
  <2> HIDE DEF e
  <2> QED
    BY <1>1, <2>2, <2>3, EditAlike
<1>8. \A b \in Ids : InSlot(t, b)' => ~Unfilled(t, b) /\ ~Works(t, b, {"fill"})
  BY <1>1, <1>2 DEF Unfilled, Works, At, LocalOK, KindOf, MineOf, HandOf, CountOf, Requests,
    Flushing, Scanning, Freeing, Stuck
<1> QED
  BY <1>r, <1>4, <1>5, <1>6, <1>7, <1>8, DataFrame

LEMMA TouchPutData ==
  ASSUME Sound, Data, NEW t \in Datasets, Touch(t), thread[t].kind # "evict",
    ~thread[t].again
  PROVE  Data'
<1> DEFINE old == thread[t]
<1>1. LocalOK(t, old) /\ Typed /\ Control /\ Places
  BY LocalNow DEF Sound
<1> DEFINE r == Locals("free", old.kind, old.pos, old.mine, old.victim, old.togo, FALSE,
  old.again, old.err, old.ops)
<1>2. old.pc \in {"scan", "scanned"} /\ (old.kind # "evict") /\ (~old.again) /\ Becomes(t, r)
  BY <1>1, TouchPutStep
<1>r. Becomes(t, r)
  BY <1>2
<1>3. r.pc = "free" /\ r.kind = old.kind /\ r.err = old.err
  BY DEF Locals
<1> HIDE DEF r
<1>4. /\ old.pc # "iwrite" /\ r.pc \notin {"iwrite", "failed", "giveback"}
      /\ r.pc = "take" => r.kind \notin Requests
      /\ r.err => old.err \/ flushErr[t]
  BY <1>1, <1>2, <1>3 DEF LocalOK, KindOf, MineOf, HandOf, CountOf, Requests, Flushing,
    Scanning, Freeing, Stuck
<1>5. /\ UNCHANGED <<faults, disk, written, raced>>
      /\ \A d \in Datasets : flushErr'[d] => flushErr[d]
  BY <1>1 DEF Touch, band, history, Typed
<1>6. \A d \in Datasets : SlotsOut(d)
  BY <1>1, <1>2 DEF Touch, SlotsOut, Typed, cache
<1>7. \A d \in Datasets : Alike(d)
  <2>1. PICK b \in Ids : b = old.mine
    BY <1>1, <1>2 DEF LocalOK, KindOf, MineOf, HandOf, CountOf, Requests, Flushing, Scanning,
      Freeing, Stuck
  <2> DEFINE e == [block[t][b] EXCEPT !.listed = TRUE]
  <2>2. block' = [block EXCEPT ![t][b] = e]
    BY <1>1, <1>2, <2>1 DEF Touch, SetMine, Mine
  <2>3. /\ e.live = block[t][b].live /\ e.dirty = block[t][b].dirty
        /\ e.pos = block[t][b].pos /\ e.val = block[t][b].val
    BY <1>1 DEF Typed, Entries
  <2> HIDE DEF e
  <2> QED
    BY <1>1, <2>2, <2>3, EditAlike
<1>8. \A b \in Ids : InSlot(t, b)' => ~Unfilled(t, b) /\ ~Works(t, b, {"fill"})
  BY <1>1, <1>2 DEF Unfilled, Works, At, LocalOK, KindOf, MineOf, HandOf, CountOf, Requests,
    Flushing, Scanning, Freeing, Stuck
<1> QED
  BY <1>r, <1>4, <1>5, <1>6, <1>7, <1>8, DataFrame

LEMMA MallocData ==
  ASSUME Sound, Data, NEW t \in Datasets, Malloc(t)
  PROVE  Data'
<1> DEFINE old == thread[t]
<1>1. LocalOK(t, old) /\ Typed /\ Control /\ Places
  BY LocalNow DEF Sound
<1> DEFINE r == Locals("reacquire", old.kind, old.pos, old.mine, old.victim, old.togo,
  old.counted, old.again, old.err, old.ops)
<1>2. old.pc = "free" /\ old.togo = <<>> /\ old.kind # "evict" /\ ~old.again /\ Becomes(t, r)
  BY <1>1, MallocStep
<1>r. Becomes(t, r)
  BY <1>2
<1>3. r.pc = "reacquire" /\ r.kind = old.kind /\ r.err = old.err
  BY DEF Locals
<1> HIDE DEF r
<1>4. /\ old.pc # "iwrite" /\ r.pc \notin {"iwrite", "failed", "giveback"}
      /\ r.pc = "take" => r.kind \notin Requests
      /\ r.err => old.err \/ flushErr[t]
  BY <1>1, <1>2, <1>3 DEF LocalOK, KindOf, MineOf, HandOf, CountOf, Requests, Flushing,
    Scanning, Freeing, Stuck
<1>5. /\ UNCHANGED <<faults, disk, written, raced>>
      /\ \A d \in Datasets : flushErr'[d] => flushErr[d]
  BY <1>1 DEF Malloc, band, history, Typed
<1>6. \A d \in Datasets : SlotsOut(d)
  BY <1>1, <1>2 DEF Malloc, SlotsOut, Typed, cache
<1>7. \A d \in Datasets : Alike(d)
  <2>1. PICK b \in Ids : b = old.mine
    BY <1>1, <1>2 DEF LocalOK, KindOf, MineOf, HandOf, CountOf, Requests, Flushing, Scanning,
      Freeing, Stuck
  <2> DEFINE e == [block[t][b] EXCEPT !.data = TRUE]
  <2>2. block' = [block EXCEPT ![t][b] = e]
    BY <1>1, <1>2, <2>1 DEF Malloc, SetMine, Mine
  <2>3. /\ e.live = block[t][b].live /\ e.dirty = block[t][b].dirty
        /\ e.pos = block[t][b].pos /\ e.val = block[t][b].val
    BY <1>1 DEF Typed, Entries
  <2> HIDE DEF e
  <2> QED
    BY <1>1, <2>2, <2>3, EditAlike
<1>8. \A b \in Ids : InSlot(t, b)' => ~Unfilled(t, b) /\ ~Works(t, b, {"fill"})
  BY <1>1, <1>2 DEF Unfilled, Works, At, LocalOK, KindOf, MineOf, HandOf, CountOf, Requests,
    Flushing, Scanning, Freeing, Stuck
<1> QED
  BY <1>r, <1>4, <1>5, <1>6, <1>7, <1>8, DataFrame

LEMMA DropLockData ==
  ASSUME Sound, Data, NEW t \in Datasets, DropLockForRemoval(t), Mine(t).lock = 0
  PROVE  Data'
<1> DEFINE old == thread[t]
<1>1. LocalOK(t, old) /\ Typed /\ Control /\ Places
  BY LocalNow DEF Sound
<1> DEFINE r == Locals("remove", old.kind, old.pos, old.mine, old.victim, old.togo,
  old.counted, old.again, old.err, old.ops)
<1>2. old.pc = "droplock" /\ Becomes(t, r)
  BY <1>1, DropLockStep
<1>r. Becomes(t, r)
  BY <1>2
<1>3. r.pc = "remove" /\ r.kind = old.kind /\ r.err = old.err
  BY DEF Locals
<1> HIDE DEF r
<1>4. /\ old.pc # "iwrite" /\ r.pc \notin {"iwrite", "failed", "giveback"}
      /\ r.pc = "take" => r.kind \notin Requests
      /\ r.err => old.err \/ flushErr[t]
  BY <1>1, <1>2, <1>3 DEF LocalOK, KindOf, MineOf, HandOf, CountOf, Requests, Flushing,
    Scanning, Freeing, Stuck
<1>5. /\ UNCHANGED <<faults, disk, written, raced>>
      /\ \A d \in Datasets : flushErr'[d] => flushErr[d]
  BY <1>1 DEF DropLockForRemoval, band, history, Typed
<1>6. \A d \in Datasets : SlotsOut(d)
  BY <1>1, <1>2 DEF DropLockForRemoval, SlotsOut, Typed, cache
<1>7. \A d \in Datasets : Alike(d)
  <2>1. PICK b \in Ids : b = old.mine
    BY <1>1, <1>2 DEF LocalOK, KindOf, MineOf, HandOf, CountOf, Requests, Flushing, Scanning,
      Freeing, Stuck
  <2> DEFINE e == [block[t][b] EXCEPT !.lock = -1]
  <2>2. block' = [block EXCEPT ![t][b] = e]
    BY <1>1, <1>2, <2>1 DEF DropLockForRemoval, SetMine, Mine, StillOurs
  <2>3. /\ e.live = block[t][b].live /\ e.dirty = block[t][b].dirty
        /\ e.pos = block[t][b].pos /\ e.val = block[t][b].val
    BY <1>1 DEF Typed, Entries
  <2> HIDE DEF e
  <2> QED
    BY <1>1, <2>2, <2>3, EditAlike
<1>8. \A b \in Ids : InSlot(t, b)' => ~Unfilled(t, b) /\ ~Works(t, b, {"fill"})
  BY <1>1, <1>2 DEF Unfilled, Works, At, LocalOK, KindOf, MineOf, HandOf, CountOf, Requests,
    Flushing, Scanning, Freeing, Stuck
<1> QED
  BY <1>r, <1>4, <1>5, <1>6, <1>7, <1>8, DataFrame

LEMMA RemoveWriteData ==
  ASSUME Sound, Data, NEW t \in Datasets, Remove(t), Mine(t).dirty /\ ~thread[t].err,
    thread[t].kind \in Flushing
  PROVE  Data'
<1> DEFINE old == thread[t]
<1>1. LocalOK(t, old) /\ Typed /\ Control /\ Places
  BY LocalNow DEF Sound
<1> DEFINE r == Locals("free", old.kind, old.pos, old.mine, old.victim, <<<<t, old.mine>>>>,
  old.counted, old.again, old.err, old.ops)
<1>2. old.pc = "remove" /\ (Mine(t).dirty /\ ~old.err) /\ Becomes(t, r)
  BY <1>1, RemoveWriteStep
<1>r. Becomes(t, r)
  BY <1>2
<1>3. r.pc = "free" /\ r.kind = old.kind /\ r.err = old.err
  BY DEF Locals
<1> HIDE DEF r
<1>4. /\ old.pc # "iwrite" /\ r.pc \notin {"iwrite", "failed", "giveback"}
      /\ r.pc = "take" => r.kind \notin Requests
      /\ r.err => old.err \/ flushErr[t]
  BY <1>1, <1>2, <1>3 DEF LocalOK, KindOf, MineOf, HandOf, CountOf, Requests, Flushing,
    Scanning, Freeing, Stuck
<1>5. /\ UNCHANGED <<faults, disk, written, raced>>
      /\ \A d \in Datasets : flushErr'[d] => flushErr[d]
  BY <1>1 DEF Remove, band, history, Typed
<1>6. \A d \in Datasets : SlotsOut(d)
  BY <1>1, <1>2 DEF Remove, SlotsOut, Typed, cache
<1>7. \A d \in Datasets : Alike(d)
  <2>1. PICK b \in Ids : b = old.mine
    BY <1>1, <1>2 DEF LocalOK, KindOf, MineOf, HandOf, CountOf, Requests, Flushing, Scanning,
      Freeing, Stuck
  <2> DEFINE e == [block[t][b] EXCEPT !.listed = FALSE]
  <2>2. block' = [block EXCEPT ![t][b] = e]
    BY <1>1, <1>2, <2>1 DEF Remove, SetMine, Mine
  <2>3. /\ e.live = block[t][b].live /\ e.dirty = block[t][b].dirty
        /\ e.pos = block[t][b].pos /\ e.val = block[t][b].val
    BY <1>1 DEF Typed, Entries
  <2> HIDE DEF e
  <2> QED
    BY <1>1, <2>2, <2>3, EditAlike
<1>8. \A b \in Ids : InSlot(t, b)' => ~Unfilled(t, b) /\ ~Works(t, b, {"fill"})
  BY <1>1, <1>2 DEF Unfilled, Works, At, LocalOK, KindOf, MineOf, HandOf, CountOf, Requests,
    Flushing, Scanning, Freeing, Stuck
<1> QED
  BY <1>r, <1>4, <1>5, <1>6, <1>7, <1>8, DataFrame

LEMMA FlushBlocksData ==
  ASSUME Sound, Data, NEW t \in Datasets, FlushBlocks(t)
  PROVE  Data'
<1> DEFINE old == thread[t]
<1>1. LocalOK(t, old) /\ Typed /\ Control /\ Places
  BY LocalNow DEF Sound
<1> DEFINE R(j) == Locals(IF j \in Positions THEN "take" ELSE "wait", old.kind, j, NoBlock,
  old.victim, <<>>, old.counted, old.again, flushErr[t], old.ops)
<1>2. PICK j : old.pc = "flushing" /\ NextSlot(t, 1, j) /\ Becomes(t, R(j))
  BY <1>1, FlushBlocksStep
<1> DEFINE r == R(j)
<1>r. Becomes(t, r)
  BY <1>2
<1>3. r.pc = (IF j \in Positions THEN "take" ELSE "wait") /\ r.kind = old.kind /\ r.err =
      flushErr[t]
  BY DEF Locals
<1> HIDE DEF r
<1>4. /\ old.pc # "iwrite" /\ r.pc \notin {"iwrite", "failed", "giveback"}
      /\ r.pc = "take" => r.kind \notin Requests
      /\ r.err => old.err \/ flushErr[t]
  BY <1>1, <1>2, <1>3 DEF LocalOK, KindOf, MineOf, HandOf, CountOf, Requests, Flushing,
    Scanning, Freeing, Stuck
<1>5. /\ UNCHANGED <<faults, disk, written, raced>>
      /\ \A d \in Datasets : flushErr'[d] => flushErr[d]
  BY <1>1 DEF FlushBlocks, band, history, Typed
<1>6. \A d \in Datasets : SlotsOut(d)
  BY <1>1, <1>2 DEF FlushBlocks, SlotsOut, Typed, cache
<1>7. \A d \in Datasets : Alike(d)
  <2>1. block' = [block EXCEPT ![t] = Dangling(t, @)] /\ slot' = slot
    BY <1>2 DEF FlushBlocks
  <2>2. \A b \in freeList[t] : ~InSlot(t, b)'
    BY <1>1, <2>1, FreeNotSlotted DEF InSlot, Typed
  <2> QED
    BY <2>1, <2>2, RowAlike
<1>8. \A b \in Ids : InSlot(t, b)' => ~Unfilled(t, b) /\ ~Works(t, b, {"fill"})
  BY <1>1, <1>2 DEF Unfilled, Works, At, LocalOK, KindOf, MineOf, HandOf, CountOf, Requests,
    Flushing, Scanning, Freeing, Stuck
<1> QED
  BY <1>r, <1>4, <1>5, <1>6, <1>7, <1>8, DataFrame

LEMMA DestroyedData ==
  ASSUME Sound, Data, NEW t \in Datasets, Flushed(t), thread[t].kind = "destroy"
  PROVE  Data'
<1> DEFINE old == thread[t]
<1>1. LocalOK(t, old) /\ Typed /\ Control /\ Places
  BY LocalNow DEF Sound
<1> DEFINE r == Locals("closed", "destroy", 0, NoBlock, NoVictim, <<>>, FALSE, FALSE, FALSE,
  0)
<1>2. old.pc = "wait" /\ (old.kind = "destroy") /\ Becomes(t, r)
  BY <1>1, DestroyedStep
<1>r. Becomes(t, r)
  BY <1>2
<1>3. r.pc = "closed" /\ r.kind = "destroy" /\ r.err = FALSE
  BY DEF Locals
<1> HIDE DEF r
<1>4. /\ old.pc # "iwrite" /\ r.pc \notin {"iwrite", "failed", "giveback"}
      /\ r.pc = "take" => r.kind \notin Requests
      /\ r.err => old.err \/ flushErr[t]
  BY <1>1, <1>2, <1>3 DEF LocalOK, KindOf, MineOf, HandOf, CountOf, Requests, Flushing,
    Scanning, Freeing, Stuck
<1>5. /\ UNCHANGED <<faults, disk, written, raced>>
      /\ \A d \in Datasets : flushErr'[d] => flushErr[d]
  BY <1>1 DEF Flushed, band, history, Typed
<1>6. \A d \in Datasets : SlotsOut(d)
  BY <1>1, <1>2 DEF Flushed, SlotsOut, Typed, cache
<1>7. \A d \in Datasets : Alike(d)
  <2>1. block' = [block EXCEPT ![t] = Dangling(t, @)] /\ slot' = slot
    BY <1>2 DEF Flushed
  <2>2. \A b \in freeList[t] : ~InSlot(t, b)'
    BY <1>1, <2>1, FreeNotSlotted DEF InSlot, Typed
  <2> QED
    BY <2>1, <2>2, RowAlike
<1>8. \A b \in Ids : InSlot(t, b)' => ~Unfilled(t, b) /\ ~Works(t, b, {"fill"})
  BY <1>1, <1>2 DEF Unfilled, Works, At, LocalOK, KindOf, MineOf, HandOf, CountOf, Requests,
    Flushing, Scanning, Freeing, Stuck
<1> QED
  BY <1>r, <1>4, <1>5, <1>6, <1>7, <1>8, DataFrame

LEMMA DeleteData ==
  ASSUME Sound, Data, NEW t \in Datasets, Delete(t)
  PROVE  Data'
<1> DEFINE old == thread[t]
<1>1. LocalOK(t, old) /\ Typed /\ Control /\ Places
  BY LocalNow DEF Sound
<1> DEFINE R(j) == Locals(IF j \in Positions THEN "take" ELSE "wait", old.kind, j, NoBlock,
  old.victim, <<>>, old.counted, old.again, old.err, old.ops)
<1>2. PICK j : old.pc = "delete" /\ old.kind \in Flushing /\ NextSlot(t, old.pos + 1, j) /\
  Becomes(t, R(j))
  BY <1>1, DeleteStep
<1> DEFINE r == R(j)
<1>r. Becomes(t, r)
  BY <1>2
<1>3. r.pc = (IF j \in Positions THEN "take" ELSE "wait") /\ r.kind = old.kind /\ r.err =
      old.err
  BY DEF Locals
<1> HIDE DEF r
<1>4. /\ old.pc # "iwrite" /\ r.pc \notin {"iwrite", "failed", "giveback"}
      /\ r.pc = "take" => r.kind \notin Requests
      /\ r.err => old.err \/ flushErr[t]
  BY <1>1, <1>2, <1>3 DEF LocalOK, KindOf, MineOf, HandOf, CountOf, Requests, Flushing,
    Scanning, Freeing, Stuck
<1>5. /\ UNCHANGED <<faults, disk, written, raced>>
      /\ \A d \in Datasets : flushErr'[d] => flushErr[d]
  BY <1>1 DEF Delete, band, history, Typed
<1>6. \A d \in Datasets : SlotsOut(d)
  BY <1>1, <1>2 DEF Delete, SlotsOut, Typed, cache
<1>7. \A d \in Datasets : Alike(d)
  <2>1. PICK b \in Ids : b = old.mine
    BY <1>1, <1>2 DEF LocalOK, KindOf, MineOf, HandOf, CountOf, Requests, Flushing, Scanning,
      Freeing, Stuck
  <2>2. block' = [block EXCEPT ![t][b] = Deleted]
    BY <1>2, <2>1 DEF Delete, SetMine
  <2>3. ~Pending(t, b) /\ ~Writing(t, b) /\ ~InSlot(t, b)
    BY <1>2, <2>1, RemovedBlank
  <2>4. ~InSlot(t, b)'
    BY <2>3 DEF InSlot, Delete
  <2>5. ~Deleted.dirty
    BY DEF Deleted
  <2> QED
    BY <1>1, <2>2, <2>3, <2>4, <2>5, BlankAlike
<1>8. \A b \in Ids : InSlot(t, b)' => ~Unfilled(t, b) /\ ~Works(t, b, {"fill"})
  BY <1>1, <1>2 DEF Unfilled, Works, At, LocalOK, KindOf, MineOf, HandOf, CountOf, Requests,
    Flushing, Scanning, Freeing, Stuck
<1> QED
  BY <1>r, <1>4, <1>5, <1>6, <1>7, <1>8, DataFrame

LEMMA RemoveLeaveData ==
  ASSUME Sound, Data, NEW t \in Datasets, Remove(t), ~(Mine(t).dirty /\ ~thread[t].err),
    thread[t].kind \notin Flushing
  PROVE  Data'
<1> DEFINE old == thread[t]
<1>1. LocalOK(t, old) /\ Typed /\ Control /\ Places
  BY LocalNow DEF Sound
<1> DEFINE r == Locals("leave", old.kind, old.pos, old.mine, old.victim, old.togo,
  old.counted, old.again, old.err, old.ops)
<1>2. old.pc = "remove" /\ (~(Mine(t).dirty /\ ~old.err)) /\ (old.kind \notin Flushing) /\
  Becomes(t, r)
  BY <1>1, RemoveLeaveStep
<1>r. Becomes(t, r)
  BY <1>2
<1>3. r.pc = "leave" /\ r.kind = old.kind /\ r.err = old.err
  BY DEF Locals
<1> HIDE DEF r
<1>4. /\ old.pc # "iwrite" /\ r.pc \notin {"iwrite", "failed", "giveback"}
      /\ r.pc = "take" => r.kind \notin Requests
      /\ r.err => old.err \/ flushErr[t]
  BY <1>1, <1>2, <1>3 DEF LocalOK, KindOf, MineOf, HandOf, CountOf, Requests, Flushing,
    Scanning, Freeing, Stuck
<1>5. /\ UNCHANGED <<faults, disk, written, raced>>
      /\ \A d \in Datasets : flushErr'[d] => flushErr[d]
  BY <1>1 DEF Remove, band, history, Typed
<1>6. \A d \in Datasets : SlotsOut(d)
  BY <1>1, <1>2 DEF Remove, SlotsOut, Typed, cache
<1>7. \A d \in Datasets : Alike(d)
  <2>0. ~Mine(t).dirty
    BY <1>1, <1>2 DEF LocalOK, KindOf, MineOf, HandOf, CountOf, Requests, Flushing, Scanning,
      Freeing, Stuck
  <2>1. PICK b \in Ids : b = old.mine
    BY <1>1, <1>2 DEF LocalOK, KindOf, MineOf, HandOf, CountOf, Requests, Flushing, Scanning,
      Freeing, Stuck
  <2>2. block' = [block EXCEPT ![t][b] = Deleted]
    BY <1>2, <2>1 DEF Remove, SetMine
  <2>3. ~Pending(t, b) /\ ~Writing(t, b) /\ ~InSlot(t, b)
    BY <1>2, <2>1, <2>0, RemovedBlank
  <2>4. ~InSlot(t, b)'
    BY <2>3 DEF InSlot, Remove
  <2>5. ~Deleted.dirty
    BY DEF Deleted
  <2> QED
    BY <1>1, <2>2, <2>3, <2>4, <2>5, BlankAlike
<1>8. \A b \in Ids : InSlot(t, b)' => ~Unfilled(t, b) /\ ~Works(t, b, {"fill"})
  BY <1>1, <1>2 DEF Unfilled, Works, At, LocalOK, KindOf, MineOf, HandOf, CountOf, Requests,
    Flushing, Scanning, Freeing, Stuck
<1> QED
  BY <1>r, <1>4, <1>5, <1>6, <1>7, <1>8, DataFrame

LEMMA ClaimData ==
  ASSUME Sound, Data, NEW t \in Datasets, NEW x \in AllBlocks, Claim(t, x)
  PROVE  Data'
<1> DEFINE old == thread[t]
           r == Locals("unref", old.kind, old.pos, old.mine, x, old.togo, old.counted,
                       old.again, old.err, old.ops)
<1>1. LocalOK(t, old) /\ Typed /\ Control /\ Places
  BY LocalNow DEF Sound
<1>2. x \notin HandsOf(t)
  BY <1>1, ClaimPlaces
<1>3. old.pc = "scan" /\ Becomes(t, r)
  BY <1>1, <1>2, ClaimStep
<1>r. Becomes(t, r)
  BY <1>3
<1>4. r.pc = "unref" /\ r.kind = old.kind /\ r.err = old.err
  BY DEF Locals
<1> HIDE DEF r
<1>5. UNCHANGED <<faults, disk, written, raced>> /\ flushErr' = flushErr /\ slot' = slot
  BY DEF Claim, history
<1>6. \A d \in Datasets : SlotsOut(d)
  BY <1>5 DEF SlotsOut
<1>7. \A d \in Datasets : Alike(d)
  <2>1. PICK d \in Datasets, b \in Ids : x = <<d, b>> /\ x[1] = d /\ x[2] = b
    BY Pairs
  <2> DEFINE e == [block[d][b] EXCEPT !.lock = -1, !.listed = FALSE]
  <2>2. block' = [block EXCEPT ![d][b] = e]
    BY <2>1 DEF Claim, SetThe, The
  <2>3. /\ e.live = block[d][b].live /\ e.dirty = block[d][b].dirty
        /\ e.pos = block[d][b].pos /\ e.val = block[d][b].val
    BY <1>1 DEF Typed, Entries
  <2> HIDE DEF e
  <2> QED
    BY <1>1, <2>2, <2>3, EditAlike
<1>8. \A b \in Ids : InSlot(t, b)' => ~Unfilled(t, b) /\ ~Works(t, b, {"fill"})
  BY <1>3 DEF Unfilled, Works, At
<1> QED
  BY <1>3, <1>r, <1>4, <1>5, <1>6, <1>7, <1>8, DataFrame

LEMMA CreateData ==
  ASSUME Sound, Data, NEW t \in Datasets, CreateBlock(t)
  PROVE  Data'
<1> DEFINE old == thread[t]
<1>1. PICK b : b = Least(Available(t))
  OBVIOUS
<1> DEFINE r == Locals("internalize", old.kind, old.pos, b, old.victim, old.togo, old.counted,
                       old.again, old.err, old.ops)
<1>2. LocalOK(t, old) /\ Typed /\ Control /\ Places
  BY LocalNow DEF Sound
<1>3. /\ old.pc = "create" \/ old.pc = "lookup"
      /\ b \in Available(t) /\ b \in Ids /\ Becomes(t, r)
  BY <1>1, <1>2, CreateStep
<1>r. Becomes(t, r)
  BY <1>3
<1>4. r.pc = "internalize" /\ r.kind = old.kind /\ r.err = old.err
  BY DEF Locals
<1> HIDE DEF r
<1>5. UNCHANGED <<faults, disk, written, raced>> /\ flushErr' = flushErr /\ slot' = slot
  BY DEF CreateBlock, history
<1>6. \A d \in Datasets : SlotsOut(d)
  BY <1>5 DEF SlotsOut
<1>7. \A d \in Datasets : Alike(d)
  <2>1. b \in freeList[t] \/ ~block[t][b].live
    BY <1>3 DEF Available
  <2>2. ~Pending(t, b) /\ ~Writing(t, b) /\ ~InSlot(t, b)'
    BY <1>3, <1>5, <2>1, FreeNotWriting, FreeNotSlotted DEF InSlot
  <2> DEFINE e == [Fresh(old.pos) EXCEPT !.lock = 1]
  <2>3. block' = [block EXCEPT ![t][b] = e]
    BY <1>1 DEF CreateBlock
  <2>4. ~e.dirty
    BY DEF Fresh, Deleted
  <2> HIDE DEF e
  <2> QED
    BY <1>2, <1>3, <2>2, <2>3, <2>4, BlankAlike
<1>8. \A b0 \in Ids : InSlot(t, b0)' => ~Unfilled(t, b0) /\ ~Works(t, b0, {"fill"})
  BY <1>3 DEF Unfilled, Works, At
<1>9. ~old.err
  BY <1>2, <1>3 DEF LocalOK, KindOf, CountOf, Requests, Flushing
<1> QED
  BY <1>3, <1>r, <1>4, <1>5, <1>6, <1>7, <1>8, <1>9, DataFrame

LEMMA AddBlockData ==
  ASSUME Sound, Data, NEW t \in Datasets, AddBlockToFreeList(t)
  PROVE  Data'
<1> DEFINE old == thread[t]
           r == Locals("countdown", old.kind, old.pos, old.mine, old.victim, old.togo,
                       old.counted, old.again, old.err, old.ops)
<1>1. LocalOK(t, old) /\ Typed /\ Control /\ Places /\ old.kind \notin Flushing
  BY LocalNow, AddBlockPlaces DEF Sound
<1>2. old.pc \in {"giveback", "free"} /\ old.togo # <<>> /\ Becomes(t, r)
  BY <1>1, AddBlockStep
<1>r. Becomes(t, r)
  BY <1>2
<1>3. r.pc = "countdown" /\ r.kind = old.kind /\ r.err = old.err
  BY DEF Locals
<1> HIDE DEF r
<1>4. UNCHANGED <<faults, disk, written, raced>> /\ flushErr' = flushErr /\ slot' = slot
  BY DEF AddBlockToFreeList, history
<1>5. \A d \in Datasets : SlotsOut(d)
  BY <1>4 DEF SlotsOut
<1>6. \A d \in Datasets : Alike(d)
  <2>1. First(t) \in AllBlocks /\ First(t) \in Held(t)
    BY <1>1, <1>2, FirstHand DEF Freeing
  <2>2. PICK d \in Datasets, b \in Ids : First(t) = <<d, b>> /\ First(t)[1] = d /\ First(t)[2] = b
    BY <2>1, Pairs
  <2>3. ~block[d][b].dirty
    <3>1. CASE old.pc = "giveback"
      BY <2>2, <3>1 DEF Data, CleanHand, The
    <3>2. CASE old.pc # "giveback"
      BY <2>2, <3>2 DEF AddBlockToFreeList, At, The
    <3> QED
      BY <3>1, <3>2
  <2>4. ~InSlot(d, b) /\ ~Own(d, b) /\ \A u \in Datasets : <<d, b>> \in Held(u) => u = t
    <3>1. ~Leaving(d, b)
      <4>1. SUFFICES ASSUME NEW u \in Datasets, thread[u].pc = "unref",
                            thread[u].victim = <<d, b>>
                     PROVE  FALSE
        BY DEF Leaving
      <4>2. <<d, b>> \in Held(u)
        BY <1>1, <4>1, LocalNow DEF Held, HandsOf, NoVictim, LocalOK, KindOf, Scanning, Requests, Flushing
      <4> QED
        BY <1>1, <1>2, <2>1, <2>2, <4>1, <4>2, InHand
    <3> QED
      BY <1>1, <2>1, <2>2, <3>1, InHand
  <2>5. ~Writing(d, b)
    <3>1. SUFFICES ASSUME NEW u \in Datasets, At(u, "iwrite"), First(u) = <<d, b>> PROVE FALSE
      BY DEF Writing
    <3>2. Own(d, b) \/ <<d, b>> \in Held(u)
      BY <3>1, WritingHand
    <3> QED
      BY <1>2, <2>4, <3>1, <3>2 DEF At
  <2>6. ~InSlot(d, b)'
    BY <1>4, <2>4 DEF InSlot
  <2> DEFINE e == [Fresh(0) EXCEPT !.lock = block[d][b].lock]
  <2>7. block' = [block EXCEPT ![d][b] = e]
    BY <2>2 DEF AddBlockToFreeList, SetThe, The
  <2>8. ~e.dirty
    BY DEF Fresh, Deleted
  <2> HIDE DEF e
  <2> QED
    BY <1>1, <2>3, <2>5, <2>6, <2>7, <2>8, BlankAlike DEF Pending
<1>7. \A b \in Ids : InSlot(t, b)' => ~Unfilled(t, b) /\ ~Works(t, b, {"fill"})
  BY <1>2 DEF Unfilled, Works, At
<1> QED
  BY <1>2, <1>r, <1>3, <1>4, <1>5, <1>6, <1>7, DataFrame
-----------------------------------------------------------------------------
(* When writes may fail, what the blocks hold is not promised.             *)
LEMMA UnreliableData ==
  ASSUME Sound, Data, NEW t \in Datasets, NEW r, Becomes(t, r), faults' = faults,
         "write" \in faults, CleanHand(t)', r.pc = "take" => r.kind \notin Requests,
         \A d \in Datasets : SlotsOut(d),
         \A d \in Datasets : \A b \in Ids :
           block'[d][b].dirty = block[d][b].dirty \/ ~block'[d][b].dirty
  PROVE  Data'
<1>1. thread'[t] = r /\ \A u \in Datasets \ {t} : thread'[u] = thread[u]
  BY Others DEF Sound
<1>2. Faultless' /\ \A d \in Datasets : ValuesOK(d)'
  BY DEF Faultless, ValuesOK, Reliable
<1>3. \A u \in Datasets : CleanHand(u)'
  BY OthersHand
<1>4. ASSUME NEW u \in Datasets
      PROVE  Retaken(u)'
  <2>1. CASE u = t
    BY <1>1, <2>1 DEF Retaken, At
  <2>2. CASE u # t
    <3>1. thread'[u] = thread[u] /\ Retaken(u) /\ SlotsOut(u)
      BY <1>1, <2>2 DEF Data
    <3> QED
      BY <3>1 DEF Retaken, SlotsOut, At, Ids, NoBlock
  <2> QED
    BY <2>1, <2>2
<1> QED
  BY <1>2, <1>3, <1>4 DEF Data

LEMMA RemoveNextData ==
  ASSUME Sound, Data, NEW t \in Datasets, Remove(t), ~(Mine(t).dirty /\ ~thread[t].err),
         thread[t].kind \in Flushing
  PROVE  Data'
<1> DEFINE old == thread[t]
           R(j) == Locals(IF j \in Positions THEN "take" ELSE "wait", old.kind, j, NoBlock,
                          old.victim, <<>>, old.counted, old.again, old.err, old.ops)
<1>1. LocalOK(t, old) /\ Typed /\ Control /\ Places
  BY LocalNow DEF Sound
<1>2. PICK j : old.pc = "remove" /\ Becomes(t, R(j))
  BY <1>1, RemoveNextStep
<1> DEFINE r == R(j)
<1>r. Becomes(t, r)
  BY <1>2
<1>3. r.pc = (IF j \in Positions THEN "take" ELSE "wait") /\ r.kind = old.kind /\ r.err = old.err
  BY DEF Locals
<1> HIDE DEF r
<1>4. UNCHANGED <<faults, disk, written, raced>> /\ flushErr' = flushErr /\ slot' = slot
  BY DEF Remove, band
<1>5. \A d \in Datasets : SlotsOut(d)
  BY <1>4 DEF SlotsOut
<1>6. PICK b \in Ids : b = old.mine
  BY <1>1, <1>2 DEF LocalOK, MineOf
<1>7. block' = [block EXCEPT ![t][b] = Deleted] /\ ~Deleted.dirty
  BY <1>2, <1>6 DEF Remove, SetMine, Deleted
<1>8. CASE ~Mine(t).dirty
  <2>1. ~Pending(t, b) /\ ~Writing(t, b) /\ ~InSlot(t, b)'
    BY <1>2, <1>4, <1>6, <1>8, RemovedBlank DEF InSlot
  <2>2. \A d \in Datasets : Alike(d)
    BY <1>1, <1>7, <2>1, BlankAlike
  <2>3. \A b0 \in Ids : InSlot(t, b0)' => ~Unfilled(t, b0) /\ ~Works(t, b0, {"fill"})
    BY <1>2 DEF Unfilled, Works, At
  <2> QED
    BY <1>2, <1>r, <1>3, <1>4, <1>5, <2>2, <2>3, DataFrame DEF Flushing, Requests
<1>9. CASE Mine(t).dirty
  <2>1. "write" \in faults
    BY <1>9 DEF Data, Faultless
  <2>2. \A d \in Datasets : \A c \in Ids :
          block'[d][c].dirty = block[d][c].dirty \/ ~block'[d][c].dirty
    <3>1. /\ block'[t][b] = Deleted /\ block[t][b] \in Entries
          /\ \A c \in Ids \ {b} : block'[t][c] = block[t][c]
          /\ \A c \in Datasets \ {t} : block'[c] = block[c]
      BY <1>1, <1>7, EditBlock
    <3> QED
      BY <1>7, <3>1
  <2>3. CleanHand(t)'
    <3>1. thread'[t] = r
      BY <1>1, <1>r, Others
    <3> QED
      BY <1>3, <3>1 DEF CleanHand
  <2> QED
    BY <1>r, <1>3, <1>4, <1>5, <2>1, <2>2, <2>3, UnreliableData DEF Flushing, Requests
<1> QED
  BY <1>8, <1>9

LEMMA WriteFailedData ==
  ASSUME Sound, Data, NEW t \in Datasets, WriteFailed(t)
  PROVE  Data'
<1>1. "write" \in faults /\ faults' = faults /\ At(t, "failed")
  BY DEF WriteFailed, Data, Faultless
<1>2. UNCHANGED <<block, slot>>
  BY DEF WriteFailed, cache
<1>3. (\A d \in Datasets : SlotsOut(d)) /\ Typed /\ Control
  BY <1>2 DEF SlotsOut, Sound
<1>4. PICK w, e : Becomes(t, Locals(w, thread[t].kind, thread[t].pos, thread[t].mine,
                                    thread[t].victim, thread[t].togo, thread[t].counted,
                                    thread[t].again, e, thread[t].ops))
                  /\ w \in {"delete", "giveback"}
  BY <1>3, WriteFailedFlushStep, WriteFailedStep
<1> DEFINE r == Locals(w, thread[t].kind, thread[t].pos, thread[t].mine, thread[t].victim,
                       thread[t].togo, thread[t].counted, thread[t].again, e, thread[t].ops)
<1>r. Becomes(t, r)
  BY <1>4
<1>5. r.pc = w /\ r.togo = thread[t].togo
  BY DEF Locals
<1> HIDE DEF r
<1>6. thread'[t] = r
  BY <1>3, <1>r, Others
<1>7. CleanHand(t)'
  <2>1. ~The(First(t)).dirty
    BY <1>1 DEF Data, CleanHand, At
  <2>2. PICK x : x = First(t)
    OBVIOUS
  <2>3. First(t)' = x
    BY <1>5, <1>6, <2>2 DEF First
  <2> QED
    BY <1>2, <2>1, <2>2, <2>3 DEF CleanHand, The
<1> QED
  BY <1>1, <1>2, <1>3, <1>r, <1>4, <1>5, <1>7, UnreliableData
-----------------------------------------------------------------------------
(***************************************************************************)
(* The steps that write, and those that fill a block.                      *)
(***************************************************************************)
(* The block that is at hand is nobody else's.                             *)
LEMMA FirstAlone ==
  ASSUME Sound, NEW t \in Datasets, thread[t].pc \in {"free", "iwrite"}, thread[t].togo # <<>>
  PROVE  \E d \in Datasets, b \in Ids :
           /\ First(t) = <<d, b>> /\ First(t)[1] = d /\ First(t)[2] = b
           /\ block[d][b].live /\ block[d][b].pos \in Positions /\ ~InSlot(d, b)
           /\ \A u \in Datasets : At(u, "iwrite") /\ First(u) = <<d, b>> => u = t
<1>1. Typed /\ Control /\ Places /\ LocalOK(t, thread[t])
  BY LocalNow DEF Sound
<1>2. CASE thread[t].kind \in Flushing
  <2>1. PICK b \in Ids : b = thread[t].mine
    BY <1>1, <1>2 DEF LocalOK, MineOf, Freeing
  <2>2. First(t) = <<t, b>>
    BY <1>1, <1>2, <2>1 DEF LocalOK, HandOf, Freeing, First
  <2>3. Own(t, b) /\ BlockOK(t, b)
    BY <1>1, <1>2, <2>1 DEF Own, Owned, Places
  <2>4. block[t][b].live /\ block[t][b].pos \in Positions /\ ~InSlot(t, b)
    BY <1>1, <1>2, <2>1 DEF Places, Mine1, Flusher, LocalOK, MineOf, Freeing
  <2>5. ASSUME NEW u \in Datasets, At(u, "iwrite"), First(u) = <<t, b>>
        PROVE  u = t
    <3>1. u = t \/ <<t, b>> \in Held(u)
      BY <2>5, WritingHand
    <3> QED
      BY <2>3, <3>1 DEF BlockOK, OutOfList, Evicted
  <2> QED
    BY <2>2, <2>4, <2>5
<1>3. CASE thread[t].kind \notin Flushing
  <2>1. First(t) \in AllBlocks /\ First(t) \in Held(t)
    BY <1>1, <1>3, FirstHand DEF Freeing
  <2>2. PICK d \in Datasets, b \in Ids : First(t) = <<d, b>> /\ First(t)[1] = d /\ First(t)[2] = b
    BY <2>1, Pairs
  <2>3. <<d, b>> \in Held(t)
    BY <2>1, <2>2
  <2>4. /\ block[d][b].live /\ block[d][b].pos \in Positions /\ ~Own(d, b)
        /\ ~Leaving(d, b) => ~InSlot(d, b)
        /\ \A u \in Datasets : <<d, b>> \in Held(u) => u = t
    BY <1>1, <2>3, InHand
  <2>5. ~Leaving(d, b)
    <3>1. SUFFICES ASSUME NEW u \in Datasets, thread[u].pc = "unref", thread[u].victim = <<d, b>>
                   PROVE  FALSE
      BY DEF Leaving
    <3>2. <<d, b>> \in Held(u)
      BY <1>1, <3>1, LocalNow DEF Held, HandsOf, NoVictim, LocalOK, KindOf, Scanning, Requests, Flushing
    <3> QED
      BY <2>4, <3>1, <3>2
  <2>6. ASSUME NEW u \in Datasets, At(u, "iwrite"), First(u) = <<d, b>>
        PROVE  u = t
    <3>1. Own(d, b) \/ <<d, b>> \in Held(u)
      BY <2>6, WritingHand
    <3> QED
      BY <2>4, <3>1
  <2> QED
    BY <2>2, <2>4, <2>5, <2>6
<1> QED
  BY <1>2, <1>3

(* Where a pending block is.                                               *)
LEMMA PendingPlace ==
  ASSUME Sound, NEW d \in Datasets, NEW b \in Ids, Pending(d, b)
  PROVE  /\ block[d][b].pos \in Positions
         /\ \/ InSlot(d, b) \/ Evicted(d, b)
            \/ thread[d].mine = b /\ thread[d].pc \in {"droplock", "remove", "free", "iwrite"}
<1>1. BlockOK(d, b) /\ Mine1(d) /\ LocalOK(d, thread[d])
  BY LocalNow DEF Sound, Places
<1>2. block[d][b].live /\ b \notin freeList[d]
  BY FreeNotWriting DEF Pending
<1>3. CASE InSlot(d, b)
  BY <1>1, <1>3 DEF BlockOK, Slotted, InSlot
<1>4. CASE Evicted(d, b)
  BY <1>1, <1>4 DEF BlockOK, OutOfList
<1>5. CASE Works(d, b, {"droplock"}) /\ ~Evicted(d, b)
  <2>1. thread[d].pos \in Positions
    BY <1>1, <1>5 DEF Works, LocalOK, KindOf, MineOf
  <2> QED
    BY <1>1, <1>2, <1>5, <2>1 DEF Works, Mine1
<1>6. CASE Own(d, b) /\ ~Evicted(d, b)
  <2>1. thread[d].mine = b /\ b # NoBlock
    BY <1>6 DEF Own, Owned, Ids, NoBlock
  <2>2. CASE ~block[d][b].dirty
    <3>1. PICK u \in Datasets : At(u, "iwrite") /\ First(u) = <<d, b>>
      BY <2>2 DEF Pending, Writing
    <3>2. thread[d].kind \in Flushing /\ thread[d].pc = "iwrite"
      BY <1>6, <3>1, WritingHand DEF Evicted, At
    <3> QED
      BY <1>1, <2>1, <3>2 DEF Mine1, Flusher, LocalOK, MineOf, Freeing
  <2>3. CASE block[d][b].dirty
    <3>1. ~Making(d)
      BY <1>1, <2>1, <2>3 DEF Mine1
    <3>2. thread[d].kind \notin Flushing => thread[d].pc = "remove"
      BY <1>1, <1>6, <2>1, <3>1 DEF Own, Owned, Making, LocalOK, KindOf, MineOf, Scanning,
        Freeing, Requests, Flushing
    <3>3. thread[d].pc = "remove" \/ Flusher(d)
      BY <1>1, <1>6, <3>2 DEF Own, Owned, Flusher, LocalOK, KindOf
    <3>4. thread[d].pc = "remove" \/ (Flusher(d) /\ thread[d].pc = "free")
      BY <1>1, <2>1, <2>3, <3>3 DEF Mine1
    <3>5. thread[d].pos \in Positions
      BY <1>1, <3>4 DEF LocalOK, KindOf, MineOf, Flusher
    <3> QED
      BY <1>1, <2>1, <3>4, <3>5 DEF Mine1
  <2> QED
    BY <2>2, <2>3
<1> QED
  BY <1>1, <1>2, <1>3, <1>4, <1>5, <1>6 DEF BlockOK, Placed

LEMMA WritingChange ==
  ASSUME Sound, NEW t \in Datasets, NEW r, Becomes(t, r), r.togo = thread[t].togo
  PROVE  \A d, b : Writing(d, b)' <=>
           \/ \E u \in Datasets \ {t} : At(u, "iwrite") /\ First(u) = <<d, b>>
           \/ r.pc = "iwrite" /\ First(t) = <<d, b>>
<1>1. ASSUME NEW u \in Datasets \ {t}
      PROVE  (At(u, "iwrite")' <=> At(u, "iwrite")) /\ First(u)' = First(u)
  BY Others DEF Sound, At, First
<1>2. (At(t, "iwrite")' <=> r.pc = "iwrite") /\ First(t)' = First(t)
  BY Others DEF Sound, At, First
<1> QED
  BY <1>1, <1>2 DEF Writing

LEMMA WriteData ==
  ASSUME Sound, Data, NEW t \in Datasets, Write(t)
  PROVE  Data'
<1> DEFINE old == thread[t]
           r == Locals(IF flushErr[First(t)[1]] THEN "failed" ELSE "iwrite", old.kind,
                       old.pos, old.mine, old.victim, old.togo, old.counted, old.again,
                       old.err, old.ops)
<1>1. LocalOK(t, old) /\ Typed /\ Control /\ Places
  BY LocalNow DEF Sound
<1>2. old.pc = "free" /\ old.togo # <<>> /\ The(First(t)).dirty /\ Becomes(t, r)
  BY <1>1, WriteStep
<1>r. Becomes(t, r)
  BY <1>2
<1>3. /\ r.pc = IF flushErr[First(t)[1]] THEN "failed" ELSE "iwrite"
      /\ r.kind = old.kind /\ r.err = old.err /\ r.togo = old.togo
  BY DEF Locals
<1> HIDE DEF r
<1>4. UNCHANGED <<faults, disk, written, raced>> /\ flushErr' = flushErr /\ slot' = slot
  BY DEF Write, band
<1>5. \A c \in Datasets : SlotsOut(c)
  BY <1>4 DEF SlotsOut
<1>6. PICK d \in Datasets, b \in Ids :
        /\ First(t) = <<d, b>> /\ First(t)[1] = d /\ First(t)[2] = b
        /\ block[d][b].live /\ ~InSlot(d, b)
  BY <1>2, FirstAlone
<1>7. thread'[t] = r
  BY <1>1, <1>r, Others
<1>8. /\ \A c \in Ids \ {b} : block'[d][c] = block[d][c]
      /\ \A c \in Datasets \ {d} : block'[c] = block[c]
      /\ block[d][b].dirty /\ ~block'[d][b].dirty /\ block'[d][b].live
      /\ block'[d][b].pos = block[d][b].pos /\ block'[d][b].val = block[d][b].val
  <2> DEFINE e == [block[d][b] EXCEPT !.dirty = FALSE]
  <2>1. block' = [block EXCEPT ![d][b] = e] /\ block[d][b].dirty
    BY <1>2, <1>6 DEF Write, SetThe, The
  <2>2. /\ block'[d][b] = e /\ block[d][b] \in Entries
        /\ \A c \in Ids \ {b} : block'[d][c] = block[d][c]
        /\ \A c \in Datasets \ {d} : block'[c] = block[c]
    <3> HIDE DEF e
    <3> QED
      BY <1>1, <2>1, EditBlock
  <2> QED
    BY <1>6, <2>1, <2>2 DEF Entries
<1>9. \A c \in Datasets : \A a \in Ids :
        block'[c][a].dirty = block[c][a].dirty \/ ~block'[c][a].dirty
  BY <1>8
<1>10. CleanHand(t)'
  <2>1. PICK x : x = First(t)
    OBVIOUS
  <2>2. First(t)' = x
    BY <1>3, <1>7, <2>1 DEF First
  <2>3. ~block'[x[1]][x[2]].dirty
    BY <1>6, <1>8, <2>1
  <2> QED
    BY <2>2, <2>3 DEF CleanHand, The
<1>11. CASE "write" \in faults
  BY <1>r, <1>3, <1>4, <1>5, <1>9, <1>10, <1>11, UnreliableData
<1>12. CASE "write" \notin faults
  <2>1. r.pc = "iwrite" /\ Faultless'
    <3>1. \A c \in Datasets : ~flushErr[c]
      BY <1>12 DEF Data, Faultless
    <3>2. r.pc = "iwrite"
      BY <1>3, <1>6, <3>1
    <3> QED
      BY <1>r, <1>3, <1>4, <3>2, FaultlessFrame DEF Data
  <2>2. ASSUME NEW c \in Datasets, NEW a \in Ids
        PROVE  /\ Writing(c, a)' <=> Writing(c, a) \/ (c = d /\ a = b)
               /\ Pending(c, a)' <=> Pending(c, a)
               /\ block'[c][a].pos = block[c][a].pos /\ block'[c][a].val = block[c][a].val
    <3>1. Writing(c, a)' <=> Writing(c, a) \/ (c = d /\ a = b)
      <4>1. Writing(c, a)' <=> \/ \E u \in Datasets \ {t} : At(u, "iwrite") /\ First(u) = <<c, a>>
                               \/ First(t) = <<c, a>>
        BY <1>r, <1>3, <2>1, WritingChange
      <4>2. Writing(c, a) <=> \E u \in Datasets \ {t} : At(u, "iwrite") /\ First(u) = <<c, a>>
        BY <1>2 DEF Writing, At
      <4>3. First(t) = <<c, a>> <=> c = d /\ a = b
        BY <1>6
      <4> QED
        BY <4>1, <4>2, <4>3
    <3>2. CASE c = d /\ a = b
      BY <1>6, <1>8, <3>1, <3>2 DEF Pending
    <3>3. CASE c # d \/ a # b
      <4>1. block'[c][a] = block[c][a]
        BY <1>8, <3>3
      <4> QED
        BY <3>1, <3>3, <4>1 DEF Pending
    <3> QED
      BY <3>1, <3>2, <3>3
  <2>3. ASSUME NEW c \in Datasets
        PROVE  ValuesOK(c)' /\ Retaken(c)' /\ CleanHand(c)'
    <3>1. \A a \in Ids : /\ Unfilled(c, a) => Unfilled(c, a)'
                         /\ Works(c, a, {"fill"}) => Works(c, a, {"fill"})'
      <4>1. CASE c = t
        BY <1>2, <4>1 DEF Unfilled, Works, At
      <4>2. CASE c # t
        BY <1>1, <1>r, <4>2, Others DEF Unfilled, Works, At
      <4> QED
        BY <4>1, <4>2
    <3>2. ValuesOK(c) /\ Retaken(c)
      BY DEF Data
    <3>3. Reliable(c)' => Reliable(c)
      BY <1>4 DEF Reliable
    <3>4. ValuesOK(c)'
      BY <1>1, <1>4, <1>5, <2>2, <3>1, <3>2, <3>3, ValuesFrame
    <3>5. Retaken(c)'
      <4>1. CASE c = t
        BY <1>7, <2>1, <4>1 DEF Retaken, At
      <4>2. CASE c # t
        <5>1. thread'[c] = thread[c]
          BY <1>1, <1>r, <4>2, Others
        <5> QED
          BY <1>4, <3>2, <5>1 DEF Retaken, At
      <4> QED
        BY <4>1, <4>2
    <3>6. CleanHand(c)'
      BY <1>r, <1>9, <1>10, OthersHand
    <3> QED
      BY <3>4, <3>5, <3>6
  <2> QED
    BY <2>1, <2>3 DEF Data
<1> QED
  BY <1>11, <1>12

LEMMA IWriteData ==
  ASSUME Sound, Data, NEW t \in Datasets, IWriteBlock(t)
  PROVE  Data'
<1> DEFINE old == thread[t]
           R(j) == Locals(j, old.kind, old.pos, old.mine, old.victim, old.togo, old.counted,
                          old.again, old.err, old.ops)
<1>1. LocalOK(t, old) /\ Typed /\ Control /\ Places
  BY LocalNow DEF Sound
<1>2. PICK j : /\ old.pc = "iwrite" /\ Becomes(t, R(j))
               /\ j \in {IF old.kind \in Flushing THEN "delete" ELSE "giveback", "failed"}
  BY <1>1, IWriteStep
<1> DEFINE r == R(j)
<1>r. Becomes(t, r)
  BY <1>2
<1>3. r.pc = j /\ r.kind = old.kind /\ r.err = old.err /\ r.togo = old.togo
  BY DEF Locals
<1> HIDE DEF r
<1>4. thread'[t] = r
  BY <1>1, <1>r, Others
<1>5. /\ UNCHANGED <<faults, written, raced>> /\ flushErr' = flushErr /\ slot' = slot
      /\ block' = block
  BY DEF IWriteBlock, band, cache
<1>6. \A c \in Datasets : SlotsOut(c)
  BY <1>5 DEF SlotsOut
<1>7. old.togo # <<>>
  BY <1>1, <1>2 DEF LocalOK, HandOf
<1>8. PICK d \in Datasets, b \in Ids :
        /\ First(t) = <<d, b>> /\ First(t)[1] = d /\ First(t)[2] = b
        /\ block[d][b].live /\ block[d][b].pos \in Positions /\ ~InSlot(d, b)
        /\ \A u \in Datasets : At(u, "iwrite") /\ First(u) = <<d, b>> => u = t
  BY <1>2, <1>7, FirstAlone
<1>9. CleanHand(t)'
  <2>1. ~The(First(t)).dirty
    BY <1>2 DEF Data, CleanHand
  <2>2. PICK x : x = First(t)
    OBVIOUS
  <2>3. First(t)' = x
    BY <1>3, <1>4, <2>2 DEF First
  <2> QED
    BY <1>5, <2>1, <2>2, <2>3 DEF CleanHand, The
<1>10. CASE "write" \in faults
  BY <1>r, <1>2, <1>3, <1>5, <1>6, <1>9, <1>10, UnreliableData
<1>11. CASE "write" \notin faults
  <2>1. disk' = [disk EXCEPT ![d][block[d][b].pos] = block[d][b].val] /\ j # "failed"
    <3>1. /\ disk' = [disk EXCEPT ![d][block[d][b].pos] = block[d][b].val]
          /\ Goto(t, Written(t))
      BY <1>8, <1>11 DEF IWriteBlock, The
    <3>2. thread'[t].pc = Written(t)
      BY <1>1, <3>1, GotoPc
    <3> QED
      BY <1>3, <1>4, <3>1, <3>2 DEF Written
  <2>2. /\ disk'[d][block[d][b].pos] = block[d][b].val
        /\ \A i \in Positions : i # block[d][b].pos => disk'[d][i] = disk[d][i]
        /\ \A c \in Datasets \ {d} : disk'[c] = disk[c]
    BY <1>1, <1>8, <2>1 DEF Typed
  <2>3. Faultless'
    BY <1>r, <1>3, <1>5, <2>1, FaultlessFrame DEF Data
  <2>4. ASSUME NEW c \in Datasets, NEW a \in Ids
        PROVE  Writing(c, a)' <=> Writing(c, a) /\ <<c, a>> # <<d, b>>
    <3>1. r.pc # "iwrite"
      BY <1>2, <1>3
    <3>2. Writing(c, a)' <=> \E u \in Datasets \ {t} : At(u, "iwrite") /\ First(u) = <<c, a>>
      BY <1>r, <1>3, <3>1, WritingChange
    <3>3. <<c, a>> = <<d, b>> =>
            ~\E u \in Datasets \ {t} : At(u, "iwrite") /\ First(u) = <<c, a>>
      BY <1>8
    <3>4. <<c, a>> # <<d, b>> => First(t) # <<c, a>>
      BY <1>8
    <3> QED
      BY <3>2, <3>3, <3>4 DEF Writing
  <2>5. ASSUME NEW c \in Datasets
        PROVE  /\ \A a \in Ids : /\ Unfilled(c, a)' <=> Unfilled(c, a)
                                 /\ Works(c, a, {"fill"})' <=> Works(c, a, {"fill"})
               /\ Reliable(c)' <=> Reliable(c)
               /\ ValuesOK(c) /\ Retaken(c) /\ Retaken(c)' /\ CleanHand(c)'
    <3>1. CASE c = t
      <4>1. Retaken(t)'
        BY <1>2, <1>3, <1>4 DEF Retaken, At
      <4>2. \A a \in Ids : /\ Unfilled(c, a)' <=> Unfilled(c, a)
                           /\ Works(c, a, {"fill"})' <=> Works(c, a, {"fill"})
        BY <1>2, <1>3, <1>4, <3>1 DEF Unfilled, Works, At
      <4> QED
        BY <1>5, <1>9, <3>1, <4>1, <4>2 DEF Data, Reliable
    <3>2. CASE c # t
      <4>1. thread'[c] = thread[c] /\ ValuesOK(c) /\ Retaken(c)
        BY <1>1, <1>r, <3>2, Others DEF Data
      <4>2. CleanHand(c)'
        BY <1>r, <1>5, <3>2, OthersHand
      <4>3. Retaken(c)'
        BY <1>5, <4>1 DEF Retaken, At
      <4> QED
        BY <1>5, <4>1, <4>2, <4>3 DEF Unfilled, Works, Reliable, At
    <3> QED
      BY <3>1, <3>2
  <2>6. ASSUME NEW c \in Datasets \ {d}
        PROVE  ValuesOK(c)'
    <3>1. \A a \in Ids : Pending(c, a)' <=> Pending(c, a)
      BY <1>5, <2>4 DEF Pending
    <3> QED
      BY <1>1, <1>5, <1>6, <2>2, <2>5, <3>1, ValuesFrame
  <2>7. ValuesOK(d)'
    <3>1. SUFFICES ASSUME Reliable(d) PROVE ValuesOK(d)'
      BY <2>5 DEF ValuesOK
    <3>2. /\ ValuesOK(d) /\ Pending(d, b)
          /\ \A a \in Ids : Pending(d, a)' => Pending(d, a)
          /\ \A a \in Ids \ {b} : Pending(d, a)' <=> Pending(d, a)
      BY <1>2, <1>5, <1>8, <2>4, <2>5 DEF Pending, Writing, At
    <3>3. \A a \in Ids : Pending(d, a)' => block'[d][a].val = written'[d][block'[d][a].pos]
      BY <1>5, <3>1, <3>2 DEF ValuesOK
    <3>4. ASSUME NEW i \in Positions, \A a \in Ids : Pending(d, a)' => block'[d][a].pos # i
          PROVE  disk'[d][i] = written'[d][i]
      <4>1. CASE i = block[d][b].pos
        BY <1>5, <2>2, <3>1, <3>2, <4>1 DEF ValuesOK
      <4>2. CASE i # block[d][b].pos
        <5>1. \A a \in Ids : Pending(d, a) => block[d][a].pos # i
          BY <1>5, <3>2, <3>4, <4>2
        <5> QED
          BY <1>5, <2>2, <3>1, <3>2, <4>2, <5>1 DEF ValuesOK
      <4> QED
        BY <4>1, <4>2
    <3>5. ASSUME NEW i \in Positions, NEW a \in Ids, slot'[d][i] = a
          PROVE  /\ ~Works(d, a, {"fill"})' =>
                      \A c \in Ids \ {a} : Pending(d, c)' => block'[d][c].pos # i
                 /\ ~Pending(d, a)' /\ ~Unfilled(d, a)' => block'[d][a].val = written'[d][i]
      <4>1. slot[d][i] = a /\ a # b
        BY <1>5, <1>8, <3>5 DEF InSlot
      <4>2. /\ ~Works(d, a, {"fill"}) => \A c \in Ids \ {a} : Pending(d, c) => block[d][c].pos # i
            /\ ~Pending(d, a) /\ ~Unfilled(d, a) => block[d][a].val = written[d][i]
        BY <3>1, <3>2, <4>1 DEF ValuesOK
      <4> QED
        BY <1>5, <2>5, <3>2, <4>1, <4>2
    <3> QED
      BY <3>3, <3>4, <3>5 DEF ValuesOK
  <2> QED
    BY <2>3, <2>5, <2>6, <2>7 DEF Data
<1> QED
  BY <1>10, <1>11
(* The application writes in a block, and it is the only one of its        *)
(* position that is not in the file.                                       *)
LEMMA UseData ==
  ASSUME Sound, Data, NEW t \in Datasets, Use(t), thread[t].kind # "read"
  PROVE  Data'
<1> DEFINE old == thread[t]
           r == Locals("leave", old.kind, old.pos, old.mine, old.victim, old.togo, old.counted,
                       old.again, old.err, old.ops)
<1>1. LocalOK(t, old) /\ Typed /\ Control /\ Places
  BY LocalNow DEF Sound
<1>2. old.pc = "use" /\ old.kind # "read" /\ Becomes(t, r)
  BY <1>1, UseStep
<1>r. Becomes(t, r)
  BY <1>2
<1>3. r.pc = "leave" /\ r.kind = old.kind /\ r.err = old.err
  BY DEF Locals
<1> HIDE DEF r
<1>4. thread'[t] = r
  BY <1>1, <1>r, Others
<1>5. UNCHANGED <<faults, disk, raced>> /\ flushErr' = flushErr /\ slot' = slot
  BY DEF Use, band
<1>6. PICK b \in Ids, p \in Positions : b = old.mine /\ p = old.pos
  BY <1>1, <1>2 DEF LocalOK, KindOf, MineOf
<1>7. /\ slot[t][p] = b /\ block[t][b].pos = p /\ block[t][b].live
  BY <1>1, <1>2, <1>6 DEF Places, Mine1, BlockOK, Slotted
<1>8. /\ \A c \in Ids \ {b} : block'[t][c] = block[t][c]
      /\ \A c \in Datasets \ {t} : block'[c] = block[c] /\ written'[c] = written[c]
      /\ block'[t][b].dirty /\ block'[t][b].live /\ block'[t][b].pos = p
      /\ block'[t][b].val = IF old.kind = "write" THEN written[t][p] + 1 ELSE block[t][b].val + 1
      /\ written'[t][p] = written[t][p] + 1
      /\ \A i \in Positions : i # p => written'[t][i] = written[t][i]
  <2> DEFINE v == written[t][p] + 1
             e == [block[t][b] EXCEPT !.lock = @ - 1, !.dirty = TRUE,
                                      !.val = IF old.kind = "write" THEN v ELSE @ + 1]
  <2>1. block' = [block EXCEPT ![t][b] = e] /\ written' = [written EXCEPT ![t][p] = v]
    BY <1>2, <1>6 DEF Use, SetMine, Mine
  <2>2. /\ block'[t][b] = e /\ block[t][b] \in Entries
        /\ \A c \in Ids \ {b} : block'[t][c] = block[t][c]
        /\ \A c \in Datasets \ {t} : block'[c] = block[c]
    <3> HIDE DEF e
    <3> QED
      BY <1>1, <2>1, EditBlock
  <2>3. /\ e.dirty /\ e.live = block[t][b].live /\ e.pos = block[t][b].pos
        /\ e.val = IF old.kind = "write" THEN v ELSE block[t][b].val + 1
    BY <2>2 DEF Entries
  <2>4. /\ \A c \in Datasets \ {t} : written'[c] = written[c]
        /\ written'[t][p] = v
        /\ \A i \in Positions : i # p => written'[t][i] = written[t][i]
    <3> HIDE DEF v
    <3> QED
      BY <1>1, <2>1 DEF Typed
  <2> HIDE DEF e
  <2> QED
    BY <1>7, <2>2, <2>3, <2>4
<1>9. \A c \in Datasets : SlotsOut(c)
  BY <1>5 DEF SlotsOut
<1>10. \A c, a : Writing(c, a)' <=> Writing(c, a)
  BY <1>2, <1>r, <1>3, WritingFrame
<1>11. ASSUME NEW d \in Datasets \ {t}
       PROVE  ValuesOK(d)' /\ Retaken(d)'
  <2>1. Alike(d)
    BY <1>8 DEF Alike, SameData
  <2> QED
    BY <1>r, <1>5, <1>8, <1>9, <1>10, <2>1, OthersValues
<1>12. ASSUME NEW u \in Datasets \ {t}
       PROVE  CleanHand(u)'
  <2>1. ASSUME NEW c \in Datasets, NEW a \in Ids, First(u) = <<c, a>>,
               thread[u].pc \in {"iwrite", "failed", "giveback"}
        PROVE  block'[c][a] = block[c][a]
    <3>1. LocalOK(u, thread[u])
      BY <1>1, LocalNow
    <3>2. CASE thread[u].kind \in Flushing
      <4>1. First(u) = <<u, thread[u].mine>>
        BY <2>1, <3>1, <3>2 DEF LocalOK, HandOf, Freeing, First
      <4> QED
        BY <1>8, <2>1, <4>1
    <3>3. CASE thread[u].kind \notin Flushing
      <4>1. <<c, a>> \in Held(u)
        BY <1>1, <2>1, <3>1, <3>3, FirstHand DEF LocalOK, HandOf, Freeing
      <4>2. ~Works(c, a, {"use", "fill", "remove"})
        BY <1>1, <4>1, InHand
      <4>3. c # t \/ a # b
        BY <1>2, <1>6, <4>2 DEF Works
      <4> QED
        BY <1>8, <4>3
    <3> QED
      BY <3>2, <3>3
  <2>2. \A c \in Datasets : \A a \in Ids :
          First(u) = <<c, a>> /\ thread[u].pc \in {"iwrite", "failed", "giveback"} =>
            block'[c][a].dirty = block[c][a].dirty \/ ~block'[c][a].dirty
    BY <2>1
  <2> QED
    BY <1>r, <2>2, OthersHand
<1>13. Faultless' /\ CleanHand(t)' /\ Retaken(t)'
  <2>1. Faultless'
    BY <1>r, <1>3, <1>5, FaultlessFrame DEF Data
  <2> QED
    BY <1>3, <1>4, <2>1 DEF CleanHand, Retaken, At
<1>14. ValuesOK(t)'
  <2>1. SUFFICES ASSUME Reliable(t) PROVE ValuesOK(t)'
    BY <1>5 DEF ValuesOK, Reliable
  <2>2. ValuesOK(t)
    BY DEF Data
  <2>3. /\ Pending(t, b)'
        /\ \A a \in Ids \ {b} : Pending(t, a)' <=> Pending(t, a)
    BY <1>8, <1>10 DEF Pending
  <2>4. /\ \A c \in Ids \ {b} : Pending(t, c) => block[t][c].pos # p
        /\ ~Pending(t, b) /\ ~Unfilled(t, b) => block[t][b].val = written[t][p]
    BY <1>2, <1>7, <2>1, <2>2 DEF ValuesOK, Works
  <2>5. block'[t][b].val = written'[t][p]
    <3>1. CASE old.kind = "write"
      BY <1>8, <3>1
    <3>2. CASE old.kind # "write"
      <4>1. ~Unfilled(t, b)
        BY <1>2, <3>2 DEF Unfilled, At
      <4>2. block[t][b].val = written[t][p]
        BY <1>7, <2>1, <2>2, <2>4, <4>1 DEF ValuesOK
      <4> QED
        BY <1>8, <3>2, <4>2
    <3> QED
      BY <3>1, <3>2
  <2>6. ASSUME NEW a \in Ids, Pending(t, a)'
        PROVE  block'[t][a].val = written'[t][block'[t][a].pos]
    <3>1. CASE a = b
      BY <1>8, <2>5, <3>1
    <3>2. CASE a # b
      <4>1. Pending(t, a) /\ block[t][a].pos \in Positions /\ block[t][a].pos # p
        BY <2>3, <2>4, <2>6, <3>2, PendingPlace
      <4>2. block[t][a].val = written[t][block[t][a].pos]
        BY <2>1, <2>2, <4>1 DEF ValuesOK
      <4> QED
        BY <1>8, <3>2, <4>1, <4>2
    <3> QED
      BY <3>1, <3>2
  <2>7. ASSUME NEW i \in Positions, \A a \in Ids : Pending(t, a)' => block'[t][a].pos # i
        PROVE  disk'[t][i] = written'[t][i]
    <3>1. i # p
      BY <1>8, <2>3, <2>7
    <3>2. \A a \in Ids : Pending(t, a) => block[t][a].pos # i
      BY <1>7, <1>8, <2>3, <2>7, <3>1
    <3> QED
      BY <1>5, <1>8, <2>1, <2>2, <3>1, <3>2 DEF ValuesOK
  <2>8. ASSUME NEW i \in Positions, NEW a \in Ids, slot'[t][i] = a
        PROVE  /\ \A c \in Ids \ {a} : Pending(t, c)' => block'[t][c].pos # i
               /\ ~Pending(t, a)' => block'[t][a].val = written'[t][i]
    <3>1. slot[t][i] = a
      BY <1>5, <2>8
    <3>2. ~Works(t, a, {"fill"})
      BY <1>2 DEF Works
    <3>3. /\ \A c \in Ids \ {a} : Pending(t, c) => block[t][c].pos # i
          /\ ~Pending(t, a) /\ ~Unfilled(t, a) => block[t][a].val = written[t][i]
      BY <2>1, <2>2, <3>1, <3>2 DEF ValuesOK
    <3>4. a # b => i # p
      BY <1>7, <3>1
    <3>5. a # b => ~Unfilled(t, a)
      BY <1>6 DEF Unfilled
    <3>6. \A c \in Ids \ {a} : Pending(t, c)' => block'[t][c].pos # i
      BY <1>8, <2>3, <3>3, <3>4
    <3>7. ~Pending(t, a)' => block'[t][a].val = written'[t][i]
      BY <1>8, <2>3, <3>3, <3>4, <3>5
    <3> QED
      BY <3>6, <3>7
  <2> QED
    BY <2>6, <2>7, <2>8 DEF ValuesOK
<1> QED
  BY <1>11, <1>12, <1>13, <1>14 DEF Data

(* Nobody has a block of the position that is filled, unless its former    *)
(* self has yet to be written.                                             *)
LEMMA FillAlone ==
  ASSUME Sound, NEW t \in Datasets, thread[t].pc = "fill", NEW b, b = thread[t].mine
  PROVE  /\ b \in Ids /\ thread[t].pos \in Positions /\ thread[t].kind \in Requests
         /\ slot[t][thread[t].pos] = b /\ ~Pending(t, b)
         /\ \A i \in Positions : slot[t][i] = b => i = thread[t].pos
         /\ ~FormerSelf(t) =>
              \A c \in Ids : Pending(t, c) => block[t][c].pos # thread[t].pos
<1>1. LocalOK(t, thread[t]) /\ Typed /\ Control /\ Places
  BY LocalNow DEF Sound
<1>2. b \in Ids /\ thread[t].pos \in Positions /\ thread[t].kind \in Requests
  BY <1>1 DEF LocalOK, KindOf, MineOf
<1>3. slot[t][thread[t].pos] = b /\ ~block[t][b].dirty /\ BlockOK(t, b)
  BY <1>1, <1>2 DEF Places, Mine1
<1>4. \A i \in Positions : slot[t][i] = b => i = thread[t].pos
  BY <1>2, <1>3 DEF BlockOK, Slotted
<1>5. ~Pending(t, b)
  <2>1. ~Own(t, b)
    BY <1>2, <1>3 DEF BlockOK, Slotted
  <2>2. ~Evicted(t, b)
    <3>1. SUFFICES ASSUME NEW u \in Datasets, <<t, b>> \in Held(u) PROVE FALSE
      BY DEF Evicted
    <3>2. ~Works(t, b, {"use", "fill", "remove"})
      BY <1>1, <1>2, <3>1, InHand
    <3> QED
      BY <3>2 DEF Works
  <2> QED
    BY <1>2, <1>3, <2>1, <2>2, WritingOut DEF Pending
<1>6. ASSUME ~FormerSelf(t), NEW c \in Ids, Pending(t, c), block[t][c].pos = thread[t].pos
      PROVE  FALSE
  <2>1. c # b
    BY <1>5, <1>6
  <2>2. ~InSlot(t, c)
    <3>1. SUFFICES ASSUME NEW i \in Positions, slot[t][i] = c PROVE FALSE
      BY DEF InSlot
    <3>2. block[t][c].pos = i
      BY <1>1, <3>1 DEF Places, BlockOK, Slotted
    <3> QED
      BY <1>3, <1>6, <2>1, <3>1, <3>2
  <2>3. PICK v \in Datasets : <<t, c>> \in Held(v)
    BY <1>6, <2>2, PendingPlace DEF Evicted
  <2>4. PICK u \in Datasets : /\ <<t, c>> \in HandsOf(u)
                              /\ block[t][c].dirty \/ (thread[u].pc = "iwrite" /\ <<t, c>> = First(u))
    <3>1. CASE block[t][c].dirty
      BY <2>3, <3>1 DEF Held
    <3>2. CASE ~block[t][c].dirty
      <4>1. PICK u \in Datasets : At(u, "iwrite") /\ First(u) = <<t, c>>
        BY <1>6, <3>2 DEF Pending, Writing
      <4>2. <<t, c>> \in Held(u)
        BY <4>1, WritingHand DEF At
      <4> QED
        BY <4>1, <4>2 DEF At, Held
    <3> QED
      BY <3>1, <3>2
  <2>5. PICK x : x = <<t, c>> /\ x[1] = t /\ The(x) = block[t][c]
    <3>1. <<t, c>>[1] = t /\ The(<<t, c>>) = block[t][c]
      BY DEF The
    <3> QED
      BY <3>1
  <2>6. x \in HandsOf(u) /\ The(x).pos = thread[t].pos
        /\ (The(x).dirty \/ (thread[u].pc = "iwrite" /\ x = First(u)))
    BY <1>6, <2>4, <2>5
  <2> QED
    BY <1>6, <2>5, <2>6 DEF FormerSelf
<1> QED
  BY <1>2, <1>3, <1>4, <1>5, <1>6

LEMMA FillData ==
  ASSUME Sound, Data, NEW t \in Datasets, Fill(t)
  PROVE  Data'
<1> DEFINE old == thread[t]
<1>1. LocalOK(t, old) /\ Typed /\ Control /\ Places
  BY LocalNow DEF Sound
<1>2. PICK b, p : b = old.mine /\ p = old.pos
  OBVIOUS
<1>3. old.pc = "fill"
  BY <1>1, FillStep
<1>4. /\ b \in Ids /\ p \in Positions /\ old.kind \in Requests /\ slot[t][p] = b /\ ~Pending(t, b)
      /\ \A i \in Positions : slot[t][i] = b => i = p
      /\ ~FormerSelf(t) => \A c \in Ids : Pending(t, c) => block[t][c].pos # p
  BY <1>2, <1>3, FillAlone
<1>5. PICK r :
        /\ Becomes(t, r) /\ r.pc \in {"use", "take"}
        /\ r.kind = old.kind /\ r.pos = p /\ r.mine = b /\ r.err = old.err
        /\ \A c \in Ids \ {b} : block'[t][c] = block[t][c]
        /\ \A c \in Datasets \ {t} : block'[c] = block[c]
        /\ SameData(t, b) \/ (r.pc = "use" /\ old.kind # "write" /\ block'[t][b].val = disk[t][p]
                              /\ block'[t][b].live = block[t][b].live
                              /\ block'[t][b].dirty = block[t][b].dirty
                              /\ block'[t][b].pos = block[t][b].pos)
        /\ r.pc = "use" /\ old.kind # "write" => block'[t][b].val = disk[t][p]
  <2>0. Typed /\ b \in Ids
    BY <1>1, <1>4
  <2> DEFINE R(w) == Locals(w, old.kind, old.pos, old.mine, old.victim, old.togo, old.counted,
                            old.again, old.err, old.ops)
  <2>1. \A w : /\ R(w).pc = w /\ R(w).kind = old.kind /\ R(w).pos = old.pos
               /\ R(w).mine = old.mine /\ R(w).err = old.err
    BY DEF Locals
  <2>2. \/ UNCHANGED block /\ Becomes(t, R("use")) /\ old.kind = "write"
        \/ /\ SetMine(t, [Mine(t) EXCEPT !.val = disk[t][old.pos]])
           /\ Becomes(t, R("use")) /\ old.kind # "write"
        \/ /\ SetMine(t, [Mine(t) EXCEPT !.lock = @ - 1]) /\ Becomes(t, R("take"))
    BY <1>1, FillStep
  <2> HIDE DEF R
  <2>3. CASE UNCHANGED block /\ Becomes(t, R("use")) /\ old.kind = "write"
    <3>1. SameData(t, b)
      BY <2>3 DEF SameData
    <3>2. PICK q : q = R("use")
      OBVIOUS
    <3>3. q.pc = "use" /\ q.kind = old.kind /\ q.pos = p /\ q.mine = b /\ q.err = old.err
      BY <1>2, <2>1, <3>2
    <3> QED
      BY <2>3, <3>1, <3>2, <3>3
  <2>4. CASE /\ SetMine(t, [Mine(t) EXCEPT !.val = disk[t][old.pos]])
             /\ Becomes(t, R("use")) /\ old.kind # "write"
    <3> DEFINE e == [block[t][b] EXCEPT !.val = disk[t][p]]
    <3>1. block' = [block EXCEPT ![t][b] = e]
      BY <1>2, <2>4 DEF SetMine, Mine
    <3>2. /\ block'[t][b] = e /\ block[t][b] \in Entries
          /\ \A c \in Ids \ {b} : block'[t][c] = block[t][c]
          /\ \A c \in Datasets \ {t} : block'[c] = block[c]
      <4> HIDE DEF e
      <4> QED
        BY <2>0, <3>1, EditBlock
    <3>3. /\ e.val = disk[t][p] /\ e.live = block[t][b].live /\ e.dirty = block[t][b].dirty
          /\ e.pos = block[t][b].pos
      BY <3>2 DEF Entries
    <3> HIDE DEF e
    <3>4. PICK q : q = R("use")
      OBVIOUS
    <3>5. q.pc = "use" /\ q.kind = old.kind /\ q.pos = p /\ q.mine = b /\ q.err = old.err
      BY <1>2, <2>1, <3>4
    <3> QED
      BY <2>4, <3>2, <3>3, <3>4, <3>5
  <2>5. CASE SetMine(t, [Mine(t) EXCEPT !.lock = @ - 1]) /\ Becomes(t, R("take"))
    <3> DEFINE e == [block[t][b] EXCEPT !.lock = @ - 1]
    <3>1. block' = [block EXCEPT ![t][b] = e]
      BY <1>2, <2>5 DEF SetMine, Mine
    <3>2. /\ block'[t][b] = e /\ block[t][b] \in Entries
          /\ \A c \in Ids \ {b} : block'[t][c] = block[t][c]
          /\ \A c \in Datasets \ {t} : block'[c] = block[c]
      <4> HIDE DEF e
      <4> QED
        BY <2>0, <3>1, EditBlock
    <3>3. /\ e.val = block[t][b].val /\ e.live = block[t][b].live /\ e.dirty = block[t][b].dirty
          /\ e.pos = block[t][b].pos
      BY <3>2 DEF Entries
    <3> HIDE DEF e
    <3>4. PICK q : q = R("take")
      OBVIOUS
    <3>5. q.pc = "take" /\ q.kind = old.kind /\ q.pos = p /\ q.mine = b /\ q.err = old.err
      BY <1>2, <2>1, <3>4
    <3>6. SameData(t, b)
      BY <3>2, <3>3 DEF SameData
    <3> QED
      BY <2>5, <3>2, <3>4, <3>5, <3>6
  <2> QED
    BY <2>2, <2>3, <2>4, <2>5
<1>6. thread'[t] = r
  BY <1>1, <1>5, Others
<1>7. /\ UNCHANGED <<faults, disk, written>> /\ flushErr' = flushErr /\ slot' = slot
      /\ raced' = [raced EXCEPT ![t] = @ \/ FormerSelf(t)]
  BY DEF Fill, band
<1>8. \A c \in Datasets : SlotsOut(c)
  BY <1>7 DEF SlotsOut
<1>9. \A c, a : Writing(c, a)' <=> Writing(c, a)
  <2>1. old.pc # "iwrite" /\ r.pc # "iwrite"
    BY <1>3, <1>5
  <2> QED
    BY <1>5, <2>1, WritingFrame
<1>10. /\ \A d \in Datasets \ {t} : raced'[d] = raced[d]
       /\ Reliable(t)' => Reliable(t) /\ ~FormerSelf(t)
  <2>1. PICK m : m = FormerSelf(t)
    OBVIOUS
  <2>2. raced' = [raced EXCEPT ![t] = @ \/ m]
    BY <1>7, <2>1
  <2>3. (\A d \in Datasets \ {t} : raced'[d] = raced[d]) /\ raced'[t] = (raced[t] \/ m)
    BY <1>1, <2>2 DEF Typed
  <2> QED
    BY <1>7, <2>1, <2>3 DEF Reliable
<1>11. ASSUME NEW d \in Datasets \ {t}
       PROVE  ValuesOK(d)' /\ Retaken(d)'
  <2>1. Alike(d)
    BY <1>5 DEF Alike, SameData
  <2> QED
    BY <1>5, <1>7, <1>8, <1>9, <1>10, <2>1, OthersValues
<1>12. \A c \in Datasets : \A a \in Ids :
         /\ block'[c][a].dirty = block[c][a].dirty /\ block'[c][a].live = block[c][a].live
         /\ block'[c][a].pos = block[c][a].pos
  BY <1>5 DEF SameData
<1>13. \A u \in Datasets \ {t} : CleanHand(u)'
  BY <1>5, <1>12, OthersHand
<1>14. Faultless' /\ CleanHand(t)' /\ Retaken(t)'
  <2>1. Faultless'
    BY <1>5, <1>7, FaultlessFrame DEF Data
  <2> QED
    BY <1>4, <1>5, <1>6, <1>7, <2>1 DEF CleanHand, Retaken, At
<1>15. ValuesOK(t)'
  <2>1. SUFFICES ASSUME Reliable(t), ~FormerSelf(t) PROVE ValuesOK(t)'
    BY <1>10 DEF ValuesOK
  <2>2. ValuesOK(t)
    BY DEF Data
  <2>3. \A a \in Ids : Pending(t, a)' <=> Pending(t, a)
    BY <1>9, <1>12 DEF Pending
  <2>4. ASSUME NEW a \in Ids, Pending(t, a)'
        PROVE  block'[t][a].val = written'[t][block'[t][a].pos]
    <3>1. Pending(t, a) /\ a # b
      BY <1>4, <2>3, <2>4
    <3> QED
      BY <1>5, <1>7, <2>1, <2>2, <3>1 DEF ValuesOK
  <2>5. ASSUME NEW i \in Positions, \A a \in Ids : Pending(t, a)' => block'[t][a].pos # i
        PROVE  disk'[t][i] = written'[t][i]
    BY <1>7, <1>12, <2>1, <2>2, <2>3, <2>5 DEF ValuesOK
  <2>6. ASSUME NEW i \in Positions, NEW a \in Ids, slot'[t][i] = a
        PROVE  /\ \A c \in Ids \ {a} : Pending(t, c)' => block'[t][c].pos # i
               /\ ~Pending(t, a)' /\ ~Unfilled(t, a)' => block'[t][a].val = written'[t][i]
    <3>1. slot[t][i] = a
      BY <1>7, <2>6
    <3>2. CASE a = b
      <4>1. i = p /\ \A c \in Ids : Pending(t, c) => block[t][c].pos # p
        BY <1>4, <2>1, <3>1, <3>2
      <4>2. disk[t][p] = written[t][p]
        BY <1>4, <2>1, <2>2, <4>1 DEF ValuesOK
      <4>3. Unfilled(t, b)' \/ block'[t][b].val = disk[t][p]
        BY <1>4, <1>5, <1>6 DEF Unfilled, At
      <4> QED
        BY <1>7, <1>12, <2>3, <3>2, <4>1, <4>2, <4>3
    <3>3. CASE a # b
      <4>1. ~Works(t, a, {"fill"}) /\ ~Unfilled(t, a)
        BY <1>2, <3>3 DEF Works, Unfilled
      <4>2. /\ \A c \in Ids \ {a} : Pending(t, c) => block[t][c].pos # i
            /\ ~Pending(t, a) => block[t][a].val = written[t][i]
        BY <2>1, <2>2, <3>1, <4>1 DEF ValuesOK
      <4> QED
        BY <1>5, <1>7, <1>12, <2>3, <3>3, <4>2
    <3> QED
      BY <3>2, <3>3
  <2> QED
    BY <2>4, <2>5, <2>6 DEF ValuesOK
<1> QED
  BY <1>11, <1>13, <1>14, <1>15 DEF Data

LEMMA AdoptData ==
  ASSUME Sound, Data, NEW t \in Datasets, Adopt(t)
  PROVE  Data'
<1> DEFINE old == thread[t]
           r == Locals("fill", old.kind, old.pos, old.mine, old.victim, old.togo, old.counted,
                       old.again, old.err, old.ops)
<1>1. LocalOK(t, old) /\ Typed /\ Control /\ Places
  BY LocalNow DEF Sound
<1>2. old.pc = "reacquire" /\ Becomes(t, r)
  BY <1>1, AdoptStep
<1>r. Becomes(t, r)
  BY <1>2
<1>3. r.pc = "fill" /\ r.kind = old.kind /\ r.mine = old.mine /\ r.err = old.err
  BY DEF Locals
<1> HIDE DEF r
<1>4. thread'[t] = r
  BY <1>1, <1>r, Others
<1>5. PICK b \in Ids, p \in Positions : b = old.mine /\ p = old.pos
  BY <1>1, <1>2 DEF LocalOK, KindOf, MineOf
<1>6. b \notin freeList[t] /\ ~InSlot(t, b)
  <2>1. Own(t, b) /\ BlockOK(t, b)
    BY <1>1, <1>2, <1>5 DEF Own, Owned, Places, LocalOK, KindOf, Requests, Flushing
  <2> QED
    BY <2>1 DEF BlockOK, GivenBack, Slotted, InSlot
<1>7. /\ UNCHANGED <<faults, disk, written, raced>> /\ flushErr' = flushErr
      /\ slot' = [slot EXCEPT ![t][p] = b] /\ block' = [block EXCEPT ![t] = Dangling(t, @)]
  BY <1>5 DEF Adopt, history
<1>8. /\ slot'[t][p] = b
      /\ \A i \in Positions : i # p => slot'[t][i] = slot[t][i]
      /\ \A c \in Datasets \ {t} : slot'[c] = slot[c]
  BY <1>1, <1>7 DEF Typed
<1>9. \A d \in Datasets : Alike(d)
  <2>1. \A c \in freeList[t] : ~InSlot(t, c)'
    <3>1. SUFFICES ASSUME NEW c \in freeList[t], NEW i \in Positions, slot'[t][i] = c PROVE FALSE
      BY DEF InSlot
    <3>2. c \in Ids /\ ~InSlot(t, c)
      BY <1>1, FreeNotSlotted DEF Typed
    <3> QED
      BY <1>6, <1>8, <3>1, <3>2 DEF InSlot
  <2> QED
    BY <1>7, <2>1, RowAlike
<1>10. \A c, a : Writing(c, a)' <=> Writing(c, a)
  BY <1>2, <1>r, <1>3, WritingFrame
<1>11. ASSUME NEW d \in Datasets \ {t}
       PROVE  ValuesOK(d)' /\ Retaken(d)'
  <2>1. SlotsOut(d)
    BY <1>8 DEF SlotsOut
  <2> QED
    BY <1>r, <1>7, <1>9, <1>10, <2>1, OthersValues
<1>12. \A u \in Datasets \ {t} : CleanHand(u)'
  <2>1. \A c \in Datasets : \A a \in Ids :
          block'[c][a].dirty = block[c][a].dirty \/ ~block'[c][a].dirty
    BY <1>9 DEF Alike, SameData, Blanked
  <2> QED
    BY <1>r, <2>1, OthersHand
<1>13. Faultless' /\ CleanHand(t)' /\ Retaken(t)'
  <2>1. Faultless'
    BY <1>r, <1>3, <1>7, FaultlessFrame DEF Data
  <2> QED
    BY <1>3, <1>4, <2>1 DEF CleanHand, Retaken, At
<1>14. ValuesOK(t)'
  <2>1. SUFFICES ASSUME Reliable(t) PROVE ValuesOK(t)'
    BY <1>7 DEF ValuesOK, Reliable
  <2>2. ValuesOK(t)
    BY DEF Data
  <2>3. ASSUME NEW a \in Ids
        PROVE  /\ Pending(t, a)' <=> Pending(t, a)
               /\ Pending(t, a) \/ InSlot(t, a)' => SameData(t, a)
    <3>1. CASE SameData(t, a)
      BY <1>10, <3>1 DEF SameData, Pending
    <3>2. CASE Blanked(t, a)
      BY <1>10, <3>2 DEF Blanked, Pending
    <3> QED
      BY <1>9, <3>1, <3>2 DEF Alike
  <2>4. ASSUME NEW a \in Ids, Pending(t, a)'
        PROVE  block'[t][a].val = written'[t][block'[t][a].pos]
    <3>1. Pending(t, a) /\ SameData(t, a)
      BY <2>3, <2>4
    <3> QED
      BY <1>7, <2>1, <2>2, <3>1 DEF ValuesOK, SameData
  <2>5. ASSUME NEW i \in Positions, \A a \in Ids : Pending(t, a)' => block'[t][a].pos # i
        PROVE  disk'[t][i] = written'[t][i]
    <3>1. \A a \in Ids : Pending(t, a) => block[t][a].pos # i
      BY <2>3, <2>5 DEF SameData
    <3> QED
      BY <1>7, <2>1, <2>2, <3>1 DEF ValuesOK
  <2>6. ASSUME NEW i \in Positions, NEW a \in Ids, slot'[t][i] = a
        PROVE  /\ ~Works(t, a, {"fill"})' =>
                    \A c \in Ids \ {a} : Pending(t, c)' => block'[t][c].pos # i
               /\ ~Pending(t, a)' /\ ~Unfilled(t, a)' => block'[t][a].val = written'[t][i]
    <3>1. CASE i = p
      <4>1. a = b
        BY <1>8, <2>6, <3>1
      <4> QED
        BY <1>3, <1>4, <1>5, <4>1 DEF Works, Unfilled, At
    <3>2. CASE i # p
      <4>1. slot[t][i] = a /\ ~Works(t, a, {"fill"}) /\ ~Unfilled(t, a) /\ SameData(t, a)
        BY <1>2, <1>8, <2>3, <2>6, <3>2 DEF Works, Unfilled, At, InSlot
      <4>2. /\ \A c \in Ids \ {a} : Pending(t, c) => block[t][c].pos # i
            /\ ~Pending(t, a) => block[t][a].val = written[t][i]
        BY <2>1, <2>2, <4>1 DEF ValuesOK
      <4> QED
        BY <1>7, <2>3, <4>1, <4>2 DEF SameData
    <3> QED
      BY <3>1, <3>2
  <2> QED
    BY <2>4, <2>5, <2>6 DEF ValuesOK
<1> QED
  BY <1>11, <1>12, <1>13, <1>14 DEF Data
-----------------------------------------------------------------------------
(***************************************************************************)
(* Every behaviour keeps what the application wrote.                       *)
(***************************************************************************)
LEMMA DataInit ==
  ASSUME Init
  PROVE  Data
<1>1. /\ \A t \in Datasets : thread[t] = Idle /\ ~flushErr[t]
      /\ \A d \in Datasets : \A b \in Ids : block[d][b] = Deleted
      /\ \A d \in Datasets : \A i \in Positions :
           slot[d][i] = NoBlock /\ disk[d][i] = 0 /\ written[d][i] = 0
  BY DEF Init
<1>2. \A d \in Datasets : \A b \in Ids : ~Pending(d, b)
  BY <1>1 DEF Pending, Deleted
<1>3. \A d \in Datasets : ValuesOK(d)
  BY <1>1, <1>2 DEF ValuesOK, Ids, NoBlock
<1>4. Faultless /\ \A t \in Datasets : CleanHand(t) /\ Retaken(t)
  BY <1>1 DEF Idle, Faultless, CleanHand, Retaken, At
<1> QED
  BY <1>3, <1>4 DEF Data

LEMMA DataRequest ==
  ASSUME Sound, Data, NEW t \in Datasets, Request(t)
  PROVE  Data'
<1>1. CASE \E kind \in {"read", "write", "update"}, i \in Positions : RasterIO(t, kind, i)
  <2>1. PICK kind \in Requests, i \in Positions : RasterIO(t, kind, i)
    BY <1>1 DEF Requests
  <2>2. CASE kind # "read" /\ flushErr[t]
    BY <2>1, <2>2, RefuseData
  <2>3. CASE kind = "read" \/ ~flushErr[t]
    BY <2>1, <2>3, RequestData
  <2> QED
    BY <2>2, <2>3
<1>2. CASE FlushCacheBlock(t)
  BY <1>2, EvictData
<1>3. CASE FlushCache(t, "flush")
  BY <1>3, FlushCacheData DEF Flushing
<1> QED
  BY <1>1, <1>2, <1>3 DEF Request

LEMMA DataQuiet ==
  ASSUME Data, Quiet
  PROVE  Data'
<1> USE DEF Quiet, band, history
<1>1. \A d, b : (Writing(d, b)' <=> Writing(d, b)) /\ (Unfilled(d, b)' <=> Unfilled(d, b))
  BY DEF Writing, Unfilled, At, First
<1>2. \A d, b : Pending(d, b)' <=> Pending(d, b)
  BY <1>1 DEF Pending
<1>3. \A d \in Datasets : ValuesOK(d)'
  BY <1>1, <1>2 DEF Data, ValuesOK, Reliable, Works
<1>4. Faultless' /\ \A t \in Datasets : CleanHand(t)' /\ Retaken(t)'
  BY DEF Data, Faultless, CleanHand, Retaken, At, The, First
<1> QED
  BY <1>3, <1>4 DEF Data

LEMMA DataRun ==
  ASSUME Sound, Data, NEW t \in Datasets, Run(t)
  PROVE  Data'
<1>1. CASE WaitPending(t) \/ EnterReadWrite(t) \/ Lookup(t) \/ AddLock(t) \/ TakeLockFails(t)
           \/ LeaveReadWrite(t) \/ CreateBlock(t) \/ Internalize(t)
  BY <1>1, WaitPendingData, EnterData, LookupData, AddLockData, TakeLockFailsData, LeaveData,
    CreateData, InternalizeData
<1>2. CASE Use(t)
  BY <1>2, UseReadData, UseData
<1>3. CASE (\E full \in BOOLEAN : Unreference(t, full)) \/ CountDown(t) \/ Malloc(t) \/ Adopt(t)
           \/ FlushBlocks(t) \/ Delete(t) \/ IWriteBlock(t)
  BY <1>3, UnreferenceData, CountDownData, MallocData, AdoptData, FlushBlocksData, DeleteData,
    IWriteData
<1>4. CASE (\E x \in AllBlocks : Pass(t, x) \/ Claim(t, x)) \/ Rescan(t)
  BY <1>4, ClaimData, LooksOn, DataQuiet
<1>5. CASE Touch(t)
  BY <1>5, TouchKeepData, TouchPutData
<1>6. CASE Write(t) \/ WriteFailed(t) \/ AddBlockToFreeList(t) \/ Fill(t)
  BY <1>6, WriteData, WriteFailedData, AddBlockData, FillData
<1>7. CASE Freed(t)
  BY <1>7, FreedEvictData, FreedData
<1>8. CASE FlushCache(t, "close") \/ FlushCache(t, "destroy")
  BY <1>8, FlushCacheData DEF Flushing
<1>9. CASE Take(t)
  BY <1>9, TakeData, TakeLeaveData, TakeNextData
<1>10. CASE DropLockForRemoval(t)
  BY <1>10, DropLockData, DropLockEvictedData
<1>11. CASE WaitEviction(t)
  BY <1>11, WaitEvictionLeaveData, WaitEvictionData
<1>12. CASE Remove(t)
  <2>1. CASE Mine(t).dirty /\ ~thread[t].err
    <3>1. thread[t].pc = "remove" /\ thread[t].kind \in Requests \cup Flushing
      BY <1>12, LocalNow DEF Sound, Remove, At, LocalOK, KindOf
    <3>2. thread[t].kind \in Flushing
      BY <2>1, <3>1 DEF Sound, Places, Mine1, Mine
    <3> QED
      BY <1>12, <2>1, <3>2, RemoveWriteData
  <2>2. CASE ~(Mine(t).dirty /\ ~thread[t].err)
    BY <1>12, <2>2, RemoveLeaveData, RemoveNextData
  <2> QED
    BY <2>1, <2>2
<1>13. CASE Flushed(t)
  <2>1. thread[t].kind \in Flushing
    BY <1>13, LocalNow DEF Sound, Flushed, At, LocalOK, KindOf
  <2> QED
    BY <1>13, <2>1, FlushedData, ClosedData, DestroyedData DEF Flushing
<1> QED
  BY <1>1, <1>2, <1>3, <1>4, <1>5, <1>6, <1>7, <1>8, <1>9, <1>10, <1>11, <1>12, <1>13 DEF Run

LEMMA AlwaysData ==
  Spec => [](Sound /\ Close /\ Data)
<1>1. Init => Data
  BY DataInit
<1>2. Sound /\ Data /\ [Next]_vars => Data'
  <2>1. ASSUME Sound, Data, Next
        PROVE  Data'
    BY <2>1, DataRequest, DataRun DEF Next
  <2> QED
    BY <2>1, LooksOn, DataQuiet
<1> QED
  BY <1>1, <1>2, AlwaysClose, PTL DEF Spec

(* What the application wrote is what it reads again, and what the file    *)
(* holds after FlushCache and after the dataset is closed, unless a write  *)
(* failed or a block was taken up before its former self was written.      *)
THEOREM NothingLostHolds ==
  Spec => []NothingLost
<1>1. ASSUME Sound, Close, Data
      PROVE  NothingLost
  <2> SUFFICES ASSUME NEW t \in Datasets, Reliable(t)
               PROVE  /\ At(t, "use") /\ thread[t].kind # "write" =>
                           Mine(t).val = written[t][thread[t].pos]
                      /\ (At(t, "idle") /\ thread[t].kind = "flush") \/ At(t, "closed") =>
                           Durable(t)
    BY DEF NothingLost
  <2>1. ValuesOK(t) /\ LocalOK(t, thread[t]) /\ Typed
    BY <1>1, LocalNow DEF Data, Sound
  <2>2. ASSUME At(t, "use"), thread[t].kind # "write"
        PROVE  Mine(t).val = written[t][thread[t].pos]
    <3>1. PICK b \in Ids, p \in Positions : b = thread[t].mine /\ p = thread[t].pos
      BY <2>1, <2>2 DEF At, LocalOK, KindOf, MineOf
    <3>2. slot[t][p] = b /\ block[t][b].pos = p
      BY <1>1, <2>2, <3>1 DEF At, Sound, Places, Mine1, BlockOK, Slotted
    <3>3. ~Unfilled(t, b)
      BY <2>2 DEF Unfilled, At
    <3>4. block[t][b].val = written[t][p]
      BY <2>1, <3>2, <3>3 DEF ValuesOK
    <3> QED
      BY <3>1, <3>4 DEF Mine
  <2>3. ASSUME (At(t, "idle") /\ thread[t].kind = "flush") \/ At(t, "closed")
        PROVE  Durable(t)
    <3>1. Emptied(t)
      BY <1>1, <2>1, <2>3 DEF At, LocalOK, KindOf, Rested, Close, LeftOK
    <3>2. \A b \in Ids : ~Pending(t, b)
      BY <1>1, <2>3, <3>1, PendingPlace DEF Emptied, At
    <3>3. \A i \in Positions : disk[t][i] = written[t][i]
      BY <2>1, <3>2 DEF ValuesOK
    <3>4. disk[t] \in [Positions -> Nat] /\ written[t] \in [Positions -> Nat]
      BY <2>1 DEF Typed
    <3> QED
      BY <3>3, <3>4 DEF Durable
  <2> QED
    BY <2>2, <2>3
<1> QED
  BY <1>1, AlwaysData, PTL
=============================================================================
