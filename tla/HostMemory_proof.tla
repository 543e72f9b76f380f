-------------------------- MODULE HostMemory_proof --------------------------
(***************************************************************************)
(* Proofs about HostMemory: what the SDK reuses behind fences - descriptor *)
(* tables, surfaces and the texture cache's cells - is not reused while a  *)
(* published command may still read or write it, and is seen to be free    *)
(* when no command does.                                                   *)
(***************************************************************************)
EXTENDS HostMemory, FiniteSetTheorems, WellFoundedInduction, TLAPS

USE DEF link, pool, arena, cache, vars

-----------------------------------------------------------------------------
(* Fences.  CountFrom(f, last_fence) is the number of submissions since f. *)

\* The parameters that the fence arithmetic depends on.
LEMMA FenceConstants ==
    /\ HalfRange \in Nat /\ HalfRange > 0 /\ FenceMod \in Nat
    /\ FenceMod = 2 * HalfRange /\ MaxUnconfirmed \in Nat
    /\ MaxUnconfirmed <= HalfRange /\ MaxUnconfirmed < FenceMod
    /\ Fence = 0 .. FenceMod - 1
<1>1. HalfRange \in Nat /\ HalfRange > 0 /\ MaxUnconfirmed \in Nat /\ MaxUnconfirmed <= HalfRange
  BY FencePollsAssumption
<1> QED BY <1>1 DEF FenceMod, Fence

LEMMA CountType ==
    ASSUME NEW a \in Fence, NEW b \in Fence
    PROVE  CountFrom(a, b) \in Nat /\ CountFrom(a, b) < FenceMod
BY FenceConstants DEF CountFrom

\* The token of the command published after l.
NextFence(l) == IF l = FenceMod - 1 THEN 0 ELSE l + 1

LEMMA CountNext ==
    ASSUME NEW l \in Fence
    PROVE  /\ NextFence(l) \in Fence /\ CountFrom(NextFence(l), NextFence(l)) = 0
           /\ \A f \in Fence : CountFrom(f, l) < FenceMod - 1 =>
                CountFrom(f, NextFence(l)) = CountFrom(f, l) + 1
<1>1. NextFence(l) \in Fence /\ CountFrom(NextFence(l), NextFence(l)) = 0
  BY FenceConstants DEF NextFence, CountFrom
<1>2. ASSUME NEW f \in Fence, CountFrom(f, l) < FenceMod - 1
      PROVE  CountFrom(f, NextFence(l)) = CountFrom(f, l) + 1
  BY <1>2, FenceConstants DEF NextFence, CountFrom
<1> QED BY <1>1, <1>2

\* A count that is at least as old as a fence has not reached it, unless it is
\* more than half a range older; a younger one has.
LEMMA TooOldToReach ==
    ASSUME NEW f \in Fence, NEW c \in Fence, NEW l \in Fence,
           CountFrom(f, l) < CountFrom(c, l), CountFrom(c, l) <= HalfRange
    PROVE  ~Reached(c, f)
BY FenceConstants DEF Reached, CountFrom

LEMMA YoungEnoughToReach ==
    ASSUME NEW f \in Fence, NEW c \in Fence, NEW l \in Fence,
           CountFrom(c, l) <= CountFrom(f, l), CountFrom(f, l) < HalfRange + CountFrom(c, l)
    PROVE  Reached(c, f)
BY FenceConstants DEF Reached, CountFrom
-----------------------------------------------------------------------------
(* What the steps do to the link.                                          *)

QuietStep ==
    \/ HostBatchStart
    \/ PoolStep /\ UNCHANGED <<arena, cache>>
    \/ ArenaStep /\ UNCHANGED <<pool, cache>>
    \/ CacheStep /\ UNCHANGED pool
    \/ \E s \in OwnSurfaces : SurfaceStep(s) /\ UNCHANGED <<pool, cache>>
    \/ HostConfirm /\ UNCHANGED <<pool, arena, cache>>
    \/ UNCHANGED vars

PublishStep ==
    \/ HostBatchPush
    \/ \E S \in SUBSET OwnSurfaces : HostDraw(S)
    \/ \E key \in Keys : HostCacheBlend(key)
    \/ \E t \in Table : HostRawBatch(t)

FinishStep == Finish /\ UNCHANGED <<pool, arena, cache>>

LEMMA Steps == ASSUME [Next]_vars PROVE QuietStep \/ PublishStep \/ FinishStep
BY DEF Next, QuietStep, PublishStep, FinishStep

\* Quiet steps poll at most.
Polled == confirmed_done' \in {confirmed_done, Done}
LinkKept == UNCHANGED <<pending, submitted, last_fence>> /\ Polled

LEMMA Polling == ASSUME NEW f, PollComplete(f) PROVE Polled
BY DEF PollComplete, Polled

LEMMA QuietPool == ASSUME PoolStep PROVE LinkKept
<1>1. CASE PoolCall
  BY <1>1, Polling DEF PoolCall, FindTaken, FindBusy, FindFails, BatchUpload, BatchAbandoned,
     Available, Busy, PollIncomplete, LinkKept, Polled
<1>2. CASE \E t \in Table : RawUpload(t) \/ RawBatchRefused(t)
  BY <1>2, Polling DEF RawUpload, RawBatchRefused, Available, LinkKept, Polled
<1> QED BY <1>1, <1>2 DEF PoolStep

LEMMA QuietArena == ASSUME ArenaStep PROVE LinkKept
<1>1. CASE CollectReclaim \/ CollectSkip \/ CollectFails \/ CollectReturn
  BY <1>1, Polling DEF CollectReclaim, CollectSkip, CollectFails, CollectReturn,
     Reclaimable, PollIncomplete, LinkKept, Polled
<1>2. CASE CreateSurface \/ TransferEnd \/ \E s \in surfaces : TransferWaited(s)
  BY <1>2, Polling DEF CreateSurface, TransferEnd, TransferWaited, LinkKept, Polled
<1>3. CASE \E size \in 0 .. ArenaPages : CollectStart(size)
  BY <1>3 DEF CollectStart, LinkKept, Polled
<1> QED BY <1>1, <1>2, <1>3 DEF ArenaStep, ArenaCall

LEMMA QuietCache == ASSUME CacheStep PROVE LinkKept
<1>1. CASE CacheCreated \/ CacheMapFails \/ UploadWaited \/ UploadStore
  BY <1>1, Polling DEF CacheCreated, CreateSurface, CacheMapFails, UploadWaited,
     UploadStore, LinkKept, Polled
<1>2. CASE CloseSlot \/ CloseEnd \/ CloseFails \/ CloseStart
  BY <1>2, Polling DEF CloseSlot, CloseEnd, CloseFails, CloseStart, LinkKept, Polled
<1>3. CASE \E key \in Keys : UploadStart(key)
  BY <1>3 DEF UploadStart, LinkKept, Polled
<1> QED BY <1>1, <1>2, <1>3 DEF CacheStep, CacheCall

LEMMA QuietKeepsLink == ASSUME QuietStep PROVE LinkKept
<1>1. CASE HostBatchStart \/ HostConfirm \/ UNCHANGED vars
  BY <1>1 DEF HostBatchStart, BatchStart, HostConfirm, LinkKept, Polled
<1>2. CASE \E s \in OwnSurfaces : SurfaceStep(s)
  BY <1>2 DEF SurfaceStep, Destroy, TransferStart, LinkKept, Polled
<1> QED BY <1>1, <1>2, QuietPool, QuietArena, QuietCache DEF QuietStep
-----------------------------------------------------------------------------
(* The inductive invariant.                                                *)

\* No published command is older than the confirmed count, which is no older
\* than noodles_link.c lets it become.
LinkInv ==
    /\ Len(pending) <= CountFrom(confirmed_done, last_fence)
    /\ CountFrom(confirmed_done, last_fence) <= MaxUnconfirmed

\* A fence no older than command i of the ones that are pending.
Pending(f, i) == CountFrom(f, last_fence) <= Len(pending) - i

\* The table of a pending batch is taken, with a fence that is not reached
\* before the batch has finished; the table found for the next batch is not.
TablesHeld ==
    \A i \in 1 .. Len(pending) : pending[i].table # NoTable =>
        /\ pending[i].table \in batch_pending
        /\ Pending(batch_fence[pending[i].table], i)
        /\ content[pending[i].table] = pending[i].stamp

TableInv ==
    /\ TablesHeld
    /\ host_pc \in {"upload", "push"} => table \in Table \ batch_pending
    /\ host_pc # "find" => tried = 0

Kept == surfaces \cup Retired

\* Every page of the arena has one owner in A, and none leaves the arena.
Partitions(A) ==
    /\ \A e \in A : e.address + e.size <= ArenaPages
    /\ \A page \in Page : \E e \in A :
        page \in Pages(e) /\ \A f \in A : page \in Pages(f) => f = e

PartitionInv ==
    /\ Partitions(surface_free \cup Kept)
    /\ \A e, f \in surface_free : e.address + e.size # f.address

\* Surfaces have names of their own, and are live or destroyed once.
NameInv ==
    /\ \A s \in Kept : s.id <= created
    /\ \A r, s \in Kept : r.id = s.id => r = s
    /\ \A i, j \in 1 .. Len(retired) : retired[i] = retired[j] => i = j
    /\ \A i \in 1 .. Len(retired) : retired[i] \notin surfaces

\* Where a collection is in the retired list.
CollectInv ==
    /\ host_pc = "collect" => cursor \in 1 .. Len(retired) + 1
    /\ host_pc # "collect" => cursor = 1 /\ request = 0
    /\ request > 0 => created < MaxSurfaces

\* The atlas is a live surface that records no fence; transfers are of others.
AtlasInv ==
    /\ atlas # 0 => CacheSlots > 0 /\ \E s \in surfaces : s.id = atlas /\ ~s.used
    /\ host_pc \in {"cell_wait", "cell", "cache_close"} => atlas # 0
    /\ host_pc \in {"wait", "cpu"} =>
        accessed # atlas /\ \E s \in surfaces : s.id = accessed
    /\ host_pc = "cpu" => \A s \in surfaces : s.id = accessed => ~s.used

\* Each surface that a pending command names is kept, with a fence that is not
\* reached before the command has finished, unless it is the atlas, which the
\* cells' fences speak for.
UseInv ==
    \A i \in 1 .. Len(pending) : \A id \in pending[i].surfaces :
        IF id = atlas THEN pending[i].cells # {}
        ELSE \E s \in Kept : s.id = id /\ s.used /\ Pending(s.last_fence, i)

\* A valid cell holds what was uploaded last under its key, which no other has.
CellInv ==
    /\ \A s \in Slot : slots[s].valid =>
        slots[s].key \in Keys /\ cell[s] = latest[slots[s].key] /\ cell[s] > 0
    /\ \A r, s \in Slot :
        slots[r].valid /\ slots[s].valid /\ slots[r].key = slots[s].key => r = s

\* Each cell that a pending draw reads is unchanged, with a fence that is not
\* reached before the draw has finished.
ReadInv ==
    \A i \in 1 .. Len(pending) : \A read \in pending[i].cells :
        /\ atlas # 0 /\ atlas \in pending[i].surfaces
        /\ slots[read.slot].used /\ Pending(slots[read.slot].last_fence, i)
        /\ cell[read.slot] = read.pixels

\* The cell that is being replaced, and the cells that a destruction is done
\* with.
TargetInv ==
    /\ host_pc \in {"cell_wait", "cell"} =>
        /\ target.slot \in Slot /\ target.key \in Keys /\ Newest < MaxUploads
        /\ \A r \in Slot : Holds(r, target.key) => r = target.slot
    /\ host_pc = "cell_wait" => slots[target.slot].used
    /\ host_pc = "cell" => \A i \in 1 .. Len(pending) :
        \A read \in pending[i].cells : read.slot # target.slot
    /\ host_pc = "cache_close" => \A s \in Slot : s < target.slot => ~slots[s].used

MemoryInv ==
    /\ LinkTypes /\ PoolTypes /\ ArenaTypes /\ CacheTypes
    /\ LinkInv /\ TableInv /\ PartitionInv /\ NameInv /\ CollectInv
    /\ AtlasInv /\ UseInv /\ CellInv /\ ReadInv /\ TargetInv

-----------------------------------------------------------------------------
(* The commands that are pending.                                          *)

LEMMA PendingType ==
    ASSUME LinkTypes
    PROVE  /\ pending \in Seq(Commands) /\ Len(pending) \in Nat
           /\ last_fence \in Fence /\ confirmed_done \in Fence
           /\ \A i \in 1 .. Len(pending) :
                /\ i \in Nat /\ i > 0 /\ pending[i] \in Commands
                /\ pending[i].surfaces \subseteq SurfaceId
                /\ pending[i].table \in Table \cup {NoTable}
                /\ pending[i].stamp \in {0, 1}
                /\ pending[i].cells \subseteq [slot : Slot, pixels : 1 .. MaxUploads]
<1>1. pending \in Seq(Commands) /\ Len(pending) \in Nat
  BY DEF LinkTypes
<1>2. \A i \in 1 .. Len(pending) : i \in Nat /\ i > 0 /\ pending[i] \in Commands
  BY <1>1
<1> QED BY <1>1, <1>2 DEF LinkTypes, Commands

LEMMA Publishing ==
    ASSUME LinkTypes, NEW c \in Commands, Publish(c)
    PROVE  /\ pending' \in Seq(Commands) /\ Len(pending') = Len(pending) + 1
           /\ \A i \in 1 .. Len(pending) : pending'[i] = pending[i]
           /\ pending'[Len(pending) + 1] = c
           /\ last_fence' = NextFence(last_fence)
<1>1. pending \in Seq(Commands) /\ pending' = Append(pending, c)
  BY PendingType DEF Publish
<1>2. last_fence' = NextFence(last_fence)
  BY DEF Publish, NextFence
<1> QED BY <1>1, <1>2

LEMMA Finishing ==
    ASSUME LinkTypes, Finish
    PROVE  /\ pending' \in Seq(Commands) /\ Len(pending') = Len(pending) - 1
           /\ \A i \in 1 .. Len(pending') :
                i + 1 \in 1 .. Len(pending) /\ pending'[i] = pending[i + 1]
<1>1. pending \in Seq(Commands) /\ pending # <<>> /\ pending' = Tail(pending)
  BY PendingType DEF Finish
<1>2. pending' \in Seq(Commands) /\ Len(pending') = Len(pending) - 1 /\ Len(pending) \in Nat
  BY <1>1
<1>3. \A i \in 1 .. Len(pending) - 1 : pending'[i] = pending[i + 1]
  BY <1>1
<1> QED BY <1>2, <1>3

\* The published count is as old as the commands that are pending.
LEMMA DoneAge ==
    ASSUME LinkTypes, LinkInv
    PROVE  /\ Done \in Fence /\ CountFrom(Done, last_fence) = Len(pending)
           /\ CountFrom(Done, last_fence) <= HalfRange
           /\ CountFrom(confirmed_done, last_fence) <= HalfRange
           /\ Len(pending) < FenceMod
<1>0. Len(pending) \in Nat /\ CountFrom(confirmed_done, last_fence) \in Nat
  BY PendingType, CountType
<1>1. /\ Len(pending) \in Nat /\ Len(pending) <= MaxUnconfirmed
      /\ CountFrom(confirmed_done, last_fence) <= HalfRange
  BY <1>0, FenceConstants DEF LinkInv
<1>2. Done \in Fence
  BY <1>1, PendingType, FenceConstants DEF Done
<1>3. CountFrom(Done, last_fence) = Len(pending)
  BY <1>1, PendingType, FenceConstants DEF Done, CountFrom
<1> QED BY <1>1, <1>2, <1>3, FenceConstants

\* A fence of a command that is pending does not poll complete.
LEMMA NotComplete ==
    ASSUME LinkTypes, LinkInv, NEW f \in Fence, NEW i \in 1 .. Len(pending),
           Pending(f, i), PollComplete(f)
    PROVE  FALSE
<1>1. CountFrom(f, last_fence) < Len(pending)
  BY PendingType, CountType DEF Pending
<1>2. CountFrom(f, last_fence) < CountFrom(confirmed_done, last_fence)
  BY <1>1, PendingType, CountType DEF LinkInv
<1>3. ~Reached(confirmed_done, f)
  BY <1>2, DoneAge, PendingType, TooOldToReach
<1>4. ~Reached(Done, f)
  BY <1>1, DoneAge, PendingType, TooOldToReach
<1> QED BY <1>3, <1>4 DEF PollComplete

\* A command is as old as what recorded its fence, whatever follows it.
LEMMA PendingPublished ==
    ASSUME LinkTypes, LinkInv, NEW c \in Commands, Publish(c)
    PROVE  /\ \A f \in Fence, i \in 1 .. Len(pending) :
                Pending(f, i) => CountFrom(f, last_fence') <= Len(pending') - i
           /\ last_fence' \in Fence
           /\ CountFrom(last_fence', last_fence') <= Len(pending') - (Len(pending) + 1)
<1>1. Len(pending') = Len(pending) + 1 /\ last_fence' = NextFence(last_fence)
  BY Publishing
<1>2. ASSUME NEW f \in Fence, NEW i \in 1 .. Len(pending), Pending(f, i)
      PROVE  CountFrom(f, last_fence') <= Len(pending') - i
  <2>1. CountFrom(f, last_fence) < FenceMod - 1
    <3>1. CountFrom(f, last_fence) \in Nat /\ Len(pending) \in Nat /\ i \in Nat /\ i > 0
      BY PendingType, CountType
    <3>2. Len(pending) < FenceMod /\ FenceMod \in Nat
      BY DoneAge, FenceConstants
    <3> QED BY <1>2, <3>1, <3>2 DEF Pending
  <2>2. CountFrom(f, last_fence') = CountFrom(f, last_fence) + 1
    BY <1>1, <2>1, CountNext, PendingType
  <2>3. CountFrom(f, last_fence) \in Nat /\ Len(pending) \in Nat /\ i \in Nat
    BY PendingType, CountType
  <2> QED BY <1>1, <1>2, <2>2, <2>3 DEF Pending
<1>3. last_fence' \in Fence /\ CountFrom(last_fence', last_fence') = 0
  BY <1>1, CountNext, PendingType
<1> QED BY <1>1, <1>2, <1>3, PendingType

LEMMA PendingFinished ==
    ASSUME LinkTypes, Finish
    PROVE  \A f \in Fence, i \in 1 .. Len(pending') :
             Pending(f, i + 1) => CountFrom(f, last_fence') <= Len(pending') - i
<1> SUFFICES ASSUME NEW f \in Fence, NEW i \in 1 .. Len(pending'), Pending(f, i + 1)
             PROVE  CountFrom(f, last_fence') <= Len(pending') - i
  OBVIOUS
<1>1. last_fence' = last_fence
  BY DEF Finish
<1> QED BY SMTT(20), <1>1, Finishing, PendingType, CountType DEF Pending
-----------------------------------------------------------------------------
(* The commands that are published.                                        *)

LEMMA FindKeyFinds ==
    ASSUME CellInv, NEW key \in Keys, Cached(key)
    PROVE  /\ FindKey(key) \in Slot /\ Holds(FindKey(key), key)
           /\ \A r \in Slot : Holds(r, key) => r = FindKey(key)
<1>1. PICK s \in Slot : Holds(s, key)
  BY DEF Cached
<1>2. \A r \in Slot : Holds(r, key) => r = s
  BY <1>1 DEF CellInv, Holds
<1>3. s <= s
  BY <1>1 DEF Slot
<1>4. Holds(s, key) /\ \A r \in Slot : Holds(r, key) => s <= r
  BY <1>1, <1>2, <1>3
<1>5. FindKey(key) \in Slot /\ Holds(FindKey(key), key)
  BY <1>1, <1>4 DEF FindKey
<1> QED BY <1>1, <1>2, <1>5

\* A draw reads valid cells, and what they hold.
LEMMA ReadsType ==
    ASSUME CacheTypes, CellInv, NEW n \in Nat, NEW keys \in [1 .. n -> Keys], Drawable(keys)
    PROVE  /\ Reads(keys) \subseteq [slot : Slot, pixels : 1 .. MaxUploads]
           /\ \A read \in Reads(keys) :
                /\ cell[read.slot] = read.pixels
                /\ \E i \in DOMAIN keys : read.slot = FindKey(keys[i])
<1> SUFFICES ASSUME NEW i \in 1 .. n
             PROVE  /\ FindKey(keys[i]) \in Slot
                    /\ cell[FindKey(keys[i])] = latest[keys[i]]
                    /\ latest[keys[i]] \in 1 .. MaxUploads
  BY DEF Reads
<1>1. keys[i] \in Keys /\ Cached(keys[i])
  BY DEF Drawable
<1>2. FindKey(keys[i]) \in Slot /\ Holds(FindKey(keys[i]), keys[i])
  BY <1>1, FindKeyFinds
<1>3. /\ cell[FindKey(keys[i])] = latest[keys[i]]
      /\ cell[FindKey(keys[i])] > 0 /\ cell[FindKey(keys[i])] \in 0 .. MaxUploads
  BY <1>2 DEF CellInv, Holds, CacheTypes
<1> QED BY <1>2, <1>3

LEMMA OneKey ==
    ASSUME NEW key \in Keys
    PROVE  /\ <<key>> \in [1 .. 1 -> Keys] /\ DOMAIN <<key>> = 1 .. 1
           /\ <<key>>[1] = key /\ 1 \in Nat /\ 1 \in DOMAIN <<key>>
OBVIOUS

LEMMA IdsType == ASSUME ArenaTypes, NEW S \in SUBSET surfaces PROVE Ids(S) \subseteq SurfaceId
BY DEF ArenaTypes, Ids, Surface

\* What each of the five calls publishes.
LEMMA DrawCommand ==
    ASSUME MemoryInv, NEW S \in SUBSET OwnSurfaces, HostDraw(S)
    PROVE  LET c == Command(Ids(S), NoTable, 0, {}) IN
           /\ c \in Commands /\ Publish(c) /\ UNCHANGED confirmed_done
           /\ c.surfaces = Ids(S) /\ c.table = NoTable /\ c.cells = {}
<1>1. Ids(S) \subseteq SurfaceId
  BY IdsType DEF MemoryInv, OwnSurfaces
<1>2. Command(Ids(S), NoTable, 0, {}) \in Commands
  BY <1>1 DEF Commands, Command
<1> QED BY <1>2 DEF HostDraw, Draw, Submit, Command

LEMMA BatchCommand ==
    ASSUME MemoryInv, NEW S \in SUBSET OwnSurfaces, HostBatch(S)
    PROVE  LET c == Command(Ids(S), table, content[table], {}) IN
           /\ c \in Commands /\ Publish(c) /\ UNCHANGED confirmed_done
           /\ table \in Table /\ c.surfaces = Ids(S) /\ c.table = table
           /\ c.stamp = content[table] /\ c.cells = {}
<1>1. Ids(S) \subseteq SurfaceId
  BY IdsType DEF MemoryInv, OwnSurfaces
<1>2. table \in Table /\ content[table] \in {0, 1}
  BY DEF MemoryInv, TableInv, HostBatch, BatchPush, PoolTypes
<1>3. Command(Ids(S), table, content[table], {}) \in Commands
  BY <1>1, <1>2 DEF Commands, Command
<1> QED BY <1>2, <1>3 DEF HostBatch, BatchPush, Submit, Command

LEMMA AtlasType ==
    ASSUME ArenaTypes, AtlasInv, atlas # 0 PROVE {atlas} \subseteq SurfaceId
BY DEF AtlasInv, ArenaTypes, Surface

LEMMA CacheBatchCommand ==
    ASSUME MemoryInv, NEW n \in 1 .. MaxDraws, NEW keys \in [1 .. n -> Keys],
           HostCacheBatch(keys)
    PROVE  LET c == Command({atlas}, table, content[table], Reads(keys)) IN
           /\ c \in Commands /\ Publish(c) /\ UNCHANGED confirmed_done
           /\ table \in Table /\ c.surfaces = {atlas} /\ c.table = table
           /\ c.stamp = content[table] /\ c.cells = Reads(keys)
<1>1. Drawable(keys) /\ atlas # 0 /\ n \in Nat
  BY DEF HostCacheBatch, Drawable
<1>2. {atlas} \subseteq SurfaceId
  BY <1>1, AtlasType DEF MemoryInv
<1>3. Reads(keys) \subseteq [slot : Slot, pixels : 1 .. MaxUploads]
  BY <1>1, ReadsType DEF MemoryInv
<1>4. table \in Table /\ content[table] \in {0, 1}
  BY DEF MemoryInv, TableInv, HostCacheBatch, BatchPush, PoolTypes
<1>5. Command({atlas}, table, content[table], Reads(keys)) \in Commands
  BY <1>2, <1>3, <1>4 DEF Commands, Command
<1> QED BY <1>4, <1>5 DEF HostCacheBatch, BatchPush, Submit, Command

LEMMA BlendCommand ==
    ASSUME MemoryInv, NEW key \in Keys, HostCacheBlend(key)
    PROVE  LET c == Command({atlas}, NoTable, 0, Reads(<<key>>)) IN
           /\ c \in Commands /\ Publish(c) /\ UNCHANGED confirmed_done
           /\ c.surfaces = {atlas} /\ c.table = NoTable /\ c.cells = Reads(<<key>>)
<1>1. Drawable(<<key>>) /\ atlas # 0
  BY DEF HostCacheBlend, CacheBlend, Drawable
<1>2. {atlas} \subseteq SurfaceId
  BY <1>1, AtlasType DEF MemoryInv
<1>3. Reads(<<key>>) \subseteq [slot : Slot, pixels : 1 .. MaxUploads]
  BY <1>1, OneKey, ReadsType DEF MemoryInv
<1>4. Command({atlas}, NoTable, 0, Reads(<<key>>)) \in Commands
  BY <1>2, <1>3 DEF Commands, Command
<1> QED BY <1>4 DEF HostCacheBlend, CacheBlend, Submit, Command

LEMMA RawCommand ==
    ASSUME MemoryInv, NEW t \in Table, HostRawBatch(t)
    PROVE  LET c == Command({}, t, content[t], {}) IN
           /\ c \in Commands /\ Publish(c) /\ Polled
           /\ c.surfaces = {} /\ c.table = t /\ c.stamp = content[t] /\ c.cells = {}
<1>1. Command({}, t, content[t], {}) \in Commands
  BY DEF Commands, Command, MemoryInv, PoolTypes
<1> QED BY <1>1, Polling DEF HostRawBatch, RawBatch, Command, Polled

LEMMA Commanding ==
    ASSUME MemoryInv, PublishStep
    PROVE  \E c \in Commands : Publish(c) /\ Polled
<1>1. CASE \E S \in SUBSET OwnSurfaces : HostDraw(S)
  BY <1>1, DrawCommand DEF Polled
<1>2. CASE \E S \in SUBSET OwnSurfaces : HostBatch(S)
  BY <1>2, BatchCommand DEF Polled
<1>3. CASE \E n \in 1 .. MaxDraws : \E keys \in [1 .. n -> Keys] : HostCacheBatch(keys)
  BY <1>3, CacheBatchCommand DEF Polled
<1>4. CASE \E key \in Keys : HostCacheBlend(key)
  BY <1>4, BlendCommand DEF Polled
<1>5. CASE \E t \in Table : HostRawBatch(t)
  BY <1>5, RawCommand
<1> QED BY <1>1, <1>2, <1>3, <1>4, <1>5 DEF PublishStep, HostBatchPush

-----------------------------------------------------------------------------
(* The link.                                                               *)

LEMMA LinkTypesStep == ASSUME MemoryInv, [Next]_vars PROVE LinkTypes'
<1>1. pending' \in Seq(Commands) /\ last_fence' \in Fence /\ submitted' \in Nat
      /\ Polled
  <2>1. CASE QuietStep
    BY <2>1, QuietKeepsLink, PendingType DEF MemoryInv, LinkKept, LinkTypes
  <2>2. CASE FinishStep
    BY <2>2, Finishing DEF MemoryInv, FinishStep, Finish, LinkTypes, Polled
  <2>3. CASE PublishStep
    <3>1. PICK c \in Commands : Publish(c) /\ Polled
      BY <2>3, Commanding
    <3>2. submitted' \in Nat
      BY <3>1 DEF Publish, MemoryInv, LinkTypes
    <3> QED BY <3>1, <3>2, Publishing, PendingPublished DEF MemoryInv
  <2> QED BY <2>1, <2>2, <2>3, Steps
<1>2. confirmed_done' \in Fence
  BY <1>1, DoneAge, PendingType DEF Polled, MemoryInv
<1>3. host_pc' \in {"idle", "find", "upload", "push", "collect", "wait",
                    "cpu", "cell_wait", "cell", "cache_close"}
  <2>1. host_pc \in {"idle", "find", "upload", "push", "collect", "wait",
                    "cpu", "cell_wait", "cell", "cache_close"}
    BY DEF MemoryInv, LinkTypes
  <2>2. CASE QuietStep
    <3>1. CASE HostBatchStart \/ PoolStep
      BY <2>1, <3>1 DEF HostBatchStart, BatchStart, PoolStep, PoolCall, FindTaken,
         FindBusy, FindFails, BatchUpload, BatchAbandoned, RawUpload, RawBatchRefused
    <3>2. CASE ArenaStep
      BY <2>1, <3>2 DEF ArenaStep, ArenaCall, CollectReclaim, CollectSkip, CollectFails,
         CollectReturn, CreateSurface, CreationEnds, TransferWaited, TransferEnd,
         CollectStart
    <3>3. CASE CacheStep
      BY <2>1, <3>3 DEF CacheStep, CacheCall, CacheCreated, CreateSurface, CreationEnds,
         CacheMapFails, UploadWaited, UploadStore, CloseSlot, CloseEnd, CloseFails,
         CloseStart, UploadStart
    <3>4. CASE (\E s \in OwnSurfaces : SurfaceStep(s)) \/ HostConfirm \/ UNCHANGED vars
      BY <2>1, <3>4 DEF SurfaceStep, Destroy, TransferStart, HostConfirm
    <3> QED BY <2>2, <3>1, <3>2, <3>3, <3>4 DEF QuietStep
  <2>3. CASE FinishStep
    BY <2>1, <2>3 DEF FinishStep, Finish
  <2>4. CASE PublishStep
    BY <2>1, <2>4 DEF PublishStep, HostBatchPush, HostBatch, HostCacheBatch, BatchPush,
       HostDraw, Draw, HostCacheBlend, CacheBlend, HostRawBatch, RawBatch
  <2> QED BY <2>2, <2>3, <2>4, Steps
<1> QED BY <1>1, <1>2, <1>3 DEF LinkTypes

LEMMA LinkStep == ASSUME MemoryInv, [Next]_vars PROVE LinkInv'
<1>0. /\ LinkTypes /\ LinkInv /\ last_fence \in Fence /\ Done \in Fence
      /\ confirmed_done \in Fence /\ Len(pending) \in Nat
      /\ CountFrom(confirmed_done, last_fence) \in Nat
  BY PendingType, DoneAge, CountType DEF MemoryInv
<1>1. /\ CountFrom(Done, last_fence) = Len(pending)
      /\ Len(pending) <= CountFrom(confirmed_done, last_fence)
      /\ CountFrom(confirmed_done, last_fence) <= MaxUnconfirmed
  BY <1>0, DoneAge DEF LinkInv
<1>2. CASE QuietStep
  <2>1. LinkKept
    BY <1>2, QuietKeepsLink
  <2> QED BY <1>0, <1>1, <2>1, FenceConstants DEF LinkKept, Polled, LinkInv
<1>3. CASE FinishStep
  <2>1. /\ UNCHANGED <<last_fence, confirmed_done>> /\ Len(pending') = Len(pending) - 1
    BY <1>0, <1>3, Finishing DEF FinishStep, Finish
  <2> QED BY <1>0, <1>1, <2>1 DEF LinkInv
<1>4. CASE PublishStep
  <2>1. PICK c \in Commands : Publish(c) /\ Polled
    BY <1>4, Commanding
  <2>2. Len(pending') = Len(pending) + 1 /\ last_fence' = NextFence(last_fence)
    BY <1>0, <2>1, Publishing
  <2>3. CountFrom(confirmed_done, last_fence) < MaxUnconfirmed
    BY <2>1 DEF Publish, CanSubmit
  <2>4. /\ CountFrom(confirmed_done, last_fence') = CountFrom(confirmed_done, last_fence) + 1
        /\ CountFrom(Done, last_fence') = Len(pending) + 1
    <3>1. /\ CountFrom(confirmed_done, last_fence) < FenceMod - 1
          /\ CountFrom(Done, last_fence) < FenceMod - 1
      BY <1>0, <1>1, <2>3, FenceConstants
    <3> QED BY <1>0, <1>1, <2>2, <3>1, CountNext
  <2> QED BY <1>0, <1>1, <2>1, <2>2, <2>3, <2>4, FenceConstants DEF Polled, LinkInv
<1> QED BY <1>2, <1>3, <1>4, Steps
-----------------------------------------------------------------------------
(* Descriptor tables.                                                      *)

BatchPcs == {"find", "upload", "push"}

\* The steps that leave the pool alone do not begin or end a search.
OtherStep ==
    \/ ArenaStep \/ CacheStep \/ HostConfirm \/ UNCHANGED vars
    \/ \E s \in OwnSurfaces : SurfaceStep(s)

LEMMA OtherPc ==
    ASSUME OtherStep
    PROVE  \/ host_pc' = host_pc
           \/ host_pc \notin BatchPcs /\ host_pc' \notin BatchPcs
<1> USE DEF BatchPcs
<1>1. CASE ArenaStep
  BY <1>1 DEF ArenaStep, ArenaCall, CollectReclaim, CollectSkip, CollectFails,
     CollectReturn, CreateSurface, CreationEnds, TransferWaited, TransferEnd,
     CollectStart, Collecting, Collected
<1>2. CASE CacheStep
  BY <1>2 DEF CacheStep, CacheCall, CacheCreated, CreateSurface, CreationEnds,
     CacheMapFails, UploadWaited, UploadStore, CloseSlot, CloseEnd, CloseFails,
     CloseStart, UploadStart, Closing, Collected
<1>3. CASE (\E s \in OwnSurfaces : SurfaceStep(s)) \/ HostConfirm \/ UNCHANGED vars
  BY <1>3 DEF SurfaceStep, Destroy, TransferStart, HostConfirm
<1> QED BY <1>1, <1>2, <1>3 DEF OtherStep

\* Quiet steps, by what they may change of the pool.
LEMMA QuietPoolSteps ==
    ASSUME QuietStep
    PROVE  \/ PoolStep /\ UNCHANGED <<arena, cache>>
           \/ HostBatchStart
           \/ OtherStep /\ UNCHANGED pool
BY DEF QuietStep, OtherStep

LEMMA CandidateType == ASSUME PoolTypes PROVE Candidate \in Table
<1>1. Tables \in Nat /\ Tables > 0 /\ next_table \in 0 .. Tables - 1 /\ tried \in 0 .. Tables
  BY DescriptorPoolAssumption DEF PoolTypes, Table
<1>2. next_table + tried \in Nat
  BY <1>1
<1>3. (next_table + tried) % Tables \in 0 .. Tables - 1
  BY <1>1, <1>2
<1> QED BY <1>3 DEF Candidate, Table

LEMMA ClaimType ==
    ASSUME PoolTypes, NEW t \in Table, Claim(t, batch_pending), last_fence' \in Fence
    PROVE  /\ batch_pending' = batch_pending \cup {t} /\ batch_pending' \subseteq Table
           /\ batch_fence' \in [Table -> Fence] /\ batch_fence'[t] = last_fence'
           /\ \A u \in Table : u # t => batch_fence'[u] = batch_fence[u]
           /\ next_table' \in Table
<1>1. (t + 1) % Tables \in 0 .. Tables - 1
  BY DescriptorPoolAssumption DEF Table
<1> QED BY <1>1 DEF Claim, PoolTypes, Table

LEMMA UploadType ==
    ASSUME PoolTypes, NEW t \in Table, Upload(t)
    PROVE  /\ content' \in [Table -> {0, 1}]
           /\ \A u \in Table : u # t => content'[u] = content[u]
BY DEF Upload, PoolTypes

LEMMA PoolTypesStep == ASSUME MemoryInv, [Next]_vars PROVE PoolTypes'
<1>0. PoolTypes /\ last_fence' \in Fence
  BY LinkTypesStep DEF MemoryInv, LinkTypes
<1>1. CASE PoolCall
  <2>1. CASE FindTaken
    <3>1. table' \in Table /\ batch_pending' \subseteq Table
      BY <1>0, <2>1, CandidateType DEF FindTaken, Available, PoolTypes
    <3>2. tried' \in 0 .. Tables
      BY <2>1, DescriptorPoolAssumption DEF FindTaken
    <3> QED BY <1>0, <2>1, <3>1, <3>2 DEF FindTaken, PoolTypes
  <2>2. CASE FindBusy
    <3>1. tried' \in 0 .. Tables
      BY <1>0, <2>2, DescriptorPoolAssumption DEF FindBusy, PoolTypes
    <3> QED BY <1>0, <2>2, <3>1 DEF FindBusy, Busy, PoolTypes
  <2>3. CASE FindFails
    BY <1>0, <2>3, DescriptorPoolAssumption DEF FindFails, PoolTypes
  <2>4. CASE BatchUpload
    <3>1. table \in Table
      BY <2>4 DEF BatchUpload, MemoryInv, TableInv
    <3>2. content' \in [Table -> {0, 1}]
      BY <1>0, <2>4, <3>1, UploadType DEF BatchUpload
    <3> QED BY <1>0, <2>4, <3>2 DEF BatchUpload, PoolTypes
  <2>5. CASE BatchAbandoned
    BY <1>0, <2>5 DEF BatchAbandoned, PoolTypes
  <2> QED BY <1>1, <2>1, <2>2, <2>3, <2>4, <2>5 DEF PoolCall
<1>2. CASE \E t \in Table : RawUpload(t)
  <2>1. PICK t \in Table : RawUpload(t)
    BY <1>2
  <2>2. content' \in [Table -> {0, 1}]
    BY <1>0, <2>1, UploadType DEF RawUpload
  <2> QED BY <1>0, <2>1, <2>2 DEF RawUpload, Available, PoolTypes
<1>3. CASE \E t \in Table : RawBatchRefused(t)
  BY <1>0, <1>3 DEF RawBatchRefused, Available, PoolTypes
<1>4. CASE UNCHANGED pool
  BY <1>0, <1>4 DEF PoolTypes
<1>5. CASE \E S \in SUBSET OwnSurfaces : HostBatch(S)
  <2>1. PICK S \in SUBSET OwnSurfaces : HostBatch(S)
    BY <1>5
  <2>2. table \in Table /\ Claim(table, batch_pending) /\ table' = NoTable
        /\ UNCHANGED <<tried, content>>
    BY <2>1, BatchCommand DEF HostBatch, BatchPush
  <2> QED BY <1>0, <2>2, ClaimType DEF PoolTypes
<1>6. CASE \E n \in 1 .. MaxDraws : \E keys \in [1 .. n -> Keys] : HostCacheBatch(keys)
  <2>0. PICK n \in 1 .. MaxDraws : \E keys \in [1 .. n -> Keys] : HostCacheBatch(keys)
    BY <1>6
  <2>1. PICK keys \in [1 .. n -> Keys] : HostCacheBatch(keys)
    BY <2>0
  <2>2. table \in Table /\ Claim(table, batch_pending) /\ table' = NoTable
        /\ UNCHANGED <<tried, content>>
    BY <2>1, CacheBatchCommand DEF HostCacheBatch, BatchPush
  <2> QED BY <1>0, <2>2, ClaimType DEF PoolTypes
<1>7. CASE \E t \in Table : HostRawBatch(t)
  BY <1>0, <1>7, ClaimType DEF HostRawBatch, RawBatch, PoolTypes
<1> QED BY <1>1, <1>2, <1>3, <1>4, <1>5, <1>6, <1>7, Steps, QuietPoolSteps
      DEF PoolStep, PublishStep, FinishStep, HostBatchPush, HostBatchStart, BatchStart,
          HostDraw, HostCacheBlend

\* A table is available only when no pending batch uses it.
LEMMA AvailableUnused ==
    ASSUME MemoryInv, NEW t \in Table,
           t \notin batch_pending \/ PollComplete(batch_fence[t])
    PROVE  \A i \in 1 .. Len(pending) : pending[i].table # t
<1> SUFFICES ASSUME NEW i \in 1 .. Len(pending), pending[i].table = t PROVE FALSE
  OBVIOUS
<1>1. t # NoTable
  BY DescriptorPoolAssumption DEF Table, NoTable
<1>2. t \in batch_pending /\ Pending(batch_fence[t], i)
  BY <1>1 DEF MemoryInv, TableInv, TablesHeld
<1>3. batch_fence[t] \in Fence
  BY DEF MemoryInv, PoolTypes
<1> QED BY <1>2, <1>3, NotComplete DEF MemoryInv

\* A step that submits nothing keeps the tables of pending batches if it keeps
\* their bits, their fences and their contents.
LEMMA HeldQuietly ==
    ASSUME MemoryInv, LinkKept, UNCHANGED batch_fence,
           \A i \in 1 .. Len(pending) : pending[i].table # NoTable =>
             /\ pending[i].table \in batch_pending'
             /\ content'[pending[i].table] = content[pending[i].table]
    PROVE  TablesHeld'
BY DEF MemoryInv, TableInv, TablesHeld, LinkKept, Pending

LEMMA HeldUnlessTaken ==
    ASSUME MemoryInv, LinkKept, UNCHANGED batch_fence, NEW t \in Table,
           \A i \in 1 .. Len(pending) : pending[i].table # t,
           batch_pending \ {t} \subseteq batch_pending',
           \A u \in Table : u # t => content'[u] = content[u]
    PROVE  TablesHeld'
<1> SUFFICES ASSUME NEW i \in 1 .. Len(pending), pending[i].table # NoTable
             PROVE  /\ pending[i].table \in batch_pending'
                    /\ content'[pending[i].table] = content[pending[i].table]
  BY HeldQuietly
<1>1. pending[i].table \in Table /\ pending[i].table \in batch_pending
  BY PendingType DEF MemoryInv, TableInv, TablesHeld
<1> QED BY <1>1
LEMMA HeldByPool == ASSUME MemoryInv, PoolStep PROVE TablesHeld'
<1>0. LinkKept /\ PoolTypes /\ TableInv
  BY QuietPool DEF MemoryInv
<1>1. CASE FindTaken
  <2>1. Candidate \in Table
    BY <1>0, CandidateType
  <2>2. \A i \in 1 .. Len(pending) : pending[i].table # Candidate
    BY <1>1, <2>1, AvailableUnused DEF FindTaken, Available
  <2>3. /\ UNCHANGED <<batch_fence, content>>
        /\ batch_pending \ {Candidate} \subseteq batch_pending'
    BY <1>1 DEF FindTaken, Available
  <2> QED BY <1>0, <2>1, <2>2, <2>3, HeldUnlessTaken
<1>2. CASE FindBusy \/ FindFails \/ BatchAbandoned
  <2>1. UNCHANGED <<batch_fence, content, batch_pending>>
    BY <1>2 DEF FindBusy, Busy, FindFails, BatchAbandoned
  <2> QED BY <1>0, <2>1, HeldQuietly DEF TableInv, TablesHeld
<1>3. CASE BatchUpload
  <2>1. table \in Table /\ table \notin batch_pending
    BY <1>0, <1>3 DEF BatchUpload, TableInv
  <2>2. \A i \in 1 .. Len(pending) : pending[i].table # table
    BY <2>1, AvailableUnused
  <2>3. /\ UNCHANGED <<batch_fence, batch_pending>>
        /\ \A u \in Table : u # table => content'[u] = content[u]
    BY <1>0, <1>3, <2>1, UploadType DEF BatchUpload
  <2> QED BY <1>0, <2>1, <2>2, <2>3, HeldUnlessTaken
<1>4. ASSUME NEW t \in Table, RawUpload(t) \/ RawBatchRefused(t)
      PROVE  TablesHeld'
  <2>1. \A i \in 1 .. Len(pending) : pending[i].table # t
    BY <1>4, AvailableUnused DEF RawUpload, RawBatchRefused, Available
  <2>2. /\ UNCHANGED batch_fence /\ batch_pending \ {t} \subseteq batch_pending'
        /\ \A u \in Table : u # t => content'[u] = content[u]
    BY <1>0, <1>4, UploadType DEF RawUpload, RawBatchRefused, Available
  <2> QED BY <1>0, <2>1, <2>2, HeldUnlessTaken
<1> QED BY <1>1, <1>2, <1>3, <1>4 DEF PoolStep, PoolCall

\* A batch that takes a free table is held like the ones before it.
LEMMA HeldByBatch ==
    ASSUME MemoryInv, NEW c \in Commands, Publish(c), NEW t \in Table,
           c.table = t, c.stamp = content[t], Claim(t, batch_pending),
           UNCHANGED content, \A i \in 1 .. Len(pending) : pending[i].table # t
    PROVE  TablesHeld'
<1>1. /\ Len(pending') = Len(pending) + 1 /\ pending'[Len(pending) + 1] = c
      /\ \A i \in 1 .. Len(pending) : pending'[i] = pending[i]
      /\ last_fence' \in Fence /\ Len(pending) \in Nat
  BY Publishing, PendingPublished, PendingType DEF MemoryInv
<1>2. /\ batch_pending' = batch_pending \cup {t} /\ batch_fence'[t] = last_fence'
      /\ \A u \in Table : u # t => batch_fence'[u] = batch_fence[u]
  BY <1>1, ClaimType DEF MemoryInv
<1> SUFFICES ASSUME NEW i \in 1 .. Len(pending'), pending'[i].table # NoTable
             PROVE  /\ pending'[i].table \in batch_pending'
                    /\ CountFrom(batch_fence'[pending'[i].table], last_fence')
                         <= Len(pending') - i
                    /\ content'[pending'[i].table] = pending'[i].stamp
  BY DEF TablesHeld, Pending
<1>3. CASE i = Len(pending) + 1
  <2>1. CountFrom(last_fence', last_fence') <= Len(pending') - i
    BY <1>3, PendingPublished DEF MemoryInv
  <2> QED BY <1>1, <1>2, <1>3, <2>1
<1>4. CASE i \in 1 .. Len(pending)
  <2>1. /\ pending'[i].table \in Table /\ pending'[i].table \in batch_pending
        /\ Pending(batch_fence[pending'[i].table], i)
        /\ content[pending'[i].table] = pending'[i].stamp
        /\ pending'[i].table # t
    BY <1>1, <1>4, PendingType DEF MemoryInv, TableInv, TablesHeld
  <2>2. batch_fence[pending'[i].table] \in Fence
    BY <2>1 DEF MemoryInv, PoolTypes
  <2>3. CountFrom(batch_fence[pending'[i].table], last_fence') <= Len(pending') - i
    BY <1>4, <2>1, <2>2, PendingPublished DEF MemoryInv
  <2> QED BY <1>2, <2>1, <2>3
<1> QED BY <1>1, <1>3, <1>4

\* A command without a table changes nothing.
LEMMA HeldByDraw ==
    ASSUME MemoryInv, NEW c \in Commands, Publish(c), c.table = NoTable, UNCHANGED pool
    PROVE  TablesHeld'
<1>1. /\ Len(pending') = Len(pending) + 1 /\ pending'[Len(pending) + 1] = c
      /\ \A i \in 1 .. Len(pending) : pending'[i] = pending[i]
      /\ Len(pending) \in Nat
  BY Publishing, PendingType DEF MemoryInv
<1> SUFFICES ASSUME NEW i \in 1 .. Len(pending'), pending'[i].table # NoTable
             PROVE  /\ pending'[i].table \in batch_pending
                    /\ CountFrom(batch_fence[pending'[i].table], last_fence')
                         <= Len(pending') - i
                    /\ content[pending'[i].table] = pending'[i].stamp
  BY DEF TablesHeld, Pending
<1>2. i \in 1 .. Len(pending)
  BY <1>1
<1>3. /\ pending'[i].table \in Table /\ pending'[i].table \in batch_pending
      /\ Pending(batch_fence[pending'[i].table], i)
      /\ content[pending'[i].table] = pending'[i].stamp
  BY <1>1, <1>2, PendingType DEF MemoryInv, TableInv, TablesHeld
<1>4. batch_fence[pending'[i].table] \in Fence
  BY <1>3 DEF MemoryInv, PoolTypes
<1>5. CountFrom(batch_fence[pending'[i].table], last_fence') <= Len(pending') - i
  BY <1>2, <1>3, <1>4, PendingPublished DEF MemoryInv
<1> QED BY <1>3, <1>5

LEMMA HeldByFinish == ASSUME MemoryInv, FinishStep PROVE TablesHeld'
<1>1. Finish /\ UNCHANGED pool
  BY DEF FinishStep
<1> SUFFICES ASSUME NEW i \in 1 .. Len(pending'), pending'[i].table # NoTable
             PROVE  /\ pending'[i].table \in batch_pending
                    /\ CountFrom(batch_fence[pending'[i].table], last_fence')
                         <= Len(pending') - i
                    /\ content[pending'[i].table] = pending'[i].stamp
  BY <1>1 DEF TablesHeld, Pending
<1>2. i + 1 \in 1 .. Len(pending) /\ pending'[i] = pending[i + 1]
  BY <1>1, Finishing DEF MemoryInv
<1>3. /\ pending'[i].table \in Table /\ pending'[i].table \in batch_pending
      /\ Pending(batch_fence[pending'[i].table], i + 1)
      /\ content[pending'[i].table] = pending'[i].stamp
  BY <1>2, PendingType DEF MemoryInv, TableInv, TablesHeld
<1>4. batch_fence[pending'[i].table] \in Fence
  BY <1>3 DEF MemoryInv, PoolTypes
<1>5. CountFrom(batch_fence[pending'[i].table], last_fence') <= Len(pending') - i
  BY <1>1, <1>3, <1>4, PendingFinished DEF MemoryInv
<1> QED BY <1>3, <1>5

LEMMA HeldByPublish == ASSUME MemoryInv, PublishStep PROVE TablesHeld'
<1>1. CASE \E S \in SUBSET OwnSurfaces : HostDraw(S)
  BY <1>1, DrawCommand, HeldByDraw DEF HostDraw
<1>2. CASE \E key \in Keys : HostCacheBlend(key)
  BY <1>2, BlendCommand, HeldByDraw DEF HostCacheBlend
<1>3. ASSUME host_pc = "push"
      PROVE  table \in Table /\ \A i \in 1 .. Len(pending) : pending[i].table # table
  BY <1>3, AvailableUnused DEF MemoryInv, TableInv
<1>4. CASE \E S \in SUBSET OwnSurfaces : HostBatch(S)
  <2>1. PICK S \in SUBSET OwnSurfaces : HostBatch(S)
    BY <1>4
  <2>2. host_pc = "push" /\ Claim(table, batch_pending) /\ UNCHANGED content
    BY <2>1 DEF HostBatch, BatchPush
  <2> QED BY <1>3, <2>1, <2>2, BatchCommand, HeldByBatch
<1>5. CASE \E n \in 1 .. MaxDraws : \E keys \in [1 .. n -> Keys] : HostCacheBatch(keys)
  <2>0. PICK n \in 1 .. MaxDraws : \E keys \in [1 .. n -> Keys] : HostCacheBatch(keys)
    BY <1>5
  <2>1. PICK keys \in [1 .. n -> Keys] : HostCacheBatch(keys)
    BY <2>0
  <2>2. host_pc = "push" /\ Claim(table, batch_pending) /\ UNCHANGED content
    BY <2>1 DEF HostCacheBatch, BatchPush
  <2> QED BY <1>3, <2>1, <2>2, CacheBatchCommand, HeldByBatch
<1>6. CASE \E t \in Table : HostRawBatch(t)
  <2>1. PICK t \in Table : HostRawBatch(t)
    BY <1>6
  <2>2. \A i \in 1 .. Len(pending) : pending[i].table # t
    BY <2>1, AvailableUnused DEF HostRawBatch, RawBatch
  <2>3. Claim(t, batch_pending) /\ UNCHANGED content
    BY <2>1 DEF HostRawBatch, RawBatch
  <2> QED BY <2>1, <2>2, <2>3, RawCommand, HeldByBatch
<1> QED BY <1>1, <1>2, <1>4, <1>5, <1>6 DEF PublishStep, HostBatchPush

LEMMA TableStep == ASSUME MemoryInv, [Next]_vars PROVE TableInv'
<1>0. TableInv /\ PoolTypes
  BY DEF MemoryInv
<1>1. TablesHeld'
  <2>1. CASE OtherStep /\ UNCHANGED pool /\ QuietStep
    BY <1>0, <2>1, QuietKeepsLink, HeldQuietly DEF TableInv, TablesHeld
  <2>2. CASE HostBatchStart
    BY <1>0, <2>2, HeldQuietly
       DEF HostBatchStart, BatchStart, TableInv, TablesHeld, LinkKept, Polled
  <2> QED BY <2>1, <2>2, Steps, QuietPoolSteps, HeldByPool, HeldByPublish, HeldByFinish
<1>2. /\ host_pc' \in {"upload", "push"} => table' \in Table \ batch_pending'
      /\ host_pc' # "find" => tried' = 0
  <2>1. CASE FindTaken
    BY <1>0, <2>1, CandidateType DEF FindTaken, Available
  <2>2. CASE FindBusy \/ FindFails \/ BatchUpload \/ BatchAbandoned
    BY <1>0, <2>2 DEF FindBusy, FindFails, BatchUpload, BatchAbandoned, TableInv
  <2>3. CASE \E t \in Table : RawUpload(t) \/ RawBatchRefused(t)
    BY <1>0, <2>3 DEF RawUpload, RawBatchRefused, Available, TableInv
  <2>4. CASE HostBatchStart
    BY <1>0, <2>4 DEF HostBatchStart, BatchStart, TableInv
  <2>5. CASE OtherStep /\ UNCHANGED pool
    BY <1>0, <2>5, OtherPc DEF BatchPcs, TableInv
  <2>6. CASE PublishStep
    BY <1>0, <2>6 DEF PublishStep, HostBatchPush, HostBatch, HostCacheBatch, BatchPush,
       HostDraw, Draw, HostCacheBlend, CacheBlend, HostRawBatch, RawBatch, TableInv
  <2>7. CASE FinishStep
    BY <1>0, <2>7 DEF FinishStep, Finish, TableInv
  <2> QED BY <2>1, <2>2, <2>3, <2>4, <2>5, <2>6, <2>7, Steps, QuietPoolSteps
        DEF PoolStep, PoolCall
<1> QED BY <1>1, <1>2 DEF TableInv
-----------------------------------------------------------------------------
(* The arena.                                                              *)

LEMMA LeastNat ==
    ASSUME NEW T, T \subseteq Nat, T # {}
    PROVE  \E m \in T : \A n \in T : m <= n
<1> DEFINE R == OpToRel(<, Nat)
<1>1. IsWellFoundedOn(R, Nat)
  BY NatLessThanWellFounded
<1>2. PICK m \in T : \A n \in T : ~(<<n, m>> \in R)
  <2> HIDE DEF R
  <2> QED BY <1>1, WFMin
<1>3. ASSUME NEW n \in T PROVE m <= n
  <2>1. ~(n < m)
    BY <1>2, <1>3 DEF OpToRel
  <2> QED BY <2>1
<1> QED BY <1>3

LEMMA GreatestNat ==
    ASSUME NEW T, T \subseteq Nat, T # {}, NEW bound \in Nat, \A n \in T : n <= bound
    PROVE  \E m \in T : \A n \in T : n <= m
<1> DEFINE D == {bound - n : n \in T}
<1>0. \A n \in T : bound - n \in Nat
  OBVIOUS
<1>1. D \subseteq Nat /\ D # {}
  BY <1>0
<1>2. PICK d \in D : \A c \in D : d <= c
  BY <1>1, LeastNat
<1>3. PICK m \in T : d = bound - m
  BY <1>2
<1>4. ASSUME NEW n \in T PROVE n <= m
  <2>1. d <= bound - n
    BY <1>2
  <2> QED BY <1>3, <2>1
<1> QED BY <1>4

LEMMA ExtentsAndSurfaces ==
    ASSUME ArenaTypes
    PROVE  /\ ArenaPages \in Nat /\ ArenaPages > 0
           /\ \A e \in surface_free : e \in Extent /\ e \notin Kept
           /\ Kept \subseteq Surface /\ Len(retired) \in Nat
           /\ \A i \in 1 .. Len(retired) : retired[i] \in Kept
           /\ \A e \in surface_free \cup Kept :
                /\ e.address \in Nat /\ e.address < ArenaPages
                /\ e.size \in Nat /\ e.size > 0 /\ e.size <= ArenaPages
<1>1. ArenaPages \in Nat /\ ArenaPages > 0
  BY SurfaceArenaAssumption
<1>2. Len(retired) \in Nat /\ \A i \in 1 .. Len(retired) : retired[i] \in Surface
  BY DEF ArenaTypes
<1>3. Kept \subseteq Surface /\ \A i \in 1 .. Len(retired) : retired[i] \in Kept
  BY <1>2 DEF ArenaTypes, Kept, Retired
<1>4. \A e \in surface_free : e \in Extent
  BY DEF ArenaTypes
<1>5. \A e \in Extent : e \notin Surface
  BY DEF Extent, Surface
<1>6. ASSUME NEW e \in surface_free \cup Kept
      PROVE  e.address \in Page /\ e.size \in 1 .. ArenaPages
  BY <1>3, <1>4 DEF Extent, Surface
<1>7. ASSUME NEW e \in surface_free \cup Kept
      PROVE  /\ e.address \in Nat /\ e.address < ArenaPages
             /\ e.size \in Nat /\ e.size > 0 /\ e.size <= ArenaPages
  BY <1>1, <1>6 DEF Page
<1> QED BY <1>1, <1>2, <1>3, <1>4, <1>5, <1>7

\* Two owners of a page are the same.
LEMMA OwnersMeet ==
    ASSUME ArenaTypes, Partitions(surface_free \cup Kept),
           NEW e \in surface_free \cup Kept, NEW f \in surface_free \cup Kept,
           NEW page \in Nat, page \in Pages(e), page \in Pages(f)
    PROVE  e = f
<1>1. e.address + e.size <= ArenaPages
  BY DEF Partitions
<1>2. page \in Page
  BY <1>1, ExtentsAndSurfaces DEF Pages, Page
<1> QED BY <1>2 DEF Partitions

\* Owners may be replaced by others of the same pages.
LEMMA ReplacePartition ==
    ASSUME NEW A, NEW M, NEW N, M \subseteq A, Partitions(A),
           \A e \in N : e.address + e.size <= ArenaPages,
           \A page \in Page :
             (\E e \in M : page \in Pages(e)) <=> (\E e \in N : page \in Pages(e)),
           \A page \in Page : \A e, f \in N :
             page \in Pages(e) /\ page \in Pages(f) => e = f
    PROVE  Partitions((A \ M) \cup N)
<1>1. \A e \in (A \ M) \cup N : e.address + e.size <= ArenaPages
  BY DEF Partitions
<1>2. ASSUME NEW page \in Page
      PROVE  \E e \in (A \ M) \cup N :
               page \in Pages(e) /\ \A f \in (A \ M) \cup N : page \in Pages(f) => f = e
  <2>1. PICK e \in A : page \in Pages(e) /\ \A f \in A : page \in Pages(f) => f = e
    BY DEF Partitions
  <2>2. CASE e \in M
    <3>1. PICK n \in N : page \in Pages(n)
      BY <2>1, <2>2
    <3>2. \A f \in (A \ M) \cup N : page \in Pages(f) => f = n
      BY <2>1, <2>2, <3>1
    <3> QED BY <3>1, <3>2
  <2>3. CASE e \notin M
    <3>1. \A f \in (A \ M) \cup N : page \in Pages(f) => f = e
      BY <2>1, <2>3
    <3> QED BY <2>1, <2>3, <3>1
  <2> QED BY <2>2, <2>3
<1> QED BY <1>1, <1>2 DEF Partitions

-----------------------------------------------------------------------------
(* Returned extents.                                                       *)

\* The neighbours of an owner among the free extents.
LEMMA Touched ==
    ASSUME ArenaTypes, PartitionInv, NEW s \in Kept
    PROVE  /\ TouchedBefore(s.address) = {e \in surface_free : e.address + e.size = s.address}
           /\ TouchedAfter(s.address, s.size) =
                {e \in surface_free : s.address + s.size = e.address}
<1> USE ExtentsAndSurfaces
<1>1. ASSUME NEW e \in surface_free, e.address + e.size = s.address
      PROVE  e \in Previous(s.address)
  <2>1. e \in Before(s.address)
    BY <1>1 DEF Before
  <2>2. ASSUME NEW f \in Before(s.address), ~(f.address <= e.address) PROVE FALSE
    <3>1. f \in surface_free /\ f.address < s.address /\ f.address > e.address
      BY <2>2 DEF Before
    <3>2. f.address \in Pages(e) /\ f.address \in Pages(f)
      BY <1>1, <3>1 DEF Pages
    <3>3. e = f
      BY <3>1, <3>2, OwnersMeet DEF PartitionInv
    <3> QED BY <3>1, <3>3
  <2> QED BY <2>1, <2>2 DEF Previous
<1>2. ASSUME NEW e \in surface_free, s.address + s.size = e.address
      PROVE  e \in Following(s.address)
  <2>1. e \in After(s.address)
    BY <1>2 DEF After, Before
  <2>2. ASSUME NEW f \in After(s.address), ~(e.address <= f.address) PROVE FALSE
    <3>1. f \in surface_free /\ f.address >= s.address /\ f.address < e.address
      BY <2>2 DEF After, Before
    <3>2. f.address \in Pages(s) /\ f.address \in Pages(f)
      BY <1>2, <3>1 DEF Pages
    <3>3. s = f
      BY <3>1, <3>2, OwnersMeet DEF PartitionInv
    <3> QED BY <3>1, <3>3
  <2> QED BY <2>1, <2>2 DEF Following
<1>3. Previous(s.address) \subseteq surface_free /\ Following(s.address) \subseteq surface_free
  BY DEF Previous, Following, After, Before
<1> QED BY <1>1, <1>2, <1>3 DEF TouchedBefore, TouchedAfter
\* insert_extent: what is freed replaces itself and the neighbours it touches.
LEMMA Inserting ==
    ASSUME ArenaTypes, PartitionInv, NEW s \in Kept, InsertExtent(s.address, s.size)
    PROVE  \E M \in SUBSET surface_free, n \in Extent :
             /\ surface_free' = (surface_free \ M) \cup {n}
             /\ \A page \in Nat :
                  page \in Pages(n) <=> \E e \in M \cup {s} : page \in Pages(e)
             /\ n.address + n.size <= ArenaPages
             /\ \A f \in surface_free \ M : /\ n.address + n.size # f.address
                                            /\ f.address + f.size # n.address
<1> USE ExtentsAndSurfaces
<1> DEFINE left == TouchedBefore(s.address)
           right == TouchedAfter(s.address, s.size)
           start == IF left = {} THEN s.address ELSE (CHOOSE e \in left : TRUE).address
           end == IF right = {} THEN s.address + s.size
                  ELSE s.address + s.size + (CHOOSE e \in right : TRUE).size
           n == [address |-> start, size |-> end - start]
<1>1. surface_free' = (surface_free \ (left \cup right)) \cup {n}
  BY DEF InsertExtent
<1>2. /\ left = {e \in surface_free : e.address + e.size = s.address}
      /\ right = {e \in surface_free : s.address + s.size = e.address}
  BY Touched
<1> HIDE DEF left, right
<1>3. \A e, f \in left : e = f
  <2> SUFFICES ASSUME NEW e \in left, NEW f \in left PROVE e = f
    OBVIOUS
  <2>1. /\ e.address + e.size - 1 \in Pages(e) /\ e.address + e.size - 1 \in Pages(f)
        /\ e.address + e.size - 1 \in Nat
    BY SMTT(20), <1>2 DEF Pages
  <2> QED BY <1>2, <2>1, OwnersMeet DEF PartitionInv
<1>4. \A e, f \in right : e = f
  <2> SUFFICES ASSUME NEW e \in right, NEW f \in right PROVE e = f
    OBVIOUS
  <2>1. e.address \in Pages(e) /\ e.address \in Pages(f)
    BY SMTT(20), <1>2 DEF Pages
  <2> QED BY <1>2, <2>1, OwnersMeet DEF PartitionInv
<1>5. /\ start \in Nat /\ start <= s.address
      /\ \A page \in Nat : page \in start .. s.address - 1 <=> \E e \in left : page \in Pages(e)
      /\ \A f \in surface_free \ left : f.address + f.size # start
  <2>1. CASE left = {}
    BY <1>2, <2>1
  <2>2. CASE left # {}
    <3>1. PICK l \in left : start = l.address
      BY <2>2
    <3>2. l \in surface_free /\ l.address + l.size = s.address /\ left = {l}
      BY <1>2, <1>3, <3>1
    <3>3. \A f \in surface_free : f.address + f.size # l.address
      BY <3>2 DEF PartitionInv
    <3>4. Pages(l) = start .. s.address - 1
      BY <3>1, <3>2 DEF Pages
    <3> QED BY <3>1, <3>2, <3>3, <3>4
  <2> QED BY <2>1, <2>2
<1>6. /\ end \in Nat /\ s.address + s.size <= end /\ end <= ArenaPages
      /\ \A page \in Nat :
           page \in s.address + s.size .. end - 1 <=> \E e \in right : page \in Pages(e)
      /\ \A f \in surface_free \ right : f.address # end
  <2>1. CASE right = {}
    BY <1>2, <2>1 DEF PartitionInv, Partitions
  <2>2. CASE right # {}
    <3>1. PICK r \in right : end = s.address + s.size + r.size
      BY <2>2
    <3>2. r \in surface_free /\ s.address + s.size = r.address /\ right = {r}
      BY <1>2, <1>4, <3>1
    <3>3. \A f \in surface_free : r.address + r.size # f.address
      BY <3>2 DEF PartitionInv
    <3>4. Pages(r) = s.address + s.size .. end - 1
      BY <3>1, <3>2 DEF Pages
    <3>5. r.address + r.size <= ArenaPages /\ end = r.address + r.size
      BY <3>1, <3>2 DEF PartitionInv, Partitions
    <3> QED BY <3>1, <3>2, <3>3, <3>4, <3>5
  <2> QED BY <2>1, <2>2
<1> HIDE DEF start, end
<1>7. n \in Extent /\ n.address = start /\ n.size = end - start
  <2>1. start \in Page /\ end - start \in 1 .. ArenaPages
    BY <1>5, <1>6 DEF Page
  <2> QED BY <2>1 DEF Extent
<1>8. ASSUME NEW page \in Nat
      PROVE  page \in Pages(n) <=> \E e \in (left \cup right) \cup {s} : page \in Pages(e)
  <2>1. page \in Pages(n) <=> page \in start .. end - 1
    BY <1>5, <1>6, <1>7 DEF Pages
  <2>2. page \in Pages(s) <=> page \in s.address .. s.address + s.size - 1
    BY DEF Pages
  <2>3. page \in start .. end - 1 <=>
          \/ page \in start .. s.address - 1
          \/ page \in s.address .. s.address + s.size - 1
          \/ page \in s.address + s.size .. end - 1
    BY <1>5, <1>6
  <2> QED BY <1>5, <1>6, <2>1, <2>2, <2>3
<1>9. \A f \in surface_free \ (left \cup right) : /\ n.address + n.size # f.address
                                                  /\ f.address + f.size # n.address
  BY <1>5, <1>6, <1>7
<1>10. n.address + n.size <= ArenaPages
  BY <1>5, <1>6, <1>7
<1>11. left \cup right \in SUBSET surface_free
  BY <1>2
<1> HIDE DEF n
<1> QED BY <1>1, <1>7, <1>8, <1>9, <1>10, <1>11
\* allocate_extent: the new surface and what is left of the extent replace it.
LEMMA Fits ==
    ASSUME ArenaTypes, NEW size \in 1 .. ArenaPages, Fitting(size) # {}
    PROVE  FirstFit(size) \in surface_free /\ FirstFit(size).size >= size
<1> DEFINE T == {e.address : e \in Fitting(size)}
<1>1. T \subseteq Nat /\ T # {}
  BY ExtentsAndSurfaces DEF Fitting
<1>2. PICK m \in T : \A k \in T : m <= k
  BY <1>1, LeastNat
<1>3. PICK e \in Fitting(size) : m = e.address
  BY <1>2
<1>4. \A f \in Fitting(size) : e.address <= f.address
  BY <1>2, <1>3
<1>5. FirstFit(size) \in Fitting(size)
  BY <1>3, <1>4 DEF FirstFit
<1> QED BY <1>5 DEF Fitting

LEMMA Allocating ==
    ASSUME ArenaTypes, PartitionInv, NEW size \in 1 .. ArenaPages, Fitting(size) # {},
           AllocateExtent(size), NEW s, s.address = FirstFit(size).address, s.size = size
    PROVE  \E e \in surface_free, N \in SUBSET Extent :
             /\ surface_free' = (surface_free \ {e}) \cup N
             /\ \A page \in Nat :
                  page \in Pages(e) <=> \E f \in N \cup {s} : page \in Pages(f)
             /\ \A page \in Nat : \A f, g \in N \cup {s} :
                  page \in Pages(f) /\ page \in Pages(g) => f = g
             /\ s.address = e.address /\ s.address + size <= ArenaPages
             /\ \A f \in N : f.address + f.size = e.address + e.size
                             /\ f.address = e.address + size /\ f.address \in Pages(e)
<1> USE ExtentsAndSurfaces
<1> DEFINE e == FirstFit(size)
           rest == [address |-> e.address + size, size |-> e.size - size]
           N == IF e.size = size THEN {} ELSE {rest}
<1>1. e \in surface_free /\ e.size >= size /\ surface_free' = (surface_free \ {e}) \cup N
  BY Fits DEF AllocateExtent
<1>2. s.address = e.address /\ s.size = size
  OBVIOUS
<1> HIDE DEF e
<1>3. e.address + e.size <= ArenaPages
  BY <1>1 DEF PartitionInv, Partitions
<1>4. CASE e.size = size
  <2>1. N = {} /\ \A page \in Nat : page \in Pages(e) <=> page \in Pages(s)
    BY <1>1, <1>2, <1>4 DEF Pages
  <2> QED BY <1>1, <1>2, <1>3, <1>4, <2>1
<1>5. CASE e.size # size
  <2>1. N = {rest} /\ rest \in Extent
    <3>1. e.address + size \in Page /\ e.size - size \in 1 .. ArenaPages
      BY <1>1, <1>3, <1>5 DEF Page
    <3> QED BY <1>5, <3>1 DEF Extent
  <2>2. rest.address = e.address + size /\ rest.size = e.size - size
    OBVIOUS
  <2> HIDE DEF rest, N
  <2>3. \A page \in Nat : /\ page \in Pages(e) <=> page \in Pages(rest) \/ page \in Pages(s)
                          /\ ~(page \in Pages(rest) /\ page \in Pages(s))
    BY SMTT(20), <1>1, <1>2, <1>5, <2>2 DEF Pages
  <2>4. rest.address + rest.size = e.address + e.size /\ rest.address \in Pages(e)
    <3>1. /\ e.address \in Nat /\ e.size \in Nat /\ size \in Nat /\ size > 0 /\ e.size > size
      BY <1>1, <1>5
    <3>2. e.address + size \in e.address .. e.address + e.size - 1
      BY <3>1
    <3>3. rest.address \in Pages(e)
      BY <2>2, <3>2 DEF Pages
    <3>4. rest.address + rest.size = e.address + e.size
      BY <2>2, <3>1
    <3> QED BY <3>3, <3>4
  <2>5. s.address + size <= ArenaPages
    BY <1>1, <1>2, <1>3
  <2>6. \A page \in Nat : \A f, g \in N \cup {s} :
          page \in Pages(f) /\ page \in Pages(g) => f = g
    BY <2>1, <2>3
  <2>7. \A page \in Nat : page \in Pages(e) <=> \E f \in N \cup {s} : page \in Pages(f)
    BY <2>1, <2>3
  <2>8. \A f \in N : f.address + f.size = e.address + e.size
                     /\ f.address = e.address + size /\ f.address \in Pages(e)
    BY <2>1, <2>2, <2>4
  <2>9. N \in SUBSET Extent
    BY <2>1
  <2> QED BY <1>1, <1>2, <2>5, <2>6, <2>7, <2>8, <2>9
<1> QED BY <1>4, <1>5

-----------------------------------------------------------------------------
(* What the steps do to the surfaces.                                      *)

LEMMA Concatenation ==
    ASSUME NEW S, NEW a \in Seq(S), NEW b \in Seq(S)
    PROVE  /\ a \o b \in Seq(S) /\ Len(a \o b) = Len(a) + Len(b)
           /\ \A i \in 1 .. Len(a) + Len(b) :
                (a \o b)[i] = IF i <= Len(a) THEN a[i] ELSE b[i - Len(a)]
OBVIOUS

\* collect: the reclaimed surface leaves the retired list.
LEMMA Reclaiming ==
    ASSUME MemoryInv, CollectReclaim
    PROVE  /\ cursor \in 1 .. Len(retired) /\ retired[cursor] \in Kept
           /\ retired' \in Seq(Surface) /\ Len(retired') = Len(retired) - 1
           /\ \A i \in 1 .. Len(retired') :
                /\ i < cursor => i \in 1 .. Len(retired) /\ retired'[i] = retired[i]
                /\ i >= cursor => i + 1 \in 1 .. Len(retired) /\ retired'[i] = retired[i + 1]
           /\ Retired' = Retired \ {retired[cursor]}
           /\ Kept' = Kept \ {retired[cursor]} /\ surfaces' = surfaces
<1>1. /\ cursor \in 1 .. Len(retired) /\ retired \in Seq(Surface) /\ Len(retired) \in Nat
      /\ retired' = SubSeq(retired, 1, cursor - 1) \o SubSeq(retired, cursor + 1, Len(retired))
      /\ surfaces' = surfaces
  BY ExtentsAndSurfaces DEF MemoryInv, CollectReclaim, Collecting, CollectInv, ArenaTypes
<1> DEFINE a == SubSeq(retired, 1, cursor - 1)
           b == SubSeq(retired, cursor + 1, Len(retired))
<1>2. /\ a \in Seq(Surface) /\ Len(a) = cursor - 1
      /\ \A i \in 1 .. cursor - 1 : a[i] = retired[i]
  BY <1>1
<1>3. /\ b \in Seq(Surface) /\ Len(b) = Len(retired) - cursor
      /\ \A i \in 1 .. Len(retired) - cursor : b[i] = retired[cursor + i]
  BY <1>1
<1>c. cursor \in Nat /\ cursor >= 1 /\ cursor <= Len(retired) /\ Len(retired) \in Nat
  BY <1>1
<1>d. retired' = a \o b
  BY <1>1
<1>4. /\ retired' \in Seq(Surface) /\ Len(retired') = Len(a) + Len(b)
      /\ \A i \in 1 .. Len(a) + Len(b) :
           retired'[i] = IF i <= Len(a) THEN a[i] ELSE b[i - Len(a)]
  <2>1. a \in Seq(Surface) /\ b \in Seq(Surface)
    BY <1>2, <1>3
  <2> HIDE DEF a, b
  <2> QED BY <1>d, <2>1, Concatenation
<1> HIDE DEF a, b
<1>5. Len(a) + Len(b) = Len(retired) - 1 /\ Len(retired') = Len(retired) - 1
  BY <1>c, <1>2, <1>3, <1>4
<1>6. ASSUME NEW i \in 1 .. Len(retired')
      PROVE  /\ i < cursor => i \in 1 .. Len(retired) /\ retired'[i] = retired[i]
             /\ i >= cursor => i + 1 \in 1 .. Len(retired) /\ retired'[i] = retired[i + 1]
  <2>1. CASE i < cursor
    BY <1>c, <1>2, <1>4, <1>5, <2>1
  <2>2. CASE i >= cursor
    <3>1. i - Len(a) \in 1 .. Len(retired) - cursor /\ i > Len(a)
      BY <1>c, <1>2, <1>5, <2>2
    <3>2. retired'[i] = b[i - Len(a)]
      BY <1>c, <1>2, <1>4, <1>5, <3>1
    <3>3. b[i - Len(a)] = retired[cursor + (i - Len(a))] /\ cursor + (i - Len(a)) = i + 1
      BY <1>c, <1>2, <1>3, <3>1
    <3> QED BY <1>c, <1>5, <2>2, <3>2, <3>3
  <2> QED BY <1>1, <2>1, <2>2
<1>7. Retired' = Retired \ {retired[cursor]}
  <2>1. ASSUME NEW s \in Retired, s # retired[cursor] PROVE s \in Retired'
    <3>1. PICK i \in 1 .. Len(retired) : s = retired[i]
      BY DEF Retired
    <3>2. CASE i < cursor
      <4>1. i \in 1 .. Len(retired') /\ retired'[i] = s
        BY <1>c, <1>5, <1>6, <3>1, <3>2
      <4> QED BY <4>1 DEF Retired
    <3>3. CASE i > cursor
      <4>1. i - 1 \in 1 .. Len(retired') /\ i - 1 >= cursor /\ (i - 1) + 1 = i
        BY <1>c, <1>5, <3>3
      <4>2. retired'[i - 1] = s
        BY <1>6, <3>1, <4>1
      <4> QED BY <4>1, <4>2 DEF Retired
    <3> QED BY <1>1, <2>1, <3>1, <3>2, <3>3
  <2>2. ASSUME NEW s \in Retired' PROVE s \in Retired /\ s # retired[cursor]
    <3>1. PICK i \in 1 .. Len(retired') : s = retired'[i]
      BY DEF Retired
    <3>2. PICK j \in 1 .. Len(retired) : s = retired[j] /\ j # cursor
      BY <1>c, <1>5, <1>6, <3>1
    <3>3. retired[j] # retired[cursor]
      BY <1>1, <3>2 DEF MemoryInv, NameInv
    <3> QED BY <3>2, <3>3 DEF Retired
  <2> QED BY <2>1, <2>2
<1>8. retired[cursor] \notin surfaces /\ retired[cursor] \in Kept
  BY <1>1 DEF MemoryInv, NameInv, Kept, Retired
<1>9. Kept' = Kept \ {retired[cursor]}
  BY <1>1, <1>7, <1>8 DEF Kept
<1> QED BY <1>1, <1>4, <1>5, <1>6, <1>7, <1>8, <1>9

\* noodles_surface_destroy and the ends of a cache: s joins the retired list.
LEMMA Retiring ==
    ASSUME ArenaTypes, NEW s \in Surface, retired' = <<s>> \o retired
    PROVE  /\ retired' \in Seq(Surface) /\ Len(retired') = Len(retired) + 1
           /\ retired'[1] = s
           /\ \A i \in 2 .. Len(retired) + 1 :
                i - 1 \in 1 .. Len(retired) /\ retired'[i] = retired[i - 1]
           /\ Retired' = Retired \cup {s}
<1>1. retired \in Seq(Surface) /\ Len(retired) \in Nat
  BY DEF ArenaTypes
<1>2. /\ retired' \in Seq(Surface) /\ Len(retired') = Len(retired) + 1
      /\ retired'[1] = s
  BY <1>1
<1>3. ASSUME NEW i \in 2 .. Len(retired) + 1
      PROVE  i - 1 \in 1 .. Len(retired) /\ retired'[i] = retired[i - 1]
  BY <1>1
<1>4. Retired' \subseteq Retired \cup {s}
  BY <1>1, <1>2, <1>3 DEF Retired
<1>5. ASSUME NEW r \in Retired PROVE r \in Retired'
  <2>1. PICK i \in 1 .. Len(retired) : r = retired[i]
    BY DEF Retired
  <2>2. i + 1 \in 2 .. Len(retired) + 1 /\ i + 1 \in 1 .. Len(retired') /\ (i + 1) - 1 = i
    BY <1>1, <1>2
  <2>3. retired'[i + 1] = r
    BY <1>3, <2>1, <2>2
  <2> QED BY <2>2, <2>3 DEF Retired
<1>6. s \in Retired'
  BY <1>1, <1>2 DEF Retired
<1> QED BY <1>2, <1>3, <1>4, <1>5, <1>6
\* The steps, by what they do to extents and surfaces.
ArenaKept == UNCHANGED <<surface_free, surfaces, retired, created>>

Creating ==
    /\ CreationEnds(request)
    /\ \/ surfaces' = surfaces \cup {NewSurface(request)} /\ retired' = retired
       \/ surfaces' = surfaces /\ retired' = <<NewSurface(request)>> \o retired

Destroying ==
    (\E s \in surfaces : Retire(s)) /\ UNCHANGED <<surface_free, created>>

\* Uses and waits change what surfaces record and nothing else.
Same(r, s) == r.id = s.id /\ r.address = s.address /\ r.size = s.size
Relabels(S, N) ==
    /\ S \subseteq surfaces /\ N \subseteq Surface
    /\ surfaces' = (surfaces \ S) \cup N
    /\ \A s \in S : \E r \in N : Same(r, s)
    /\ \A r \in N : \E s \in S : Same(r, s)
    /\ \A q, r \in N : q.id = r.id => q = r
Recording ==
    (\E S, N \in SUBSET Surface : Relabels(S, N)) /\ UNCHANGED <<surface_free, retired, created>>

LEMMA Marking ==
    ASSUME MemoryInv, NEW S \in SUBSET surfaces, MarkUsed(S), last_fence' \in Fence
    PROVE  \E N \in SUBSET Surface :
             /\ Relabels(S, N)
             /\ \A r \in N : r.used /\ r.last_fence = last_fence'
<1> DEFINE marked(s) == [s EXCEPT !.used = TRUE, !.last_fence = last_fence']
           N == {marked(s) : s \in S}
<1>1. S \subseteq Surface /\ surfaces' = (surfaces \ S) \cup N
  BY DEF MemoryInv, ArenaTypes, MarkUsed
<1>2. ASSUME NEW s \in S
      PROVE  /\ marked(s) \in Surface /\ Same(marked(s), s)
             /\ marked(s).used /\ marked(s).last_fence = last_fence'
  BY <1>1 DEF Surface, Same
<1>3. ASSUME NEW r \in S, NEW s \in S, r.id = s.id PROVE r = s
  BY <1>3 DEF MemoryInv, NameInv, Kept
<1> HIDE DEF marked
<1>4. N \subseteq Surface /\ \A r \in N : \E s \in S : Same(r, s) /\ r = marked(s)
  BY <1>2
<1>5. \A s \in S : \E r \in N : Same(r, s)
  BY <1>2
<1>6. \A q, r \in N : q.id = r.id => q = r
  BY <1>3, <1>4 DEF Same
<1>7. \A r \in N : r.used /\ r.last_fence = last_fence'
  BY <1>2
<1> HIDE DEF N
<1> QED BY <1>1, <1>4, <1>5, <1>6, <1>7 DEF Relabels

LEMMA Waiting ==
    ASSUME MemoryInv, NEW s \in surfaces, TransferWaited(s)
    PROVE  \E r \in Surface :
             /\ Relabels({s}, {r}) /\ ~r.used /\ Same(r, s)
             /\ UNCHANGED <<surface_free, retired, created>>
<1> DEFINE r == [s EXCEPT !.used = FALSE]
<1>1. s \in Surface /\ surfaces' = (surfaces \ {s}) \cup {r}
  BY DEF MemoryInv, ArenaTypes, TransferWaited
<1>2. r \in Surface /\ Same(r, s) /\ ~r.used
  BY <1>1 DEF Surface, Same
<1>3. UNCHANGED <<surface_free, retired, created>>
  BY DEF TransferWaited
<1> HIDE DEF r
<1>4. Relabels({s}, {r})
  BY <1>1, <1>2 DEF Relabels
<1> QED BY <1>2, <1>3, <1>4

LEMMA ArenaSteps ==
    ASSUME MemoryInv, [Next]_vars
    PROVE  ArenaKept \/ CollectReclaim \/ Creating \/ Destroying \/ Recording
<1>1. CASE ArenaStep
  <2>1. CASE CreateSurface
    BY <2>1 DEF CreateSurface, Creating
  <2>2. CASE \E s \in surfaces : TransferWaited(s)
    <3>1. PICK s \in surfaces : TransferWaited(s)
      BY <2>2
    <3>2. PICK r \in Surface : Relabels({s}, {r}) /\ UNCHANGED <<surface_free, retired, created>>
      BY <3>1, Waiting
    <3>3. {s} \in SUBSET Surface /\ {r} \in SUBSET Surface
      BY DEF MemoryInv, ArenaTypes
    <3> QED BY <3>2, <3>3 DEF Recording
  <2>3. CASE CollectSkip \/ CollectFails \/ CollectReturn \/ TransferEnd
             \/ \E size \in 0 .. ArenaPages : CollectStart(size)
    BY <2>3 DEF CollectSkip, CollectFails, CollectReturn, TransferEnd, CollectStart, ArenaKept
  <2> QED BY <1>1, <2>1, <2>2, <2>3 DEF ArenaStep, ArenaCall
<1>2. CASE CacheStep
  <2>1. CASE CacheCreated \/ CacheMapFails
    BY <2>1 DEF CacheCreated, CacheMapFails, CreateSurface, CreationEnds, Creating
  <2>2. CASE CloseEnd
    BY <2>2 DEF CloseEnd, Destroying
  <2>3. CASE UploadWaited \/ UploadStore \/ CloseSlot \/ CloseFails \/ CloseStart
             \/ \E key \in Keys : UploadStart(key)
    BY <2>3 DEF UploadWaited, UploadStore, CloseSlot, CloseFails, CloseStart, UploadStart,
       ArenaKept
  <2> QED BY <1>2, <2>1, <2>2, <2>3 DEF CacheStep, CacheCall
<1>3. CASE \E s \in OwnSurfaces : SurfaceStep(s)
  BY <1>3 DEF SurfaceStep, Destroy, TransferStart, OwnSurfaces, Destroying, ArenaKept
<1>4. CASE HostBatchStart \/ UNCHANGED arena
  BY <1>4 DEF HostBatchStart, ArenaKept
<1>5. ASSUME NEW S \in SUBSET OwnSurfaces, HostDraw(S) \/ HostBatch(S)
      PROVE  Recording
  <2>1. /\ MarkUsed(S) /\ UNCHANGED <<surface_free, retired, created>>
        /\ S \in SUBSET surfaces /\ S \in SUBSET Surface
    BY <1>5 DEF HostDraw, Draw, HostBatch, OwnSurfaces, MemoryInv, ArenaTypes
  <2>2. last_fence' \in Fence
    BY LinkTypesStep DEF LinkTypes
  <2>3. PICK N \in SUBSET Surface : Relabels(S, N)
    BY <2>1, <2>2, Marking
  <2> QED BY <2>1, <2>3 DEF Recording
<1>6. CASE PublishStep
  <2>1. CASE \E n \in 1 .. MaxDraws : \E keys \in [1 .. n -> Keys] : HostCacheBatch(keys)
    BY <1>4, <2>1 DEF HostCacheBatch
  <2>2. CASE (\E key \in Keys : HostCacheBlend(key)) \/ \E t \in Table : HostRawBatch(t)
    BY <1>4, <2>2 DEF HostCacheBlend, CacheBlend, HostRawBatch
  <2> QED BY <1>5, <1>6, <2>1, <2>2 DEF PublishStep, HostBatchPush
<1> QED BY <1>1, <1>2, <1>3, <1>4, <1>6, Steps DEF QuietStep, FinishStep

LEMMA CreatingType ==
    ASSUME MemoryInv, Creating
    PROVE  /\ request \in 1 .. ArenaPages /\ created' = created + 1
           /\ created' \in 0 .. MaxSurfaces /\ Fitting(request) # {}
           /\ AllocateExtent(request)
           /\ NewSurface(request) \in Surface
           /\ NewSurface(request).id = created + 1 /\ ~NewSurface(request).used
           /\ NewSurface(request).address = FirstFit(request).address
           /\ NewSurface(request).size = request
           /\ Kept' = Kept \cup {NewSurface(request)}
<1>1. /\ request > 0 /\ Fitting(request) # {} /\ AllocateExtent(request)
      /\ created' = created + 1
  BY DEF Creating, CreationEnds
<1>2. request \in 1 .. ArenaPages
  BY <1>1 DEF MemoryInv, ArenaTypes
<1>3. created + 1 \in SurfaceId /\ created' \in 0 .. MaxSurfaces
  BY <1>1, SurfaceArenaAssumption DEF MemoryInv, ArenaTypes, CollectInv, SurfaceId
<1>4. FirstFit(request).address \in Page
  BY <1>1, <1>2, Fits DEF MemoryInv, ArenaTypes, Extent
<1>5. 0 \in Fence
  BY FenceConstants
<1>6. NewSurface(request) \in Surface
  BY <1>2, <1>3, <1>4, <1>5 DEF NewSurface, Surface
<1>7. Kept' = Kept \cup {NewSurface(request)}
  <2>1. CASE surfaces' = surfaces \cup {NewSurface(request)} /\ retired' = retired
    BY <2>1 DEF Kept, Retired
  <2>2. CASE surfaces' = surfaces /\ retired' = <<NewSurface(request)>> \o retired
    BY <1>6, <2>2, Retiring DEF Kept, MemoryInv
  <2> QED BY <2>1, <2>2 DEF Creating
<1> QED BY <1>1, <1>2, <1>3, <1>6, <1>7 DEF NewSurface

LEMMA DestroyingKeeps ==
    ASSUME MemoryInv, NEW s \in surfaces, Retire(s)
    PROVE  /\ s \in Surface /\ retired' \in Seq(Surface) /\ retired' = <<s>> \o retired
           /\ surfaces' = surfaces \ {s} /\ Retired' = Retired \cup {s} /\ Kept' = Kept
<1>1. s \in Surface
  BY DEF MemoryInv, ArenaTypes
<1>2. retired' \in Seq(Surface) /\ Retired' = Retired \cup {s}
  BY <1>1, Retiring DEF MemoryInv, Retire
<1> QED BY <1>1, <1>2 DEF Retire, Kept

LEMMA RecordingKeeps ==
    ASSUME MemoryInv, NEW S, NEW N, Relabels(S, N), UNCHANGED retired
    PROVE  Kept' = (Kept \ S) \cup N /\ S \cap Retired = {} /\ surfaces' \subseteq Surface
<1>1. S \cap Retired = {}
  BY DEF MemoryInv, NameInv, Relabels, Retired
<1>2. Retired' = Retired
  BY DEF Retired
<1>3. surfaces' \subseteq Surface
  BY DEF Relabels, MemoryInv, ArenaTypes
<1> QED BY <1>1, <1>2, <1>3 DEF Kept, Relabels
-----------------------------------------------------------------------------
(* Every page has one owner.                                               *)

LEMMA PartitionReclaim == ASSUME MemoryInv, CollectReclaim PROVE PartitionInv' /\ surface_free' \subseteq Extent
<1> DEFINE s == retired[cursor]
<1>0. /\ s \in Kept /\ Kept' = Kept \ {s} /\ InsertExtent(s.address, s.size)
      /\ ArenaTypes /\ PartitionInv
  BY Reclaiming DEF CollectReclaim, MemoryInv
<1> HIDE DEF s
<1>1. PICK M \in SUBSET surface_free, n \in Extent :
         /\ surface_free' = (surface_free \ M) \cup {n}
         /\ \A page \in Nat :
              page \in Pages(n) <=> \E e \in M \cup {s} : page \in Pages(e)
         /\ n.address + n.size <= ArenaPages
         /\ \A f \in surface_free \ M : /\ n.address + n.size # f.address
                                        /\ f.address + f.size # n.address
  BY <1>0, Inserting
<1>2. Partitions(((surface_free \cup Kept) \ (M \cup {s})) \cup {n})
  <2>1. M \cup {s} \subseteq surface_free \cup Kept
    BY <1>0
  <2>2. \A page \in Page :
          (\E e \in M \cup {s} : page \in Pages(e)) <=> (\E e \in {n} : page \in Pages(e))
    BY <1>1 DEF Page
  <2> QED BY <1>0, <1>1, <2>1, <2>2, ReplacePartition DEF PartitionInv
<1>3. ((surface_free \cup Kept) \ (M \cup {s})) \cup {n} = (surface_free \cup Kept)'
  BY <1>0, <1>1, ExtentsAndSurfaces
<1>4. n.size > 0 /\ n.size \in Nat /\ n.address \in Nat
  BY <1>0, ExtentsAndSurfaces DEF Extent, Page
<1>5. \A e, f \in surface_free' : e.address + e.size # f.address
  <2> SUFFICES ASSUME NEW e \in surface_free', NEW f \in surface_free'
               PROVE  e.address + e.size # f.address
    OBVIOUS
  <2>1. CASE e = n /\ f = n
    BY <1>4, <2>1
  <2>2. CASE e # n /\ f # n
    BY <1>0, <1>1, <2>2 DEF PartitionInv
  <2>3. CASE (e = n /\ f # n) \/ (e # n /\ f = n)
    BY <1>1, <2>3
  <2> QED BY <2>1, <2>2, <2>3
<1>6. surface_free' \subseteq Extent
  BY <1>0, <1>1, ExtentsAndSurfaces
<1>7. Partitions((surface_free \cup Kept)')
  BY <1>2, <1>3
<1> QED BY <1>5, <1>6, <1>7 DEF PartitionInv, Partitions

LEMMA PartitionCreate ==
    ASSUME MemoryInv, Creating PROVE PartitionInv' /\ surface_free' \subseteq Extent
<1> DEFINE s == NewSurface(request)
<1>0. /\ request \in 1 .. ArenaPages /\ Fitting(request) # {} /\ AllocateExtent(request)
      /\ s.address = FirstFit(request).address /\ s.size = request
      /\ s \in Surface /\ Kept' = Kept \cup {s} /\ ArenaTypes /\ PartitionInv
  BY CreatingType DEF MemoryInv
<1> HIDE DEF s
<1>1. PICK e \in surface_free, N \in SUBSET Extent :
         /\ surface_free' = (surface_free \ {e}) \cup N
         /\ \A page \in Nat :
              page \in Pages(e) <=> \E f \in N \cup {s} : page \in Pages(f)
         /\ \A page \in Nat : \A f, g \in N \cup {s} :
              page \in Pages(f) /\ page \in Pages(g) => f = g
         /\ s.address = e.address /\ s.address + request <= ArenaPages
         /\ \A f \in N : f.address + f.size = e.address + e.size
                         /\ f.address = e.address + request /\ f.address \in Pages(e)
  BY <1>0, Allocating
<1>2. Partitions(((surface_free \cup Kept) \ {e}) \cup (N \cup {s}))
  <2>1. {e} \subseteq surface_free \cup Kept
    OBVIOUS
  <2>2. \A page \in Page :
          (\E f \in {e} : page \in Pages(f)) <=> (\E f \in N \cup {s} : page \in Pages(f))
    BY <1>1 DEF Page
  <2>3. \A page \in Page : \A f, g \in N \cup {s} :
          page \in Pages(f) /\ page \in Pages(g) => f = g
    BY <1>1 DEF Page
  <2>4. e.address + e.size <= ArenaPages
    BY <1>0 DEF PartitionInv, Partitions
  <2>5. \A f \in N \cup {s} : f.address + f.size <= ArenaPages
    BY <1>0, <1>1, <2>4
  <2> HIDE DEF Partitions
  <2> QED BY <1>0, <2>1, <2>2, <2>3, <2>5, ReplacePartition DEF PartitionInv
<1>3. ((surface_free \cup Kept) \ {e}) \cup (N \cup {s}) = (surface_free \cup Kept)'
  BY <1>0, <1>1, ExtentsAndSurfaces
<1>4. /\ e.address \in Nat /\ e.size \in Nat /\ e.size > 0 /\ request \in Nat /\ request > 0
      /\ \A f \in surface_free : f.address \in Nat /\ f.size \in Nat /\ f.size > 0
  BY <1>0, ExtentsAndSurfaces
<1>5. \A d, f \in surface_free' : d.address + d.size # f.address
  <2> SUFFICES ASSUME NEW d \in surface_free', NEW f \in surface_free',
                      d.address + d.size = f.address
               PROVE  FALSE
    OBVIOUS
  <2>1. CASE d \in N /\ f \in N
    BY <1>1, <1>4, <2>1 DEF Pages
  <2>2. CASE d \in N /\ f \notin N
    <3>1. f \in surface_free /\ e.address + e.size = f.address
      BY <1>1, <2>2
    <3> QED BY <1>0, <3>1 DEF PartitionInv
  <2>3. CASE d \notin N /\ f \in N
    <3>1. d \in surface_free /\ d # e /\ d.address + d.size = e.address + request
      BY <1>1, <2>3
    <3>2. f.address \in Pages(e) /\ f.address = e.address + request
      BY <1>1, <2>3
    <3>3. e.address + request - 1 \in Pages(e) /\ e.address + request - 1 \in Nat
      BY <1>4, <3>2 DEF Pages
    <3>4. e.address + request - 1 \in Pages(d)
      BY <1>4, <3>1 DEF Pages
    <3>5. d = e
      BY <1>0, <3>1, <3>3, <3>4, OwnersMeet DEF PartitionInv
    <3> QED BY <3>1, <3>5
  <2>4. CASE d \notin N /\ f \notin N
    BY <1>0, <1>1, <2>4 DEF PartitionInv
  <2> QED BY <2>1, <2>2, <2>3, <2>4
<1>6. surface_free' \subseteq Extent
  BY <1>0, <1>1, ExtentsAndSurfaces
<1>7. Partitions((surface_free \cup Kept)')
  BY <1>2, <1>3
<1> QED BY <1>5, <1>6, <1>7 DEF PartitionInv, Partitions

LEMMA PartitionRecord == ASSUME MemoryInv, Recording PROVE PartitionInv'
<1>0. UNCHANGED <<surface_free, retired>> /\ ArenaTypes /\ PartitionInv
  BY DEF Recording, MemoryInv
<1>1. PICK S, N \in SUBSET Surface : Relabels(S, N)
  BY DEF Recording
<1>2. /\ Kept' = (Kept \ S) \cup N /\ S \subseteq Kept /\ UNCHANGED surface_free
      /\ ArenaTypes /\ PartitionInv
  <2>1. Kept' = (Kept \ S) \cup N
    BY <1>0, <1>1, RecordingKeeps
  <2> QED BY <1>0, <1>1, <2>1 DEF Relabels, Kept
<1>3. \A r, s : Same(r, s) => Pages(r) = Pages(s)
  BY DEF Same, Pages
<1>4. Partitions(((surface_free \cup Kept) \ S) \cup N)
  <2>1. \A page \in Page :
          (\E e \in S : page \in Pages(e)) <=> (\E e \in N : page \in Pages(e))
    BY <1>1, <1>3 DEF Relabels
  <2>2. \A e \in N : e.address + e.size <= ArenaPages
    BY <1>1, <1>2 DEF Relabels, Same, PartitionInv, Partitions
  <2>3. ASSUME NEW page \in Page, NEW q \in N, NEW r \in N,
               page \in Pages(q), page \in Pages(r)
        PROVE  q = r
    <3>1. PICK s \in S : Same(q, s)
      BY <1>1 DEF Relabels
    <3>2. PICK t \in S : Same(r, t)
      BY <1>1 DEF Relabels
    <3>3. s = t
      <4>1. page \in Pages(s) /\ page \in Pages(t) /\ page \in Nat
        BY <1>3, <2>3, <3>1, <3>2 DEF Page
      <4> QED BY <1>2, <4>1, OwnersMeet DEF PartitionInv
    <3> QED BY <1>1, <3>1, <3>2, <3>3 DEF Relabels, Same
  <2>4. S \subseteq surface_free \cup Kept
    BY <1>2
  <2> HIDE DEF Partitions
  <2> QED BY <1>2, <2>1, <2>2, <2>3, <2>4, ReplacePartition DEF PartitionInv
<1>5. ((surface_free \cup Kept) \ S) \cup N = (surface_free \cup Kept)'
  BY <1>2, ExtentsAndSurfaces
<1>6. Partitions((surface_free \cup Kept)')
  BY <1>4, <1>5
<1> QED BY <1>2, <1>6 DEF PartitionInv, Partitions

LEMMA PartitionStep == ASSUME MemoryInv, [Next]_vars PROVE PartitionInv'
<1>1. CASE ArenaKept
  BY <1>1 DEF ArenaKept, MemoryInv, PartitionInv, Partitions, Kept, Retired
<1>2. CASE Destroying
  <2>1. Kept' = Kept /\ UNCHANGED surface_free
    BY <1>2, DestroyingKeeps DEF Destroying
  <2> QED BY <2>1 DEF MemoryInv, PartitionInv, Partitions
<1> QED BY <1>1, <1>2, ArenaSteps, PartitionReclaim, PartitionCreate, PartitionRecord
LEMMA ArenaTypesStep == ASSUME MemoryInv, [Next]_vars PROVE ArenaTypes'
<1>0. ArenaTypes
  BY DEF MemoryInv
<1>1. /\ surface_free' \subseteq Extent /\ surfaces' \subseteq Surface
      /\ retired' \in Seq(Surface) /\ created' \in 0 .. MaxSurfaces
  <2>1. CASE ArenaKept
    BY <1>0, <2>1 DEF ArenaKept, ArenaTypes
  <2>2. CASE CollectReclaim
    <3>1. UNCHANGED <<surfaces, created>>
      BY <2>2 DEF CollectReclaim
    <3> QED BY <1>0, <2>2, <3>1, PartitionReclaim, Reclaiming DEF ArenaTypes
  <2>3. CASE Creating
    <3>1. NewSurface(request) \in Surface /\ created' \in 0 .. MaxSurfaces
      BY <2>3, CreatingType
    <3>2. CASE retired' = <<NewSurface(request)>> \o retired
      <4>1. retired' \in Seq(Surface)
        BY <1>0, <3>1, <3>2, Retiring
      <4> QED BY <1>0, <2>3, <3>1, <4>1, PartitionCreate DEF ArenaTypes, Creating
    <3>3. CASE retired' = retired
      BY <1>0, <2>3, <3>1, <3>3, PartitionCreate DEF ArenaTypes, Creating
    <3> QED BY <2>3, <3>2, <3>3 DEF Creating
  <2>4. CASE Destroying
    <3>1. PICK s \in surfaces : Retire(s)
      BY <2>4 DEF Destroying
    <3>2. retired' \in Seq(Surface) /\ surfaces' = surfaces \ {s}
      BY <3>1, DestroyingKeeps
    <3> QED BY <1>0, <2>4, <3>2 DEF Destroying, ArenaTypes
  <2>5. CASE Recording
    <3>1. UNCHANGED <<surface_free, retired, created>>
      BY <2>5 DEF Recording
    <3>2. PICK S, N \in SUBSET Surface : Relabels(S, N)
      BY <2>5 DEF Recording
    <3>3. surfaces' \subseteq Surface
      BY <3>1, <3>2, RecordingKeeps
    <3> QED BY <1>0, <3>1, <3>3 DEF ArenaTypes
  <2> QED BY <2>1, <2>2, <2>3, <2>4, <2>5, ArenaSteps
<1>2. cursor' \in Nat /\ request' \in 0 .. ArenaPages /\ accessed' \in 0 .. MaxSurfaces
  <2>1. CASE UNCHANGED <<cursor, request, accessed>>
    BY <1>0, <2>1 DEF ArenaTypes
  <2>2. CASE ArenaStep
    <3>1. CASE \E size \in 0 .. ArenaPages : CollectStart(size)
      BY <1>0, <3>1 DEF CollectStart, ArenaTypes
    <3>2. CASE CollectReclaim \/ CollectSkip
      <4>1. cursor' \in {cursor, cursor + 1} /\ UNCHANGED <<request, accessed>>
        BY <3>2 DEF CollectReclaim, CollectSkip
      <4> QED BY <1>0, <4>1 DEF ArenaTypes
    <3>3. CASE CollectFails \/ CollectReturn \/ CreateSurface
      BY <1>0, <3>3, SurfaceArenaAssumption
         DEF CollectFails, CollectReturn, CreateSurface, CreationEnds, ArenaTypes
    <3>4. CASE TransferEnd
      BY <1>0, <3>4, SurfaceArenaAssumption DEF TransferEnd, ArenaTypes
    <3>5. CASE \E s \in surfaces : TransferWaited(s)
      BY <1>0, <3>5 DEF TransferWaited, ArenaTypes
    <3> QED BY <2>2, <3>1, <3>2, <3>3, <3>4, <3>5 DEF ArenaStep, ArenaCall
  <2>3. CASE CacheStep
    <3>1. CASE CacheCreated \/ CacheMapFails
      BY <1>0, <3>1, SurfaceArenaAssumption
         DEF CacheCreated, CacheMapFails, CreateSurface, CreationEnds, ArenaTypes
    <3>2. CASE UploadWaited \/ UploadStore \/ CloseSlot \/ CloseEnd \/ CloseFails
               \/ CloseStart \/ \E key \in Keys : UploadStart(key)
      BY <2>1, <3>2 DEF UploadWaited, UploadStore, CloseSlot, CloseEnd, CloseFails,
         CloseStart, UploadStart
    <3> QED BY <2>3, <3>1, <3>2 DEF CacheStep, CacheCall
  <2>4. CASE \E s \in OwnSurfaces : SurfaceStep(s)
    <3>1. PICK s \in OwnSurfaces : SurfaceStep(s)
      BY <2>4
    <3>2. CASE Destroy(s)
      BY <2>1, <3>2 DEF Destroy
    <3>3. CASE TransferStart(s)
      <4>1. s.id \in 0 .. MaxSurfaces
        BY <1>0, SurfaceArenaAssumption DEF OwnSurfaces, ArenaTypes, Surface, SurfaceId
      <4> QED BY <1>0, <3>3, <4>1 DEF TransferStart, ArenaTypes
    <3> QED BY <3>1, <3>2, <3>3 DEF SurfaceStep
  <2>5. CASE PublishStep
    <3>1. UNCHANGED <<cursor, request, accessed>>
      BY <2>5 DEF PublishStep, HostBatchPush, HostBatch, HostCacheBatch, HostDraw, Draw,
         HostCacheBlend, CacheBlend, HostRawBatch
    <3> QED BY <2>1, <3>1
  <2> QED BY <2>1, <2>2, <2>3, <2>4, <2>5, Steps DEF QuietStep, FinishStep, HostBatchStart
<1> QED BY <1>1, <1>2 DEF ArenaTypes

LEMMA NameStep == ASSUME MemoryInv, [Next]_vars PROVE NameInv'
<1>0. /\ NameInv /\ created \in Nat /\ Len(retired) \in Nat
      /\ \A s \in Kept : s.id \in Nat
      /\ \A i \in 1 .. Len(retired) : retired[i] \in Kept
  BY ExtentsAndSurfaces, SurfaceArenaAssumption
     DEF MemoryInv, ArenaTypes, Surface, SurfaceId
<1>1. CASE ArenaKept
  BY <1>0, <1>1 DEF ArenaKept, NameInv, Kept, Retired
<1>2. CASE CollectReclaim
  <2>1. /\ Kept' = Kept \ {retired[cursor]} /\ surfaces' = surfaces /\ created' = created
        /\ cursor \in 1 .. Len(retired) /\ Len(retired') = Len(retired) - 1
    BY <1>2, Reclaiming DEF CollectReclaim
  <2>2. \A i \in 1 .. Len(retired') :
          retired'[i] = retired[IF i < cursor THEN i ELSE i + 1]
          /\ (IF i < cursor THEN i ELSE i + 1) \in 1 .. Len(retired)
    BY <1>0, <1>2, <2>1, Reclaiming
  <2>3. \A i, j \in 1 .. Len(retired') : retired'[i] = retired'[j] => i = j
    <3> SUFFICES ASSUME NEW i \in 1 .. Len(retired'), NEW j \in 1 .. Len(retired'),
                        retired'[i] = retired'[j]
                 PROVE  i = j
      OBVIOUS
    <3>1. (IF i < cursor THEN i ELSE i + 1) = (IF j < cursor THEN j ELSE j + 1)
      BY <1>0, <2>2 DEF NameInv
    <3> QED BY <1>0, <2>1, <3>1
  <2>4. \A i \in 1 .. Len(retired') : retired'[i] \notin surfaces'
    BY <1>0, <2>1, <2>2 DEF NameInv
  <2> QED BY <1>0, <2>1, <2>3, <2>4 DEF NameInv
<1>3. CASE Creating
  <2> DEFINE n == NewSurface(request)
  <2>1. /\ n \in Surface /\ n.id = created + 1 /\ Kept' = Kept \cup {n}
        /\ created' = created + 1
    BY <1>3, CreatingType
  <2> HIDE DEF n
  <2>2. \A s \in Kept : s.id <= created /\ s # n
    BY <1>0, <2>1 DEF NameInv
  <2>3. \A s \in Kept' : s.id <= created'
    BY <1>0, <2>1, <2>2
  <2>4. \A r, s \in Kept' : r.id = s.id => r = s
    BY <1>0, <2>1, <2>2 DEF NameInv
  <2>5. n \notin surfaces /\ \A i \in 1 .. Len(retired) : retired[i] # n
    BY <1>0, <2>2 DEF Kept
  <2>6. CASE surfaces' = surfaces \cup {n} /\ retired' = retired
    BY <1>0, <2>3, <2>4, <2>5, <2>6 DEF NameInv
  <2>7. CASE surfaces' = surfaces /\ retired' = <<n>> \o retired
    <3>1. /\ Len(retired') = Len(retired) + 1 /\ retired'[1] = n
          /\ \A i \in 2 .. Len(retired) + 1 :
                i - 1 \in 1 .. Len(retired) /\ retired'[i] = retired[i - 1]
      BY <2>1, <2>7, Retiring DEF MemoryInv
    <3>2. \A i \in 1 .. Len(retired') : i = 1 \/ i \in 2 .. Len(retired) + 1
      BY <1>0, <3>1
    <3>3. \A i \in 1 .. Len(retired') : retired'[i] \notin surfaces'
      BY <1>0, <2>5, <2>7, <3>1, <3>2 DEF NameInv
    <3>4. \A i, j \in 1 .. Len(retired') : retired'[i] = retired'[j] => i = j
      <4> SUFFICES ASSUME NEW i \in 1 .. Len(retired'), NEW j \in 1 .. Len(retired'),
                          retired'[i] = retired'[j]
                   PROVE  i = j
        OBVIOUS
      <4>1. CASE i \in 2 .. Len(retired) + 1 /\ j \in 2 .. Len(retired) + 1
        <5>1. i - 1 = j - 1
          BY <1>0, <3>1, <4>1 DEF NameInv
        <5> QED BY <1>0, <4>1, <5>1
      <4> QED BY <2>5, <3>1, <3>2, <4>1
    <3> QED BY <2>3, <2>4, <3>3, <3>4 DEF NameInv
  <2> QED BY <1>3, <2>6, <2>7 DEF Creating, n
<1>4. CASE Destroying
  <2>1. PICK n \in surfaces : Retire(n)
    BY <1>4 DEF Destroying
  <2>2. /\ Kept' = Kept /\ surfaces' = surfaces \ {n} /\ n \in Surface
        /\ retired' = <<n>> \o retired /\ created' = created
    BY <1>4, <2>1, DestroyingKeeps DEF Destroying
  <2>3. /\ Len(retired') = Len(retired) + 1 /\ retired'[1] = n
        /\ \A i \in 2 .. Len(retired) + 1 :
              i - 1 \in 1 .. Len(retired) /\ retired'[i] = retired[i - 1]
    BY <2>2, Retiring DEF MemoryInv
  <2>4. \A i \in 1 .. Len(retired) : retired[i] # n
    BY <1>0 DEF NameInv
  <2>5. \A i \in 1 .. Len(retired') : i = 1 \/ i \in 2 .. Len(retired) + 1
    BY <1>0, <2>3
  <2>6. \A i \in 1 .. Len(retired') : retired'[i] \notin surfaces'
    BY <1>0, <2>2, <2>3, <2>5 DEF NameInv
  <2>7. \A i, j \in 1 .. Len(retired') : retired'[i] = retired'[j] => i = j
    <3> SUFFICES ASSUME NEW i \in 1 .. Len(retired'), NEW j \in 1 .. Len(retired'),
                        retired'[i] = retired'[j]
                 PROVE  i = j
      OBVIOUS
    <3>1. CASE i \in 2 .. Len(retired) + 1 /\ j \in 2 .. Len(retired) + 1
      <4>1. i - 1 = j - 1
        BY <1>0, <2>3, <3>1 DEF NameInv
      <4> QED BY <1>0, <3>1, <4>1
    <3> QED BY <2>3, <2>4, <2>5, <3>1
  <2> QED BY <1>0, <2>2, <2>6, <2>7 DEF NameInv
<1>5. CASE Recording
  <2>0. UNCHANGED <<retired, created>>
    BY <1>5 DEF Recording
  <2>1. PICK S, N \in SUBSET Surface : Relabels(S, N)
    BY <1>5 DEF Recording
  <2>2. /\ Kept' = (Kept \ S) \cup N /\ S \cap Retired = {} /\ S \subseteq Kept
        /\ surfaces' = (surfaces \ S) \cup N
    BY ZenonT(40), <2>0, <2>1, RecordingKeeps DEF Relabels, Kept
  <2>3. \A r \in N : \E s \in S : r.id = s.id
    BY <2>1 DEF Relabels, Same
  <2>4. \A s \in Kept' : s.id <= created
    BY <1>0, <2>2, <2>3 DEF NameInv
  <2>5. \A r \in N, s \in Kept \ S : r.id # s.id
    BY <1>0, <2>2, <2>3 DEF NameInv
  <2>6. \A r, s \in Kept' : r.id = s.id => r = s
    BY <1>0, <2>1, <2>2, <2>5 DEF NameInv, Relabels
  <2>7. ASSUME NEW i \in 1 .. Len(retired) PROVE retired[i] \notin surfaces'
    <3>1. retired[i] \in Kept \ S /\ retired[i] \notin surfaces
      BY <1>0, <2>2 DEF NameInv, Retired
    <3> QED BY <2>2, <2>5, <3>1
  <2> QED BY <1>0, <2>0, <2>4, <2>6, <2>7 DEF NameInv
<1> QED BY <1>1, <1>2, <1>3, <1>4, <1>5, ArenaSteps

LEMMA CollectStep == ASSUME MemoryInv, [Next]_vars PROVE CollectInv'
<1>0. CollectInv /\ Len(retired) \in Nat /\ ArenaTypes
  BY ExtentsAndSurfaces DEF MemoryInv
<1>1. CASE \E size \in 0 .. ArenaPages : CollectStart(size)
  BY <1>0, <1>1 DEF CollectStart, CollectInv
<1>2. CASE CollectReclaim
  <2>1. /\ cursor \in 1 .. Len(retired) /\ Len(retired') = Len(retired) - 1
        /\ host_pc = "collect" /\ UNCHANGED <<host_pc, cursor, request, created>>
    BY <1>2, Reclaiming DEF CollectReclaim, Collecting
  <2> QED BY <1>0, <2>1 DEF CollectInv
<1>3. CASE CollectSkip
  BY <1>0, <1>3 DEF CollectSkip, Collecting, CollectInv
<1>4. CASE CollectFails \/ CollectReturn \/ CreateSurface \/ CacheMapFails
  BY <1>4, SurfaceArenaAssumption DEF CollectFails, CollectReturn, CreateSurface, CacheMapFails, CreationEnds,
     CollectInv
<1>5. CASE /\ UNCHANGED <<cursor, request, created>>
           /\ host_pc # "collect" /\ host_pc' # "collect"
  BY <1>0, <1>5 DEF CollectInv
<1>6. CASE UNCHANGED <<host_pc, cursor, request, created, retired>>
  BY <1>0, <1>6 DEF CollectInv
<1>7. CASE TransferEnd \/ \E s \in surfaces : TransferWaited(s)
  BY <1>5, <1>7 DEF TransferEnd, TransferWaited
<1>8. CASE UploadWaited \/ UploadStore \/ CloseSlot \/ CloseEnd \/ CloseFails
           \/ CloseStart \/ \E key \in Keys : UploadStart(key)
  BY <1>5, <1>8 DEF UploadWaited, UploadStore, CloseSlot, Closing, CloseEnd, CloseFails,
     CloseStart, UploadStart
<1>9. CASE \E s \in OwnSurfaces : SurfaceStep(s)
  BY <1>5, <1>9 DEF SurfaceStep, Destroy, TransferStart
<1>10. CASE PoolStep /\ UNCHANGED arena
  BY <1>5, <1>6, <1>10 DEF PoolStep, PoolCall, FindTaken, FindBusy, FindFails, BatchUpload,
     BatchAbandoned, RawUpload, RawBatchRefused
<1>11. CASE \/ HostBatchStart \/ FinishStep \/ UNCHANGED vars
            \/ HostConfirm /\ UNCHANGED arena
  BY <1>5, <1>6, <1>11 DEF HostBatchStart, BatchStart, HostConfirm, FinishStep, Finish
<1>12. CASE PublishStep
  BY <1>5, <1>12 DEF PublishStep, HostBatchPush, HostBatch, HostCacheBatch, BatchPush,
     HostDraw, Draw, HostCacheBlend, CacheBlend, HostRawBatch, RawBatch
<1> QED BY <1>1, <1>2, <1>3, <1>4, <1>7, <1>8, <1>9, <1>10, <1>11, <1>12, Steps
      DEF QuietStep, ArenaStep, ArenaCall, CacheStep, CacheCall, CacheCreated
-----------------------------------------------------------------------------
(* The texture cache.                                                      *)

LEMMA MaxType ==
    ASSUME NEW T, T \subseteq Nat, T # {}, NEW bound \in Nat, \A n \in T : n <= bound
    PROVE  Max(T) \in T /\ \A n \in T : n <= Max(T)
<1>1. PICK m \in T : \A n \in T : n <= m
  BY GreatestNat
<1>2. \A n \in T : m >= n
  BY <1>1
<1> QED BY <1>1, <1>2 DEF Max

LEMMA NewestType ==
    ASSUME CacheTypes, Keys # {}
    PROVE  Newest \in Nat
<1>1. MaxUploads \in Nat /\ latest \in [Keys -> 0 .. MaxUploads]
  BY TextureCacheAssumption DEF CacheTypes
<1>2. Range(latest) \subseteq 0 .. MaxUploads /\ Range(latest) # {}
  BY <1>1 DEF Range
<1>3. /\ Range(latest) \subseteq Nat /\ Range(latest) # {}
      /\ \A n \in Range(latest) : n <= MaxUploads
  BY <1>1, <1>2
<1>4. Max(Range(latest)) \in Range(latest)
  BY <1>1, <1>3, MaxType
<1> QED BY <1>3, <1>4 DEF Newest

LEMMA SlotType ==
    ASSUME CacheTypes, NEW s \in Slot
    PROVE  /\ slots[s].last_fence \in Fence /\ slots[s].age \in Nat
           /\ slots[s].used \in BOOLEAN /\ slots[s].valid \in BOOLEAN
           /\ slots[s].key \in Keys \cup {0}
BY DEF CacheTypes

\* choose_slot finds one: the oldest, if it is in use.
LEMMA ChooseSlotType ==
    ASSUME CacheTypes, CacheSlots > 0
    PROVE  /\ ChooseSlot \in Slot
           /\ slots[ChooseSlot].valid =>
                \A r \in Slot : slots[r].valid /\ slots[ChooseSlot].age <= slots[r].age
<1>0. Slot \subseteq Nat /\ Slot # {}
  BY TextureCacheAssumption DEF Slot
<1> DEFINE invalid == {s \in Slot : ~slots[s].valid}
<1>1. CASE invalid # {}
  <2>1. \E s \in invalid : \A r \in invalid : s <= r
    BY <1>0, <1>1, LeastNat
  <2>2. ChooseSlot = CHOOSE s \in invalid : \A r \in invalid : s <= r
    BY <1>1 DEF ChooseSlot
  <2>3. ChooseSlot \in invalid
    <3> HIDE DEF invalid
    <3> QED BY <2>1, <2>2
  <2> QED BY <2>3
<1>2. CASE invalid = {}
  <2> DEFINE ages == {slots[s].age : s \in Slot}
  <2>0. \A s \in Slot : slots[s].age \in Nat
    BY SlotType
  <2>1. ages \subseteq Nat /\ ages # {}
    BY <1>0, <2>0
  <2>2. PICK a \in ages : \A b \in ages : a <= b
    BY <2>1, LeastNat
  <2> DEFINE oldest == {s \in Slot : slots[s].age = a}
  <2>3. oldest \subseteq Nat /\ oldest # {}
    BY <1>0, <2>2
  <2>4. PICK s \in oldest : \A r \in oldest : s <= r
    BY <2>3, LeastNat
  <2>5. \A r \in Slot : \/ slots[s].age < slots[r].age
                        \/ slots[s].age = slots[r].age /\ s <= r
    <3> SUFFICES ASSUME NEW r \in Slot
                 PROVE  \/ slots[s].age < slots[r].age
                        \/ slots[s].age = slots[r].age /\ s <= r
      OBVIOUS
    <3>1. slots[r].age \in Nat /\ slots[s].age = a /\ a \in Nat
      BY <2>1, <2>2
    <3>2. a <= slots[r].age
      BY <2>2
    <3>3. slots[r].age = a => s <= r
      BY <2>4
    <3> QED BY <3>1, <3>2, <3>3
  <2>6. s \in Slot
    OBVIOUS
  <2>7. ChooseSlot = CHOOSE t \in Slot : \A r \in Slot :
            \/ slots[t].age < slots[r].age
            \/ slots[t].age = slots[r].age /\ t <= r
    BY <1>2 DEF ChooseSlot
  <2> HIDE DEF oldest, ages
  <2>8. /\ ChooseSlot \in Slot
        /\ \A r \in Slot : \/ slots[ChooseSlot].age < slots[r].age
                           \/ slots[ChooseSlot].age = slots[r].age /\ ChooseSlot <= r
    BY <2>5, <2>6, <2>7
  <2>9. \A r \in Slot : slots[r].valid /\ slots[r].age \in Nat
    BY <1>2, SlotType
  <2>10. \A r \in Slot : slots[ChooseSlot].age <= slots[r].age
    BY <2>8, <2>9
  <2> QED BY <2>8, <2>9, <2>10
<1> QED BY <1>1, <1>2

\* A draw of cached keys gives the cells it reads its fence and ages them.
LEMMA Touching ==
    ASSUME CacheTypes, CellInv, NEW n \in Nat, NEW keys \in [1 .. n -> Keys],
           Drawable(keys), Touch(keys), last_fence' \in Fence
    PROVE  /\ slots' \in [Slot -> [key : Keys \cup {0}, age : Nat, last_fence : Fence,
                                   valid : BOOLEAN, used : BOOLEAN]]
           /\ cache_age' \in Nat /\ cache_age' = cache_age + n
           /\ \A s \in Slot :
                /\ \A m \in 1 .. n :
                     /\ FindKey(keys[m]) = s
                     /\ \A i \in 1 .. n : FindKey(keys[i]) = s => i <= m
                     => slots'[s].age = cache_age + m
                /\ slots'[s].key = slots[s].key /\ slots'[s].valid = slots[s].valid
                /\ (\E i \in 1 .. n : FindKey(keys[i]) = s) =>
                     slots'[s].used /\ slots'[s].last_fence = last_fence'
                /\ (\A i \in 1 .. n : FindKey(keys[i]) # s) => slots'[s] = slots[s]
<1>0. DOMAIN keys = 1 .. n /\ Len(keys) = n /\ cache_age \in Nat
  BY DEF CacheTypes
<1> DEFINE uses(s) == {i \in DOMAIN keys : FindKey(keys[i]) = s}
           touched(s) == [slots[s] EXCEPT !.last_fence = last_fence', !.used = TRUE,
                                          !.age = cache_age + Max(uses(s))]
<1>1. /\ slots' = [s \in Slot |-> IF uses(s) = {} THEN slots[s] ELSE touched(s)]
      /\ cache_age' = cache_age + Len(keys)
  BY DEF Touch
<1>2. ASSUME NEW s \in Slot, uses(s) # {}
      PROVE  /\ touched(s) \in [key : Keys \cup {0}, age : Nat, last_fence : Fence,
                                valid : BOOLEAN, used : BOOLEAN]
             /\ touched(s).key = slots[s].key /\ touched(s).valid = slots[s].valid
             /\ touched(s).used /\ touched(s).last_fence = last_fence'
  <2>1. Max(uses(s)) \in Nat
    <3>1. uses(s) \subseteq Nat /\ \A i \in uses(s) : i <= n
      BY <1>0
    <3> HIDE DEF uses
    <3> QED BY <1>2, <3>1, MaxType
  <2> HIDE DEF uses
  <2>2. cache_age + Max(uses(s)) \in Nat
    BY <1>0, <2>1
  <2>3. slots[s] \in [key : Keys \cup {0}, age : Nat, last_fence : Fence,
                      valid : BOOLEAN, used : BOOLEAN]
    BY DEF CacheTypes
  <2> QED BY <2>2, <2>3
<1>3. \A s \in Slot : slots[s] \in [key : Keys \cup {0}, age : Nat, last_fence : Fence,
                                    valid : BOOLEAN, used : BOOLEAN]
  BY DEF CacheTypes
<1>4. \A s \in Slot : uses(s) = {} <=> \A i \in 1 .. n : FindKey(keys[i]) # s
  BY <1>0
<1>6. ASSUME NEW s \in Slot, NEW m \in 1 .. n, FindKey(keys[m]) = s,
             \A i \in 1 .. n : FindKey(keys[i]) = s => i <= m
      PROVE  slots'[s].age = cache_age + m
  <2>1. m \in uses(s) /\ uses(s) \subseteq Nat /\ \A i \in uses(s) : i <= m
    BY <1>0, <1>6
  <2>2. touched(s).age = cache_age + Max(uses(s))
    BY <1>3 DEF CacheTypes
  <2> HIDE DEF uses, touched
  <2>3. Max(uses(s)) = m
    <3>1. Max(uses(s)) \in uses(s) /\ m <= Max(uses(s))
      BY <2>1, MaxType
    <3> QED BY <2>1, <3>1
  <2> QED BY <1>1, <2>1, <2>2, <2>3
<1> HIDE DEF uses, touched
<1>5. cache_age' \in Nat /\ cache_age' = cache_age + n
  BY <1>0, <1>1
<1> QED BY <1>1, <1>2, <1>3, <1>4, <1>5, <1>6
\* The steps, by what they do to the cells.
CellsKept == UNCHANGED <<atlas, slots, cell, latest, cache_age, older>>

CellsCleared ==
    /\ slots' = [s \in Slot |-> EmptySlot] /\ cache_age' = 0
    /\ cell' = [s \in Slot |-> 0] /\ latest' = [k \in Keys |-> 0] /\ older' = {}

CellsDrawn ==
    /\ UNCHANGED <<atlas, cell, latest, target>>
    /\ \/ \E n \in 1 .. MaxDraws : \E keys \in [1 .. n -> Keys] : HostCacheBatch(keys)
       \/ \E key \in Keys : HostCacheBlend(key)

LEMMA CacheSteps ==
    ASSUME [Next]_vars
    PROVE  \/ CellsKept
           \/ (CacheCreated \/ CloseEnd) /\ CellsCleared /\ UNCHANGED pool
           \/ (UploadStore \/ CloseSlot) /\ UNCHANGED pool
           \/ CellsDrawn
<1>1. CASE CacheStep /\ UNCHANGED pool
  <2>1. CASE CacheCreated \/ CloseEnd
    BY <1>1, <2>1 DEF CacheCreated, CloseEnd, CellsCleared
  <2>2. CASE CacheMapFails \/ UploadWaited \/ CloseFails \/ CloseStart
             \/ \E key \in Keys : UploadStart(key)
    BY <2>2 DEF CacheMapFails, UploadWaited, CloseFails, CloseStart, UploadStart, CellsKept
  <2> QED BY <1>1, <2>1, <2>2 DEF CacheStep, CacheCall
<1>2. CASE UNCHANGED cache
  BY <1>2 DEF CellsKept
<1>3. CASE PublishStep
  <2>1. CASE \E n \in 1 .. MaxDraws : \E keys \in [1 .. n -> Keys] : HostCacheBatch(keys)
    BY <2>1 DEF HostCacheBatch, CellsDrawn
  <2>2. CASE \E key \in Keys : HostCacheBlend(key)
    BY <2>2 DEF HostCacheBlend, CacheBlend, CellsDrawn
  <2>3. CASE \/ \E S \in SUBSET OwnSurfaces : HostDraw(S) \/ HostBatch(S)
             \/ \E t \in Table : HostRawBatch(t)
    BY <1>2, <2>3 DEF HostDraw, HostBatch, HostRawBatch
  <2> QED BY <1>3, <2>1, <2>2, <2>3 DEF PublishStep, HostBatchPush
<1> QED BY <1>1, <1>2, <1>3, Steps DEF QuietStep, FinishStep, HostBatchStart

LEMMA DrawnCells ==
    ASSUME MemoryInv, CellsDrawn
    PROVE  \E n \in Nat, c \in Commands : \E keys \in [1 .. n -> Keys] :
             /\ n > 0 /\ Drawable(keys) /\ Touch(keys) /\ Publish(c)
             /\ UNCHANGED arena
             /\ c.surfaces = {atlas} /\ c.cells = Reads(keys)
<1>1. CASE \E n \in 1 .. MaxDraws : \E keys \in [1 .. n -> Keys] : HostCacheBatch(keys)
  <2>0. PICK n \in 1 .. MaxDraws : \E keys \in [1 .. n -> Keys] : HostCacheBatch(keys)
    BY <1>1
  <2>1. PICK keys \in [1 .. n -> Keys] : HostCacheBatch(keys)
    BY <2>0
  <2>2. Drawable(keys) /\ Touch(keys) /\ UNCHANGED arena
    BY <2>1 DEF HostCacheBatch
  <2>3. n \in Nat /\ n > 0
    OBVIOUS
  <2> QED BY <2>1, <2>2, <2>3, CacheBatchCommand
<1>2. CASE \E key \in Keys : HostCacheBlend(key)
  <2>1. PICK key \in Keys : HostCacheBlend(key)
    BY <1>2
  <2>2. Drawable(<<key>>) /\ Touch(<<key>>) /\ UNCHANGED arena
    BY <2>1 DEF HostCacheBlend, CacheBlend
  <2>3. 1 \in Nat /\ 1 > 0 /\ <<key>> \in [1 .. 1 -> Keys]
    BY OneKey
  <2> QED BY <2>1, <2>2, <2>3, BlendCommand
<1> QED BY <1>1, <1>2 DEF CellsDrawn

LEMMA StoreType ==
    ASSUME MemoryInv, UploadStore
    PROVE  /\ target.slot \in Slot /\ target.key \in Keys
           /\ Newest + 1 \in 1 .. MaxUploads
           /\ \A r \in Slot : Holds(r, target.key) => r = target.slot
           /\ \A i \in 1 .. Len(pending) :
                \A read \in pending[i].cells : read.slot # target.slot
<1>1. host_pc = "cell" /\ target.slot \in Slot /\ target.key \in Keys /\ Newest < MaxUploads
  BY DEF MemoryInv, TargetInv, UploadStore
<1>2. Newest \in Nat
  BY <1>1, NewestType DEF MemoryInv
<1>3. Newest + 1 \in 1 .. MaxUploads
  BY <1>1, <1>2, TextureCacheAssumption
<1> QED BY <1>1, <1>3 DEF MemoryInv, TargetInv

LEMMA CacheTypesStep == ASSUME MemoryInv, [Next]_vars PROVE CacheTypes'
<1>0. /\ CacheTypes /\ CacheSlots \in Nat /\ MaxUploads \in Nat /\ 0 \in Fence
      /\ last_fence' \in Fence
  BY LinkTypesStep, TextureCacheAssumption, FenceConstants DEF MemoryInv, LinkTypes
<1>1. /\ atlas' \in 0 .. MaxSurfaces /\ cache_age' \in Nat
      /\ slots' \in [Slot -> [key : Keys \cup {0}, age : Nat, last_fence : Fence,
                              valid : BOOLEAN, used : BOOLEAN]]
      /\ cell' \in [Slot -> 0 .. MaxUploads] /\ latest' \in [Keys -> 0 .. MaxUploads]
  <2>1. CASE CellsKept
    BY <1>0, <2>1 DEF CellsKept, CacheTypes
  <2>2. CASE (CacheCreated \/ CloseEnd) /\ CellsCleared
    <3>1. atlas' \in 0 .. MaxSurfaces
      <4>1. CASE CacheCreated
        <5>1. Creating /\ atlas' = created + 1
          BY <4>1 DEF CacheCreated, CreateSurface, Creating
        <5> QED BY <5>1, CreatingType
      <4>2. CASE CloseEnd
        BY <4>2, SurfaceArenaAssumption DEF CloseEnd
      <4> QED BY <2>2, <4>1, <4>2
    <3>2. EmptySlot \in [key : Keys \cup {0}, age : Nat, last_fence : Fence,
                         valid : BOOLEAN, used : BOOLEAN]
      BY <1>0 DEF EmptySlot
    <3>3. 0 \in 0 .. MaxUploads
      BY <1>0
    <3> QED BY <2>2, <3>1, <3>2, <3>3 DEF CellsCleared
  <2>3. CASE UploadStore
    <3>1. /\ target.slot \in Slot /\ target.key \in Keys
          /\ Newest + 1 \in 0 .. MaxUploads
      BY <1>0, <2>3, StoreType
    <3>2. [key |-> target.key, age |-> cache_age + 1, last_fence |-> 0, valid |-> TRUE,
           used |-> FALSE] \in [key : Keys \cup {0}, age : Nat, last_fence : Fence,
                                valid : BOOLEAN, used : BOOLEAN]
      BY <1>0, <3>1 DEF CacheTypes
    <3>3. cache_age' \in Nat /\ atlas' = atlas
      BY <1>0, <2>3 DEF UploadStore, CacheTypes
    <3>4. /\ cell' = [cell EXCEPT ![target.slot] = Newest + 1]
          /\ latest' = [latest EXCEPT ![target.key] = Newest + 1]
      BY <2>3 DEF UploadStore
    <3>5. slots' = [slots EXCEPT ![target.slot] =
                     [key |-> target.key, age |-> cache_age + 1, last_fence |-> 0,
                      valid |-> TRUE, used |-> FALSE]]
      BY <2>3 DEF UploadStore
    <3>6. cell' \in [Slot -> 0 .. MaxUploads] /\ latest' \in [Keys -> 0 .. MaxUploads]
      BY <1>0, <3>1, <3>4 DEF CacheTypes
    <3>7. slots' \in [Slot -> [key : Keys \cup {0}, age : Nat, last_fence : Fence,
                               valid : BOOLEAN, used : BOOLEAN]]
      BY <1>0, <3>2, <3>5 DEF CacheTypes
    <3> QED BY <1>0, <3>3, <3>6, <3>7 DEF CacheTypes
  <2>4. CASE CloseSlot
    <3>1. /\ slots' = [slots EXCEPT ![target.slot].used = FALSE]
          /\ UNCHANGED <<atlas, cache_age, cell, latest>>
      BY <2>4 DEF CloseSlot
    <3>2. slots' \in [Slot -> [key : Keys \cup {0}, age : Nat, last_fence : Fence,
                               valid : BOOLEAN, used : BOOLEAN]]
      BY ZenonT(40), <1>0, <3>1 DEF CacheTypes
    <3> QED BY <1>0, <3>1, <3>2 DEF CacheTypes
  <2>5. CASE CellsDrawn
    <3>1. PICK n \in Nat : \E keys \in [1 .. n -> Keys] : Drawable(keys) /\ Touch(keys)
      BY <2>5, DrawnCells
    <3> QED BY <1>0, <2>5, <3>1, Touching DEF MemoryInv, CellsDrawn, CacheTypes
  <2> QED BY <2>1, <2>2, <2>3, <2>4, <2>5, CacheSteps
<1>2. target' \in [slot : 0 .. CacheSlots, key : Keys \cup {0}]
  <2>0. target \in [slot : 0 .. CacheSlots, key : Keys \cup {0}]
        /\ NoTarget \in [slot : 0 .. CacheSlots, key : Keys \cup {0}]
    BY <1>0 DEF CacheTypes, NoTarget
  <2>1. CASE \E key \in Keys : UploadStart(key)
    <3>1. PICK key \in Keys : UploadStart(key)
      BY <2>1
    <3>2. CacheSlots > 0
      BY <3>1 DEF UploadStart, MemoryInv, AtlasInv
    <3>3. target' = [slot |-> IF Cached(key) THEN FindKey(key) ELSE ChooseSlot, key |-> key]
      BY <3>1 DEF UploadStart
    <3>4. (IF Cached(key) THEN FindKey(key) ELSE ChooseSlot) \in Slot
      BY <1>0, <3>2, FindKeyFinds, ChooseSlotType DEF MemoryInv
    <3>5. (IF Cached(key) THEN FindKey(key) ELSE ChooseSlot) \in 0 .. CacheSlots
      BY <1>0, <3>4 DEF Slot
    <3> QED BY <3>3, <3>5
  <2>2. CASE UploadStore \/ CloseStart \/ CloseEnd \/ CloseFails
    BY <2>0, <2>2 DEF UploadStore, CloseStart, CloseEnd, CloseFails
  <2>3. CASE CloseSlot
    <3>1. target' = [target EXCEPT !.slot = target.slot + 1] /\ target.slot < CacheSlots
      BY <2>3 DEF CloseSlot, Closing
    <3>2. target.slot + 1 \in 0 .. CacheSlots
      BY <1>0, <2>0, <3>1
    <3> QED BY <2>0, <3>1, <3>2
  <2>4. CASE UNCHANGED target
    BY <2>0, <2>4
  <2>5. CASE CacheCreated \/ CacheMapFails \/ UploadWaited
    BY <2>4, <2>5 DEF CacheCreated, CacheMapFails, UploadWaited
  <2>6. CASE PublishStep
    BY <2>4, <2>6 DEF PublishStep, HostBatchPush, HostBatch, HostCacheBatch, HostDraw,
       HostCacheBlend, CacheBlend, HostRawBatch
  <2> QED BY <2>1, <2>2, <2>3, <2>4, <2>5, <2>6, Steps
        DEF QuietStep, CacheStep, CacheCall, FinishStep, HostBatchStart
<1> QED BY <1>1, <1>2 DEF CacheTypes
-----------------------------------------------------------------------------
(* The atlas.                                                              *)

AtlasPcs == {"wait", "cpu", "cell_wait", "cell", "cache_close"}

\* The steps that keep the surfaces, the atlas and the transfer.
LEMMA AtlasKept ==
    ASSUME AtlasInv, UNCHANGED <<atlas, surfaces, accessed>>,
           host_pc' = host_pc \/ host_pc' \notin AtlasPcs
    PROVE  AtlasInv'
BY DEF AtlasInv, AtlasPcs

\* The steps that end at rest, with the atlas still live and at rest.
LEMMA AtlasStays ==
    ASSUME AtlasInv, UNCHANGED atlas, host_pc' \notin AtlasPcs,
           \A s \in surfaces : s.id = atlas /\ ~s.used => s \in surfaces'
    PROVE  AtlasInv'
BY DEF AtlasInv, AtlasPcs

LEMMA AtlasStep == ASSUME MemoryInv, [Next]_vars PROVE AtlasInv'
<1>0. AtlasInv /\ NameInv /\ ArenaTypes
  BY DEF MemoryInv
<1>1. CASE CreateSurface /\ UNCHANGED atlas
  BY <1>0, <1>1, AtlasStays DEF CreateSurface, CreationEnds, AtlasPcs
<1>2. CASE CacheMapFails
  BY <1>0, <1>2, AtlasStays DEF CacheMapFails, CreationEnds, AtlasPcs
<1>3. CASE CacheCreated
  <2>1. Creating /\ CacheSlots > 0 /\ host_pc' = "idle" /\ atlas' = created + 1
    BY <1>3 DEF CacheCreated, CreateSurface, CreationEnds, Creating
  <2>2. NewSurface(request) \in surfaces'
    BY <1>3 DEF CacheCreated, CreateSurface
  <2>3. NewSurface(request).id = created + 1 /\ ~NewSurface(request).used
    BY <2>1, CreatingType
  <2> QED BY <2>1, <2>2, <2>3 DEF AtlasInv
<1>4. ASSUME NEW s \in OwnSurfaces, Destroy(s), UNCHANGED cache PROVE AtlasInv'
  <2>1. s.id # atlas /\ surfaces' = surfaces \ {s} /\ host_pc' = "idle" /\ UNCHANGED atlas
    BY <1>4 DEF OwnSurfaces, Destroy, Retire
  <2> QED BY <1>0, <2>1, AtlasStays DEF AtlasPcs
<1>5. ASSUME NEW s \in OwnSurfaces, TransferStart(s), UNCHANGED cache PROVE AtlasInv'
  <2>1. /\ s.id # atlas /\ s \in surfaces /\ accessed' = s.id
        /\ UNCHANGED <<atlas, surfaces>>
        /\ host_pc' = IF s.used THEN "wait" ELSE "cpu"
    BY <1>5 DEF OwnSurfaces, TransferStart
  <2>2. \A r \in surfaces : r.id = s.id => r = s
    BY <1>0, <2>1 DEF NameInv, Kept
  <2> QED BY <1>0, <2>1, <2>2 DEF AtlasInv
<1>6. ASSUME NEW s \in surfaces, TransferWaited(s), UNCHANGED cache PROVE AtlasInv'
  <2>1. PICK r \in Surface : Relabels({s}, {r}) /\ ~r.used /\ Same(r, s)
    BY <1>6, Waiting
  <2>2. /\ surfaces' = (surfaces \ {s}) \cup {r} /\ r.id = s.id
        /\ s.id = accessed /\ host_pc = "wait" /\ host_pc' = "cpu"
        /\ UNCHANGED <<atlas, accessed>>
    BY <1>6, <2>1 DEF TransferWaited, Relabels, Same
  <2>3. accessed # atlas
    BY <1>0, <2>2 DEF AtlasInv
  <2>4. \A q \in surfaces : q.id = s.id => q = s
    BY <1>0 DEF NameInv, Kept
  <2> QED BY <1>0, <2>1, <2>2, <2>3, <2>4 DEF AtlasInv
<1>7. CASE TransferEnd /\ UNCHANGED cache
  BY <1>0, <1>7, AtlasStays DEF TransferEnd, AtlasPcs
<1>8. ASSUME NEW S \in SUBSET OwnSurfaces, HostDraw(S) \/ HostBatch(S) PROVE AtlasInv'
  <2>1. /\ MarkUsed(S) /\ UNCHANGED atlas
        /\ host_pc' \notin AtlasPcs
    BY <1>8 DEF HostDraw, Draw, HostBatch, BatchPush, AtlasPcs
  <2>2. \A s \in surfaces : s.id = atlas => s \in surfaces'
    BY <2>1 DEF MarkUsed, OwnSurfaces
  <2> QED BY <1>0, <2>1, <2>2, AtlasStays
<1>9. CASE \/ UploadWaited \/ UploadStore \/ CloseStart \/ CloseSlot \/ CloseFails
           \/ \E key \in Keys : UploadStart(key)
  <2>1. UNCHANGED <<atlas, surfaces>>
    BY <1>9 DEF UploadWaited, UploadStore, CloseStart, CloseSlot, CloseFails, UploadStart
  <2>2. host_pc' \in {"idle", "cell_wait", "cell", "cache_close"}
    BY <1>9 DEF UploadWaited, UploadStore, CloseStart, CloseSlot, Closing, CloseFails,
       UploadStart
  <2>3. host_pc' \in {"cell_wait", "cell", "cache_close"} => atlas # 0
    BY <1>0, <1>9 DEF UploadWaited, UploadStore, CloseStart, CloseSlot, Closing, CloseFails,
       UploadStart, AtlasInv
  <2> QED BY <1>0, <2>1, <2>2, <2>3 DEF AtlasInv
<1>10. CASE CloseEnd
  BY <1>10 DEF CloseEnd, AtlasInv
<1>11. CASE /\ \/ CollectReclaim \/ CollectSkip \/ CollectFails \/ CollectReturn
               \/ \E size \in 0 .. ArenaPages : CollectStart(size)
            /\ UNCHANGED cache
  <2>1. /\ UNCHANGED <<atlas, surfaces, accessed>>
        /\ host_pc' = host_pc \/ host_pc' \notin AtlasPcs
    BY <1>11 DEF CollectReclaim, CollectSkip, CollectFails, CollectReturn, CollectStart,
       AtlasPcs
  <2> QED BY <1>0, <2>1, AtlasKept
<1>12. CASE (PoolStep \/ HostBatchStart) /\ UNCHANGED <<arena, cache>>
  <2>1. host_pc' = host_pc \/ host_pc' \notin AtlasPcs
    BY <1>12 DEF PoolStep, PoolCall, FindTaken, FindBusy, FindFails, BatchUpload,
       BatchAbandoned, RawUpload, RawBatchRefused, HostBatchStart, BatchStart, AtlasPcs
  <2> QED BY <1>0, <1>12, <2>1, AtlasKept
<1>13. CASE \/ HostConfirm /\ UNCHANGED <<arena, cache>>
            \/ UNCHANGED vars \/ FinishStep
  BY <1>0, <1>13, AtlasKept DEF HostConfirm, FinishStep, Finish
<1>14. CASE \/ \E n \in 1 .. MaxDraws : \E keys \in [1 .. n -> Keys] : HostCacheBatch(keys)
            \/ \E key \in Keys : HostCacheBlend(key)
            \/ \E t \in Table : HostRawBatch(t)
  <2>1. /\ UNCHANGED <<atlas, surfaces, accessed>>
        /\ host_pc' = host_pc \/ host_pc' \notin AtlasPcs
    BY <1>14 DEF HostCacheBatch, BatchPush, HostCacheBlend, CacheBlend, HostRawBatch,
       RawBatch, AtlasPcs
  <2> QED BY <1>0, <2>1, AtlasKept
<1>15. CASE ArenaStep /\ UNCHANGED cache
  BY <1>1, <1>6, <1>7, <1>11, <1>15 DEF ArenaStep, ArenaCall
<1>16. CASE CacheStep
  BY <1>2, <1>3, <1>9, <1>10, <1>16 DEF CacheStep, CacheCall
<1>17. CASE PublishStep
  BY <1>8, <1>14, <1>17 DEF PublishStep, HostBatchPush
<1>18. CASE \E s \in OwnSurfaces : SurfaceStep(s) /\ UNCHANGED cache
  BY <1>4, <1>5, <1>18 DEF SurfaceStep
<1> QED BY <1>12, <1>13, <1>15, <1>16, <1>17, <1>18, Steps DEF QuietStep, HostBatchStart
-----------------------------------------------------------------------------
(* What the cells hold.                                                    *)

\* The steps that keep what is cached.
LEMMA CellsStay ==
    ASSUME CellInv, UNCHANGED <<cell, latest>>,
           \A s \in Slot : slots'[s].key = slots[s].key /\ slots'[s].valid = slots[s].valid
    PROVE  CellInv'
BY DEF CellInv

LEMMA CloseSlotKeeps ==
    ASSUME MemoryInv, CloseSlot
    PROVE  /\ \A s \in Slot :
                /\ slots'[s].key = slots[s].key /\ slots'[s].valid = slots[s].valid
                /\ slots'[s].last_fence = slots[s].last_fence
                /\ slots'[s].age = slots[s].age
                /\ s # target.slot => slots'[s] = slots[s]
                /\ s = target.slot => ~slots'[s].used
           /\ UNCHANGED <<cell, latest, atlas, arena, cache_age, older>> /\ target.slot < CacheSlots
           /\ target' = [target EXCEPT !.slot = @ + 1] /\ host_pc' = "cache_close"
<1>1. slots \in [Slot -> [key : Keys \cup {0}, age : Nat, last_fence : Fence,
                          valid : BOOLEAN, used : BOOLEAN]]
  BY DEF MemoryInv, CacheTypes
<1>2. slots' = [slots EXCEPT ![target.slot].used = FALSE]
  BY DEF CloseSlot
<1>3. \A s \in Slot :
        /\ slots'[s].key = slots[s].key /\ slots'[s].valid = slots[s].valid
        /\ slots'[s].last_fence = slots[s].last_fence
        /\ slots'[s].age = slots[s].age
        /\ s # target.slot => slots'[s] = slots[s]
        /\ s = target.slot => ~slots'[s].used
  BY <1>1, <1>2
<1> QED BY <1>3 DEF CloseSlot, Closing

LEMMA StoreSets ==
    ASSUME MemoryInv, UploadStore
    PROVE  /\ \A s \in Slot \ {target.slot} : slots'[s] = slots[s] /\ cell'[s] = cell[s]
           /\ \A k \in Keys \ {target.key} : latest'[k] = latest[k]
           /\ slots'[target.slot].key = target.key /\ slots'[target.slot].valid
           /\ slots'[target.slot].age = cache_age + 1
           /\ cell'[target.slot] = Newest + 1 /\ latest'[target.key] = Newest + 1
<1>1. target.slot \in Slot /\ target.key \in Keys
  BY StoreType
<1>2. /\ slots' = [slots EXCEPT ![target.slot] =
                     [key |-> target.key, age |-> cache_age + 1,
                      last_fence |-> 0, valid |-> TRUE, used |-> FALSE]]
      /\ cell' = [cell EXCEPT ![target.slot] = Newest + 1]
      /\ latest' = [latest EXCEPT ![target.key] = Newest + 1]
  BY DEF UploadStore
<1>3. DOMAIN slots = Slot /\ DOMAIN cell = Slot /\ DOMAIN latest = Keys
  BY DEF MemoryInv, CacheTypes
<1> QED BY <1>1, <1>2, <1>3

LEMMA CellStep == ASSUME MemoryInv, [Next]_vars PROVE CellInv'
<1>0. CellInv
  BY DEF MemoryInv
<1>1. CASE CellsKept
  BY <1>0, <1>1, CellsStay DEF CellsKept
<1>2. CASE CellsCleared
  BY <1>2 DEF CellsCleared, EmptySlot, CellInv
<1>3. CASE UploadStore
  <2>1. /\ target.slot \in Slot /\ target.key \in Keys /\ Newest + 1 \in 1 .. MaxUploads
        /\ \A r \in Slot : Holds(r, target.key) => r = target.slot
    BY <1>3, StoreType
  <2>2. ASSUME NEW s \in Slot, slots'[s].valid
        PROVE  /\ slots'[s].key \in Keys /\ cell'[s] = latest'[slots'[s].key]
               /\ cell'[s] > 0
    <3>1. CASE s = target.slot
      BY <1>3, <2>1, <3>1, StoreSets
    <3>2. CASE s # target.slot
      <4>1. slots'[s] = slots[s] /\ cell'[s] = cell[s] /\ slots[s].valid
        BY <1>3, <2>2, <3>2, StoreSets
      <4>2. slots[s].key \in Keys /\ slots[s].key # target.key
        BY <1>0, <2>1, <3>2, <4>1 DEF CellInv, Holds
      <4>3. latest'[slots[s].key] = latest[slots[s].key]
        BY <1>3, <4>2, StoreSets
      <4> QED BY <1>0, <4>1, <4>2, <4>3 DEF CellInv
    <3> QED BY <3>1, <3>2
  <2>3. ASSUME NEW r \in Slot, NEW s \in Slot, slots'[r].valid, slots'[s].valid,
               slots'[r].key = slots'[s].key, r # s
        PROVE  FALSE
    <3>1. CASE r # target.slot /\ s # target.slot
      BY <1>0, <1>3, <2>3, <3>1, StoreSets DEF CellInv
    <3>2. CASE r = target.slot
      BY <1>3, <2>1, <2>3, <3>2, StoreSets DEF Holds
    <3>3. CASE s = target.slot
      BY <1>3, <2>1, <2>3, <3>3, StoreSets DEF Holds
    <3> QED BY <3>1, <3>2, <3>3
  <2> QED BY <2>2, <2>3 DEF CellInv
<1>4. CASE CloseSlot
  BY <1>0, <1>4, CloseSlotKeeps, CellsStay
<1>5. CASE CellsDrawn
  <2>1. PICK n \in Nat : \E keys \in [1 .. n -> Keys] : Drawable(keys) /\ Touch(keys)
    BY <1>5, DrawnCells
  <2>2. last_fence' \in Fence
    BY LinkTypesStep DEF LinkTypes
  <2>3. \A s \in Slot : slots'[s].key = slots[s].key /\ slots'[s].valid = slots[s].valid
    BY <2>1, <2>2, Touching DEF MemoryInv
  <2> QED BY <1>0, <1>5, <2>3, CellsStay DEF CellsDrawn
<1> QED BY <1>1, <1>2, <1>3, <1>4, <1>5, CacheSteps
-----------------------------------------------------------------------------
(* What the pending draws read.                                            *)

LEMMA ReadType ==
    ASSUME MemoryInv, NEW i \in 1 .. Len(pending), NEW read \in pending[i].cells
    PROVE  /\ read.slot \in Slot /\ slots[read.slot].last_fence \in Fence
           /\ atlas # 0 /\ atlas \in pending[i].surfaces /\ slots[read.slot].used
           /\ Pending(slots[read.slot].last_fence, i) /\ cell[read.slot] = read.pixels
<1>1. read.slot \in Slot
  BY PendingType DEF MemoryInv
<1> QED BY <1>1, SlotType DEF MemoryInv, ReadInv

\* A step that submits nothing may change the cells that no pending draw reads.
LEMMA ReadQuietly ==
    ASSUME MemoryInv, UNCHANGED <<pending, last_fence, atlas>>,
           \A i \in 1 .. Len(pending) : \A read \in pending[i].cells :
             /\ slots'[read.slot] = slots[read.slot] /\ cell'[read.slot] = cell[read.slot]
    PROVE  ReadInv'
<1> SUFFICES ASSUME NEW i \in 1 .. Len(pending), NEW read \in pending[i].cells
             PROVE  /\ atlas' # 0 /\ atlas' \in pending'[i].surfaces
                    /\ slots'[read.slot].used
                    /\ CountFrom(slots'[read.slot].last_fence, last_fence')
                         <= Len(pending') - i
                    /\ cell'[read.slot] = read.pixels
  BY DEF ReadInv, Pending
<1> QED BY ReadType DEF Pending

\* Without a draw that reads cells, nothing needs to be kept.
LEMMA ReadNothing ==
    ASSUME UNCHANGED pending, \A i \in 1 .. Len(pending) : pending[i].cells = {}
    PROVE  ReadInv'
BY DEF ReadInv

\* A published command keeps the cells of the ones before it.
LEMMA ReadPublished ==
    ASSUME MemoryInv, NEW c \in Commands, Publish(c), UNCHANGED <<atlas, cell>>,
           \A s \in Slot : slots[s].used =>
             /\ slots'[s].used
             /\ slots'[s].last_fence \in {slots[s].last_fence, last_fence'},
           \A read \in c.cells :
             /\ atlas # 0 /\ atlas \in c.surfaces /\ cell[read.slot] = read.pixels
             /\ slots'[read.slot].used /\ slots'[read.slot].last_fence = last_fence'
    PROVE  ReadInv'
<1>1. /\ Len(pending') = Len(pending) + 1 /\ pending'[Len(pending) + 1] = c
      /\ \A i \in 1 .. Len(pending) : pending'[i] = pending[i]
      /\ Len(pending) \in Nat /\ last_fence' \in Fence
      /\ CountFrom(last_fence', last_fence') <= Len(pending') - (Len(pending) + 1)
      /\ CountFrom(last_fence', last_fence') \in Nat
  BY Publishing, PendingPublished, PendingType, CountType DEF MemoryInv
<1> SUFFICES ASSUME NEW i \in 1 .. Len(pending'), NEW read \in pending'[i].cells
             PROVE  /\ atlas' # 0 /\ atlas' \in pending'[i].surfaces
                    /\ slots'[read.slot].used
                    /\ CountFrom(slots'[read.slot].last_fence, last_fence')
                         <= Len(pending') - i
                    /\ cell'[read.slot] = read.pixels
  BY DEF ReadInv, Pending
<1>2. CASE i = Len(pending) + 1
  BY <1>1, <1>2
<1>3. CASE i \in 1 .. Len(pending)
  <2>1. /\ read \in pending[i].cells /\ pending'[i] = pending[i]
    BY <1>1, <1>3
  <2>2. /\ read.slot \in Slot /\ slots[read.slot].last_fence \in Fence
        /\ atlas # 0 /\ atlas \in pending[i].surfaces /\ slots[read.slot].used
        /\ Pending(slots[read.slot].last_fence, i) /\ cell[read.slot] = read.pixels
    BY <1>3, <2>1, ReadType
  <2>3. CountFrom(slots[read.slot].last_fence, last_fence') <= Len(pending') - i
    BY <1>3, <2>2, PendingPublished DEF MemoryInv
  <2>4. CountFrom(last_fence', last_fence') <= Len(pending') - i
    BY <1>1, <1>3
  <2>5. slots'[read.slot].used
        /\ slots'[read.slot].last_fence \in {slots[read.slot].last_fence, last_fence'}
    BY <2>2
  <2> QED BY <2>1, <2>2, <2>3, <2>4, <2>5
<1> QED BY <1>1, <1>2, <1>3

LEMMA ReadFinished == ASSUME MemoryInv, FinishStep PROVE ReadInv'
<1>1. Finish /\ UNCHANGED <<atlas, slots, cell>>
  BY DEF FinishStep
<1> SUFFICES ASSUME NEW i \in 1 .. Len(pending'), NEW read \in pending'[i].cells
             PROVE  /\ atlas # 0 /\ atlas \in pending'[i].surfaces
                    /\ slots[read.slot].used
                    /\ CountFrom(slots[read.slot].last_fence, last_fence')
                         <= Len(pending') - i
                    /\ cell[read.slot] = read.pixels
  BY <1>1 DEF ReadInv, Pending
<1>2. i + 1 \in 1 .. Len(pending) /\ pending'[i] = pending[i + 1]
  BY <1>1, Finishing DEF MemoryInv
<1>3. /\ read.slot \in Slot /\ slots[read.slot].last_fence \in Fence
      /\ atlas # 0 /\ atlas \in pending[i + 1].surfaces /\ slots[read.slot].used
      /\ Pending(slots[read.slot].last_fence, i + 1) /\ cell[read.slot] = read.pixels
  BY <1>2, ReadType
<1>4. CountFrom(slots[read.slot].last_fence, last_fence') <= Len(pending') - i
  BY <1>1, <1>3, PendingFinished DEF MemoryInv
<1> QED BY <1>2, <1>3, <1>4

\* When every slot of the cache is unused, no pending draw reads a cell.
LEMMA ClosedUnread ==
    ASSUME MemoryInv, host_pc = "cache_close", target.slot = CacheSlots
    PROVE  \A i \in 1 .. Len(pending) : pending[i].cells = {}
<1>1. \A s \in Slot : ~slots[s].used
  BY TextureCacheAssumption DEF MemoryInv, TargetInv, Slot
<1> SUFFICES ASSUME NEW i \in 1 .. Len(pending), NEW read \in pending[i].cells
             PROVE  FALSE
  OBVIOUS
<1> QED BY <1>1, ReadType

LEMMA ReadStep == ASSUME MemoryInv, [Next]_vars PROVE ReadInv'
<1>1. CASE CellsKept /\ QuietStep
  <2>1. UNCHANGED <<pending, last_fence, atlas, slots, cell>>
    BY <1>1, QuietKeepsLink DEF LinkKept, CellsKept
  <2> QED BY <2>1, ReadQuietly
<1>2. CASE CacheCreated \/ CloseEnd
  <2>1. \A i \in 1 .. Len(pending) : pending[i].cells = {}
    <3>1. CASE CacheCreated
      BY <3>1, ReadType DEF CacheCreated
    <3>2. CASE CloseEnd
      BY <3>2, ClosedUnread DEF CloseEnd
    <3> QED BY <1>2, <3>1, <3>2
  <2>2. UNCHANGED pending
    BY <1>2 DEF CacheCreated, CreateSurface, CloseEnd
  <2> QED BY <2>1, <2>2, ReadNothing
<1>3. CASE UploadStore
  <2>1. UNCHANGED <<pending, last_fence, atlas>>
    BY <1>3 DEF UploadStore
  <2>2. ASSUME NEW i \in 1 .. Len(pending), NEW read \in pending[i].cells
        PROVE  slots'[read.slot] = slots[read.slot] /\ cell'[read.slot] = cell[read.slot]
    <3>1. read.slot \in Slot \ {target.slot}
      BY <1>3, ReadType, StoreType
    <3> QED BY <1>3, <3>1, StoreSets
  <2> QED BY <2>1, <2>2, ReadQuietly
<1>4. CASE CloseSlot
  <2>1. UNCHANGED <<pending, last_fence, atlas, cell>>
    BY <1>4 DEF CloseSlot
  <2>2. ASSUME NEW i \in 1 .. Len(pending), NEW read \in pending[i].cells
        PROVE  slots'[read.slot] = slots[read.slot]
    <3>1. /\ read.slot \in Slot /\ slots[read.slot].used
          /\ slots[read.slot].last_fence \in Fence
          /\ Pending(slots[read.slot].last_fence, i)
      BY ReadType
    <3>2. CASE read.slot = target.slot
      <4>1. PollComplete(slots[read.slot].last_fence)
        BY <1>4, <3>1, <3>2 DEF CloseSlot
      <4> QED BY <3>1, <4>1, NotComplete DEF MemoryInv
    <3>3. CASE read.slot # target.slot
      BY <1>4, <3>1, <3>3, CloseSlotKeeps
    <3> QED BY <3>2, <3>3
  <2> QED BY <2>1, <2>2, ReadQuietly
<1>5. CASE CellsDrawn
  <2>1. PICK n \in Nat, c \in Commands : \E keys \in [1 .. n -> Keys] :
             /\ n > 0 /\ Drawable(keys) /\ Touch(keys) /\ Publish(c)
             /\ UNCHANGED arena
             /\ c.surfaces = {atlas} /\ c.cells = Reads(keys)
    BY <1>5, DrawnCells
  <2>2. PICK keys \in [1 .. n -> Keys] :
             /\ Drawable(keys) /\ Touch(keys) /\ Publish(c)
             /\ c.surfaces = {atlas} /\ c.cells = Reads(keys)
    BY <2>1
  <2>3. last_fence' \in Fence /\ atlas # 0 /\ UNCHANGED <<atlas, cell>> /\ DOMAIN keys = 1 .. n
    BY <1>5, <2>2, LinkTypesStep DEF LinkTypes, Drawable, CellsDrawn
  <2>4. \A s \in Slot :
          /\ (\E i \in 1 .. n : FindKey(keys[i]) = s) =>
               slots'[s].used /\ slots'[s].last_fence = last_fence'
          /\ (\A i \in 1 .. n : FindKey(keys[i]) # s) => slots'[s] = slots[s]
    BY <2>2, <2>3, Touching DEF MemoryInv
  <2>5. ASSUME NEW read \in c.cells
        PROVE  /\ read.slot \in Slot /\ cell[read.slot] = read.pixels
               /\ slots'[read.slot].used /\ slots'[read.slot].last_fence = last_fence'
    <3>1. /\ Reads(keys) \subseteq [slot : Slot, pixels : 1 .. MaxUploads]
          /\ cell[read.slot] = read.pixels
          /\ \E i \in 1 .. n : read.slot = FindKey(keys[i])
      BY <2>2, <2>3, ReadsType DEF MemoryInv
    <3>2. read.slot \in Slot
      BY <2>2, <3>1
    <3> QED BY <2>4, <3>1, <3>2
  <2>6. ASSUME NEW s \in Slot, slots[s].used
        PROVE  /\ slots'[s].used
               /\ slots'[s].last_fence \in {slots[s].last_fence, last_fence'}
    BY <2>4, <2>6
  <2> QED BY <2>2, <2>3, <2>5, <2>6, ReadPublished
<1>6. CASE CellsKept /\ PublishStep /\ ~CellsDrawn
  <2>1. UNCHANGED <<atlas, slots, cell>>
    BY <1>6 DEF CellsKept
  <2>2. \E c \in Commands : Publish(c) /\ c.cells = {}
    <3>1. CASE \E S \in SUBSET OwnSurfaces : HostDraw(S)
      BY <3>1, DrawCommand
    <3>2. CASE \E S \in SUBSET OwnSurfaces : HostBatch(S)
      BY <3>2, BatchCommand
    <3>3. CASE \E t \in Table : HostRawBatch(t)
      BY <3>3, RawCommand
    <3>4. CASE \/ \E n \in 1 .. MaxDraws : \E keys \in [1 .. n -> Keys] : HostCacheBatch(keys)
               \/ \E key \in Keys : HostCacheBlend(key)
      BY <1>6, <3>4 DEF CellsDrawn, HostCacheBatch, HostCacheBlend, CacheBlend
    <3> QED BY <1>6, <3>1, <3>2, <3>3, <3>4 DEF PublishStep, HostBatchPush
  <2> QED BY <2>1, <2>2, ReadPublished
<1> QED BY <1>1, <1>2, <1>3, <1>4, <1>5, <1>6, ReadFinished, Steps, CacheSteps
-----------------------------------------------------------------------------
(* What the pending commands use.                                          *)

LEMMA KeptType ==
    ASSUME ArenaTypes, NEW s \in Kept
    PROVE  s \in Surface /\ s.id \in SurfaceId /\ s.last_fence \in Fence
BY ExtentsAndSurfaces DEF Surface

LEMMA UseType ==
    ASSUME MemoryInv, NEW i \in 1 .. Len(pending), NEW id \in pending[i].surfaces
    PROVE  /\ id \in Nat /\ id # 0
           /\ id = atlas => pending[i].cells # {}
           /\ id # atlas => \E s \in Kept : s.id = id /\ s.used /\ Pending(s.last_fence, i)
<1>1. id \in SurfaceId
  BY PendingType DEF MemoryInv
<1> QED BY <1>1, SurfaceArenaAssumption DEF SurfaceId, MemoryInv, UseInv

\* A step that submits nothing may drop a surface that no pending command uses.
LEMMA UseQuietly ==
    ASSUME MemoryInv, UNCHANGED <<pending, last_fence>>,
           \A i \in 1 .. Len(pending) : \A id \in pending[i].surfaces :
             id = atlas <=> id = atlas',
           \A s \in Kept, i \in 1 .. Len(pending) :
             s.used /\ Pending(s.last_fence, i) => s \in Kept'
    PROVE  UseInv'
<1> SUFFICES ASSUME NEW i \in 1 .. Len(pending), NEW id \in pending[i].surfaces
             PROVE  IF id = atlas' THEN pending[i].cells # {}
                    ELSE \E s \in Kept' : s.id = id /\ s.used
                           /\ CountFrom(s.last_fence, last_fence) <= Len(pending) - i
  BY DEF UseInv, Pending
<1>1. CASE id = atlas
  BY <1>1, UseType
<1>2. CASE id # atlas
  <2>1. PICK s \in Kept : s.id = id /\ s.used /\ Pending(s.last_fence, i)
    BY <1>2, UseType
  <2>2. s \in Kept'
    BY <2>1
  <2> QED BY <1>2, <2>1, <2>2 DEF Pending
<1> QED BY <1>1, <1>2

LEMMA UsePublished ==
    ASSUME MemoryInv, NEW c \in Commands, Publish(c), UNCHANGED atlas,
           \A s \in Kept : s.used =>
             \E r \in Kept' : r.id = s.id /\ r.used
                              /\ r.last_fence \in {s.last_fence, last_fence'},
           \A id \in c.surfaces :
             IF id = atlas THEN c.cells # {}
             ELSE \E r \in Kept' : r.id = id /\ r.used /\ r.last_fence = last_fence'
    PROVE  UseInv'
<1>1. /\ Len(pending') = Len(pending) + 1 /\ pending'[Len(pending) + 1] = c
      /\ \A i \in 1 .. Len(pending) : pending'[i] = pending[i]
      /\ Len(pending) \in Nat /\ last_fence' \in Fence
      /\ CountFrom(last_fence', last_fence') <= Len(pending') - (Len(pending) + 1)
      /\ CountFrom(last_fence', last_fence') \in Nat
  BY Publishing, PendingPublished, PendingType, CountType DEF MemoryInv
<1> SUFFICES ASSUME NEW i \in 1 .. Len(pending'), NEW id \in pending'[i].surfaces
             PROVE  IF id = atlas' THEN pending'[i].cells # {}
                    ELSE \E s \in Kept' : s.id = id /\ s.used
                           /\ CountFrom(s.last_fence, last_fence') <= Len(pending') - i
  BY DEF UseInv, Pending
<1>2. CASE i = Len(pending) + 1
  BY <1>1, <1>2
<1>3. CASE i \in 1 .. Len(pending)
  <2>1. id \in pending[i].surfaces /\ pending'[i] = pending[i]
    BY <1>1, <1>3
  <2>2. CASE id = atlas
    BY <1>3, <2>1, <2>2, UseType
  <2>3. CASE id # atlas
    <3>1. PICK s \in Kept : s.id = id /\ s.used /\ Pending(s.last_fence, i)
      BY <1>3, <2>1, <2>3, UseType
    <3>2. PICK r \in Kept' : r.id = id /\ r.used
                             /\ r.last_fence \in {s.last_fence, last_fence'}
      BY <3>1
    <3>3. s.last_fence \in Fence
      BY KeptType DEF MemoryInv
    <3>4. CountFrom(s.last_fence, last_fence') <= Len(pending') - i
      BY <1>3, <3>1, <3>3, PendingPublished DEF MemoryInv
    <3>5. CountFrom(last_fence', last_fence') <= Len(pending') - i
      BY <1>1, <1>3
    <3> QED BY <2>3, <3>2, <3>4, <3>5
  <2> QED BY <2>2, <2>3
<1> QED BY <1>1, <1>2, <1>3

LEMMA UseFinished == ASSUME MemoryInv, FinishStep PROVE UseInv'
<1>1. Finish /\ UNCHANGED <<atlas, surfaces, retired>>
  BY DEF FinishStep
<1>2. Kept' = Kept
  BY <1>1 DEF Kept, Retired
<1> SUFFICES ASSUME NEW i \in 1 .. Len(pending'), NEW id \in pending'[i].surfaces
             PROVE  IF id = atlas THEN pending'[i].cells # {}
                    ELSE \E s \in Kept : s.id = id /\ s.used
                           /\ CountFrom(s.last_fence, last_fence') <= Len(pending') - i
  BY <1>1, <1>2 DEF UseInv, Pending
<1>3. i + 1 \in 1 .. Len(pending) /\ pending'[i] = pending[i + 1]
  BY <1>1, Finishing DEF MemoryInv
<1>4. CASE id = atlas
  BY <1>3, <1>4, UseType
<1>5. CASE id # atlas
  <2>1. PICK s \in Kept : s.id = id /\ s.used /\ Pending(s.last_fence, i + 1)
    BY <1>3, <1>5, UseType
  <2>2. s.last_fence \in Fence
    BY KeptType DEF MemoryInv
  <2>3. CountFrom(s.last_fence, last_fence') <= Len(pending') - i
    BY <1>1, <2>1, <2>2, PendingFinished DEF MemoryInv
  <2> QED BY <1>5, <2>1, <2>3
<1> QED BY <1>4, <1>5

\* Collections, creations, destructions and transfers.
LEMMA UseReclaimed == ASSUME MemoryInv, CollectReclaim, UNCHANGED cache PROVE UseInv'
<1>1. /\ Kept' = Kept \ {retired[cursor]} /\ retired[cursor] \in Kept
      /\ UNCHANGED <<pending, last_fence, atlas>>
  BY Reclaiming DEF CollectReclaim
<1>2. ASSUME NEW i \in 1 .. Len(pending), retired[cursor].used,
             Pending(retired[cursor].last_fence, i)
      PROVE  FALSE
  <2>1. PollComplete(retired[cursor].last_fence)
    BY <1>2 DEF CollectReclaim, Reclaimable
  <2>2. retired[cursor].last_fence \in Fence
    BY <1>1, KeptType DEF MemoryInv
  <2> QED BY <1>2, <2>1, <2>2, NotComplete DEF MemoryInv
<1> QED BY <1>1, <1>2, UseQuietly

LEMMA UseCreated ==
    ASSUME MemoryInv, \/ CreateSurface /\ UNCHANGED cache
                      \/ CacheCreated \/ CacheMapFails
    PROVE  UseInv'
<1>1. Creating /\ UNCHANGED <<pending, last_fence>>
  BY DEF CreateSurface, CacheCreated, CacheMapFails, CreationEnds, Creating
<1>2. Kept \subseteq Kept'
  BY <1>1, CreatingType
<1>3. CASE UNCHANGED atlas
  BY <1>1, <1>2, <1>3, UseQuietly
<1>4. CASE CacheCreated
  <2>1. atlas = 0 /\ atlas' = created + 1 /\ created \in Nat
    BY <1>4, SurfaceArenaAssumption DEF CacheCreated, MemoryInv, ArenaTypes
  <2>2. ASSUME NEW i \in 1 .. Len(pending), NEW id \in pending[i].surfaces
        PROVE  id # atlas /\ id # atlas'
    <3>1. id \in Nat /\ id # atlas
      BY <2>1, UseType
    <3>2. PICK s \in Kept : s.id = id
      BY <3>1, UseType
    <3>3. id <= created
      BY <3>2 DEF MemoryInv, NameInv
    <3> QED BY <2>1, <3>1, <3>3
  <2> QED BY <1>1, <1>2, <2>2, UseQuietly
<1> QED BY <1>3, <1>4 DEF CacheMapFails

LEMMA UseDestroyed ==
    ASSUME MemoryInv, \/ CloseEnd
                      \/ UNCHANGED cache /\ \E s \in OwnSurfaces : Destroy(s)
    PROVE  UseInv'
<1>1. PICK s \in surfaces : Retire(s)
  BY DEF CloseEnd, Destroy, OwnSurfaces
<1>2. Kept' = Kept /\ UNCHANGED <<pending, last_fence>>
  BY <1>1, DestroyingKeeps DEF CloseEnd, Destroy
<1>3. CASE UNCHANGED cache
  BY <1>2, <1>3, UseQuietly
<1>4. CASE CloseEnd
  <2>1. atlas' = 0 /\ \A i \in 1 .. Len(pending) : pending[i].cells = {}
    BY <1>4, ClosedUnread DEF CloseEnd
  <2>2. ASSUME NEW i \in 1 .. Len(pending), NEW id \in pending[i].surfaces
        PROVE  id # atlas /\ id # atlas'
    BY <2>1, UseType
  <2> QED BY <1>2, <2>2, UseQuietly
<1> QED BY <1>3, <1>4

LEMMA UseWaited ==
    ASSUME MemoryInv, NEW s \in surfaces, TransferWaited(s), UNCHANGED cache
    PROVE  UseInv'
<1>1. PICK r \in Surface : Relabels({s}, {r}) /\ UNCHANGED retired
  BY Waiting
<1>2. Kept' = (Kept \ {s}) \cup {r}
  BY <1>1, RecordingKeeps
<1>3. ASSUME NEW i \in 1 .. Len(pending), Pending(s.last_fence, i)
      PROVE  FALSE
  <2>1. PollComplete(s.last_fence) /\ s.last_fence \in Fence
    BY KeptType DEF TransferWaited, MemoryInv, Kept
  <2> QED BY <1>3, <2>1, NotComplete DEF MemoryInv
<1>4. UNCHANGED <<pending, last_fence, atlas>>
  BY DEF TransferWaited
<1> QED BY <1>2, <1>3, <1>4, UseQuietly

LEMMA UseKept ==
    ASSUME MemoryInv, UNCHANGED <<pending, last_fence, atlas, surfaces, retired>>
    PROVE  UseInv'
<1>1. Kept' = Kept
  BY DEF Kept, Retired
<1> QED BY <1>1, UseQuietly

\* Commands record their fences in all that they use.
LEMMA UseMarked ==
    ASSUME MemoryInv, NEW S \in SUBSET OwnSurfaces, NEW c \in Commands, Publish(c),
           c.surfaces = Ids(S), MarkUsed(S), UNCHANGED <<atlas, retired>>
    PROVE  UseInv'
<1>1. S \in SUBSET surfaces /\ last_fence' \in Fence
  BY PendingPublished DEF MemoryInv, OwnSurfaces
<1>2. PICK N \in SUBSET Surface :
         Relabels(S, N) /\ \A r \in N : r.used /\ r.last_fence = last_fence'
  BY <1>1, Marking
<1>3. Kept' = (Kept \ S) \cup N
  BY <1>2, RecordingKeeps
<1>4. ASSUME NEW s \in Kept, s.used
      PROVE  \E r \in Kept' : r.id = s.id /\ r.used
                              /\ r.last_fence \in {s.last_fence, last_fence'}
  <2>1. CASE s \in S
    BY <1>2, <1>3, <2>1 DEF Relabels, Same
  <2>2. CASE s \notin S
    BY <1>3, <1>4, <2>2
  <2> QED BY <2>1, <2>2
<1>5. ASSUME NEW id \in c.surfaces
      PROVE  id # atlas /\ \E r \in Kept' : r.id = id /\ r.used /\ r.last_fence = last_fence'
  <2>1. PICK s \in S : s.id = id
    BY DEF Ids
  <2>2. id # atlas
    BY <2>1 DEF OwnSurfaces
  <2> QED BY <1>2, <1>3, <2>1, <2>2 DEF Relabels, Same
<1> QED BY <1>4, <1>5, UsePublished

LEMMA UseByPublish == ASSUME MemoryInv, PublishStep PROVE UseInv'
<1>1. CASE \E S \in SUBSET OwnSurfaces : HostDraw(S)
  <2>1. PICK S \in SUBSET OwnSurfaces : HostDraw(S)
    BY <1>1
  <2>2. MarkUsed(S) /\ UNCHANGED <<atlas, retired>>
    BY <2>1 DEF HostDraw, Draw
  <2> QED BY <2>1, <2>2, DrawCommand, UseMarked
<1>2. CASE \E S \in SUBSET OwnSurfaces : HostBatch(S)
  <2>1. PICK S \in SUBSET OwnSurfaces : HostBatch(S)
    BY <1>2
  <2>2. MarkUsed(S) /\ UNCHANGED <<atlas, retired>>
    BY <2>1 DEF HostBatch
  <2> QED BY <2>1, <2>2, BatchCommand, UseMarked
<1>3. ASSUME UNCHANGED <<surfaces, retired>>
      PROVE  \A s \in Kept : s.used =>
               \E r \in Kept' : r.id = s.id /\ r.used
                                /\ r.last_fence \in {s.last_fence, last_fence'}
  <2>1. Kept' = Kept
    BY <1>3 DEF Kept, Retired
  <2> QED BY <2>1
<1>4. CASE CellsDrawn
  <2>1. PICK n \in Nat, c \in Commands : \E keys \in [1 .. n -> Keys] :
             /\ n > 0 /\ Publish(c) /\ UNCHANGED arena
             /\ c.surfaces = {atlas} /\ c.cells = Reads(keys)
    BY <1>4, DrawnCells
  <2>2. PICK keys \in [1 .. n -> Keys] :
             /\ n > 0 /\ Publish(c) /\ UNCHANGED arena
             /\ c.surfaces = {atlas} /\ c.cells = Reads(keys)
    BY <2>1
  <2>3. 1 \in DOMAIN keys
    BY <2>2
  <2>4. c.cells # {}
    BY <2>2, <2>3 DEF Reads
  <2>5. UNCHANGED <<atlas, surfaces, retired>>
    BY <1>4, <2>2 DEF CellsDrawn
  <2> QED BY <1>3, <2>2, <2>4, <2>5, UsePublished
<1>5. CASE \E t \in Table : HostRawBatch(t)
  <2>1. PICK c \in Commands : Publish(c) /\ c.surfaces = {}
    BY <1>5, RawCommand
  <2>2. UNCHANGED <<atlas, surfaces, retired>>
    BY <1>5 DEF HostRawBatch
  <2> QED BY <1>3, <2>1, <2>2, UsePublished
<1>6. CASE \/ \E n \in 1 .. MaxDraws : \E keys \in [1 .. n -> Keys] : HostCacheBatch(keys)
           \/ \E key \in Keys : HostCacheBlend(key)
  BY <1>4, <1>6 DEF CellsDrawn, HostCacheBatch, HostCacheBlend, CacheBlend
<1> QED BY <1>1, <1>2, <1>5, <1>6 DEF PublishStep, HostBatchPush

LEMMA UseStep == ASSUME MemoryInv, [Next]_vars PROVE UseInv'
<1>1. CASE ArenaStep /\ UNCHANGED cache
  <2>1. CASE CollectSkip \/ CollectFails \/ CollectReturn \/ TransferEnd
             \/ \E size \in 0 .. ArenaPages : CollectStart(size)
    BY <1>1, <2>1, UseKept DEF CollectSkip, CollectFails, CollectReturn, TransferEnd,
       CollectStart
  <2> QED BY <1>1, <2>1, UseReclaimed, UseCreated, UseWaited DEF ArenaStep, ArenaCall
<1>2. CASE CacheStep
  <2>1. CASE UploadWaited \/ UploadStore \/ CloseSlot \/ CloseFails \/ CloseStart
             \/ \E key \in Keys : UploadStart(key)
    BY <2>1, UseKept DEF UploadWaited, UploadStore, CloseSlot, CloseFails, CloseStart,
       UploadStart
  <2> QED BY <1>2, <2>1, UseCreated, UseDestroyed DEF CacheStep, CacheCall
<1>3. ASSUME NEW s \in OwnSurfaces, SurfaceStep(s), UNCHANGED cache PROVE UseInv'
  BY <1>3, UseDestroyed, UseKept DEF SurfaceStep, TransferStart
<1>4. CASE QuietStep /\ UNCHANGED <<arena, cache>>
  <2>1. UNCHANGED <<pending, last_fence, atlas, surfaces, retired>>
    BY <1>4, QuietKeepsLink DEF LinkKept
  <2> QED BY <2>1, UseKept
<1>5. CASE QuietStep
  BY <1>1, <1>2, <1>3, <1>4, <1>5 DEF QuietStep, HostBatchStart
<1> QED BY <1>5, UseByPublish, UseFinished, Steps
-----------------------------------------------------------------------------
(* The cell that is replaced, and the cells that are closed.               *)

TargetPcs == {"cell_wait", "cell", "cache_close"}

LEMMA TargetKept ==
    ASSUME TargetInv, UNCHANGED <<target, latest, slots, pending>>,
           host_pc' = host_pc \/ host_pc' \notin TargetPcs
    PROVE  TargetInv'
<1>1. CASE host_pc' \notin TargetPcs
  BY <1>1 DEF TargetInv, TargetPcs
<1>2. CASE host_pc' = host_pc
  BY <1>2 DEF TargetInv, Newest, Holds
<1> QED BY <1>1, <1>2

LEMMA TargetIdle == ASSUME host_pc' \notin TargetPcs PROVE TargetInv'
BY DEF TargetInv, TargetPcs

LEMMA TargetStarted ==
    ASSUME MemoryInv, NEW key \in Keys, UploadStart(key)
    PROVE  TargetInv'
<1> DEFINE s == IF Cached(key) THEN FindKey(key) ELSE ChooseSlot
<1>1. /\ host_pc' = IF slots[s].used THEN "cell_wait" ELSE "cell"
      /\ target' = [slot |-> s, key |-> key] /\ Newest < MaxUploads
      /\ UNCHANGED <<pending, last_fence, slots, latest>> /\ atlas # 0
  BY DEF UploadStart, InFlight
<1>2. CacheSlots > 0
  BY <1>1 DEF MemoryInv, AtlasInv
<1>3. s \in Slot
  BY <1>2, FindKeyFinds, ChooseSlotType DEF MemoryInv
<1>4. \A r \in Slot : Holds(r, key) => r = s
  BY FindKeyFinds DEF MemoryInv, Cached
<1>5. ASSUME ~slots[s].used, NEW i \in 1 .. Len(pending), NEW read \in pending[i].cells
      PROVE  read.slot # s
  BY <1>5, ReadType
<1> HIDE DEF s
<1>6. target'.slot = s /\ target'.key = key
  BY <1>1
<1>7. Newest' = Newest /\ \A r \in Slot : Holds(r, key)' <=> Holds(r, key)
  BY <1>1 DEF Newest, Holds
<1>8. /\ target'.slot \in Slot /\ target'.key \in Keys /\ Newest' < MaxUploads
      /\ \A r \in Slot : (Holds(r, target.key) => r = target.slot)'
  BY <1>1, <1>3, <1>4, <1>6, <1>7 DEF Holds
<1>9. CASE slots[s].used
  <2>1. host_pc' = "cell_wait" /\ slots'[target'.slot].used
    BY <1>1, <1>6, <1>9
  <2> QED BY <1>8, <2>1 DEF TargetInv
<1>10. CASE ~slots[s].used
  <2>1. host_pc' = "cell"
    BY <1>1, <1>10
  <2>2. \A i \in 1 .. Len(pending') : \A read \in pending'[i].cells : read.slot # target'.slot
    BY <1>1, <1>5, <1>6, <1>10
  <2> QED BY <1>8, <2>1, <2>2 DEF TargetInv
<1> QED BY <1>9, <1>10

LEMMA TargetWaited == ASSUME MemoryInv, UploadWaited PROVE TargetInv'
<1>1. /\ host_pc = "cell_wait" /\ host_pc' = "cell"
      /\ PollComplete(slots[target.slot].last_fence)
      /\ UNCHANGED <<pending, slots, latest, target>>
  BY DEF UploadWaited
<1>2. /\ target.slot \in Slot /\ target.key \in Keys /\ Newest < MaxUploads
      /\ \A r \in Slot : Holds(r, target.key) => r = target.slot
  BY <1>1 DEF MemoryInv, TargetInv
<1>3. ASSUME NEW i \in 1 .. Len(pending), NEW read \in pending[i].cells,
             read.slot = target.slot
      PROVE  FALSE
  <2>1. /\ slots[target.slot].last_fence \in Fence
        /\ Pending(slots[target.slot].last_fence, i)
    BY <1>3, ReadType
  <2> QED BY <1>1, <2>1, NotComplete DEF MemoryInv
<1> QED BY <1>1, <1>2, <1>3 DEF TargetInv, Newest, Holds

LEMMA TargetClosed == ASSUME MemoryInv, CloseSlot PROVE TargetInv'
<1>1. /\ target' = [target EXCEPT !.slot = target.slot + 1] /\ host_pc' = "cache_close"
      /\ \A s \in Slot : /\ s # target.slot => slots'[s] = slots[s]
                         /\ s = target.slot => ~slots'[s].used
  BY CloseSlotKeeps
<1>2. \A s \in Slot : s < target.slot => ~slots[s].used
  BY DEF MemoryInv, TargetInv, CloseSlot, Closing
<1>3. target.slot \in Nat /\ target'.slot = target.slot + 1
  <2>1. target \in [slot : 0 .. CacheSlots, key : Keys \cup {0}]
    BY DEF MemoryInv, CacheTypes
  <2> QED BY <1>1, <2>1, TextureCacheAssumption
<1>4. ASSUME NEW s \in Slot, s < target'.slot PROVE ~slots'[s].used
  <2>1. s \in Nat
    BY TextureCacheAssumption DEF Slot
  <2>2. s < target.slot \/ s = target.slot
    BY <1>3, <1>4, <2>1
  <2> QED BY <1>1, <1>2, <1>3, <2>1, <2>2
<1> QED BY <1>1, <1>4 DEF TargetInv

LEMMA TargetStep == ASSUME MemoryInv, [Next]_vars PROVE TargetInv'
<1>0. TargetInv
  BY DEF MemoryInv
<1>1. CASE PublishStep
  BY <1>1, TargetIdle DEF PublishStep, HostBatchPush, HostBatch, HostCacheBatch, BatchPush,
     HostDraw, Draw, HostCacheBlend, CacheBlend, HostRawBatch, RawBatch, TargetPcs
<1>2. CASE FinishStep
  <2>1. Finish /\ UNCHANGED <<host_pc, target, latest, slots>>
    BY <1>2 DEF FinishStep, Finish
  <2>2. ASSUME host_pc = "cell", NEW i \in 1 .. Len(pending'), NEW read \in pending'[i].cells
        PROVE  read.slot # target.slot
    BY <1>0, <2>1, <2>2, Finishing DEF MemoryInv, TargetInv
  <2> QED BY <1>0, <2>1, <2>2 DEF TargetInv, Newest, Holds
<1>3. CASE CacheStep
  <2>1. CASE CacheCreated \/ CacheMapFails \/ UploadStore \/ CloseEnd \/ CloseFails
    BY <2>1, TargetIdle DEF CacheCreated, CreateSurface, CreationEnds, CacheMapFails,
       UploadStore, CloseEnd, CloseFails, TargetPcs
  <2>2. CASE CloseStart
    <3>1. target' = NoTarget /\ host_pc' = "cache_close"
      BY <2>2 DEF CloseStart
    <3>2. \A s \in Slot : ~(s < target'.slot)
      BY <3>1, TextureCacheAssumption DEF NoTarget, Slot
    <3> QED BY <3>1, <3>2 DEF TargetInv
  <2> QED BY <1>3, <2>1, <2>2, TargetStarted, TargetWaited, TargetClosed
        DEF CacheStep, CacheCall
<1>4. CASE QuietStep /\ ~CacheStep /\ UNCHANGED cache
  <2>1. UNCHANGED <<target, latest, slots, pending>>
    BY <1>4, QuietKeepsLink DEF LinkKept
  <2>2. host_pc' = host_pc \/ host_pc' \notin TargetPcs
    <3>1. CASE ArenaStep
      BY <3>1 DEF ArenaStep, ArenaCall, CollectReclaim, CollectSkip, CollectFails,
         CollectReturn, CreateSurface, CreationEnds, TransferWaited, TransferEnd,
         CollectStart, TargetPcs
    <3>2. CASE PoolStep \/ HostBatchStart
      BY <3>2 DEF PoolStep, PoolCall, FindTaken, FindBusy, FindFails, BatchUpload,
         BatchAbandoned, RawUpload, RawBatchRefused, HostBatchStart, BatchStart, TargetPcs
    <3>3. CASE (\E s \in OwnSurfaces : SurfaceStep(s)) \/ HostConfirm \/ UNCHANGED vars
      BY <3>3 DEF SurfaceStep, Destroy, TransferStart, HostConfirm, TargetPcs
    <3> QED BY <1>4, <3>1, <3>2, <3>3 DEF QuietStep
  <2> QED BY <1>0, <2>1, <2>2, TargetKept
<1>5. CASE QuietStep
  BY <1>3, <1>4, <1>5 DEF QuietStep, HostBatchStart
<1> QED BY <1>1, <1>2, <1>5, Steps
-----------------------------------------------------------------------------
(* Recency.                                                                *)

\* Two valid cells differ in age, and the younger one's key was used later.
OlderInv ==
    /\ older \subseteq Keys \X Keys /\ \A k \in Keys : <<k, k>> \notin older
    /\ \A s \in Slot : slots[s].valid => slots[s].age <= cache_age
    /\ \A r, s \in Slot : slots[r].valid /\ slots[s].valid /\ r # s =>
        /\ slots[r].age # slots[s].age
        /\ slots[r].age < slots[s].age <=> <<slots[r].key, slots[s].key>> \in older

\* A cell that is replaced is the oldest of a full cache.
Replacing == host_pc \in {"cell_wait", "cell"}
Oldest(v) ==
    \A r \in Slot : slots[r].valid /\ slots[v].age <= slots[r].age
VictimInv ==
    Replacing /\ slots[target.slot].valid /\ slots[target.slot].key # target.key =>
        Oldest(target.slot)

RecencyInv == OlderInv /\ VictimInv

\* The place of a key's last use, 0 if it is not used.
LEMMA LastUseType ==
    ASSUME NEW n \in Nat, NEW keys \in [1 .. n -> Keys], NEW key
    PROVE  /\ LastUse(keys, key) \in 0 .. n
           /\ LastUse(keys, key) > 0 => keys[LastUse(keys, key)] = key
           /\ \A i \in 1 .. n : keys[i] = key => i <= LastUse(keys, key)
<1> DEFINE places == {0} \cup {i \in DOMAIN keys : keys[i] = key}
<1>1. places \subseteq Nat /\ places # {} /\ \A i \in places : i <= n
  OBVIOUS
<1>2. Max(places) \in places /\ \A i \in places : i <= Max(places)
  BY <1>1, MaxType
<1>3. LastUse(keys, key) = Max(places)
  BY DEF LastUse
<1>4. Max(places) \in {0} \cup {i \in 1 .. n : keys[i] = key}
  BY <1>2
<1>5. \A i \in 1 .. n : keys[i] = key => i <= Max(places)
  BY <1>2
<1> HIDE DEF places
<1> QED BY <1>3, <1>4, <1>5

\* A draw's cells are ordered by the last uses of their keys.
LEMMA OlderDrawn == ASSUME MemoryInv, OlderInv, CellsDrawn, [Next]_vars PROVE OlderInv'
<1>0. last_fence' \in Fence
  BY LinkTypesStep DEF LinkTypes
<1>1. PICK n \in Nat : \E keys \in [1 .. n -> Keys] : Drawable(keys) /\ Touch(keys)
  BY DrawnCells
<1>2. PICK keys \in [1 .. n -> Keys] : Drawable(keys) /\ Touch(keys)
  BY <1>1
<1> DEFINE last(s) == LastUse(keys, slots[s].key)
<1>3. /\ older' = Used(keys, older) /\ CacheTypes /\ CellInv /\ cache_age \in Nat
      /\ last_fence' \in Fence
  BY <1>2, <1>0 DEF Touch, MemoryInv, CacheTypes
<1>4. \A s \in Slot : slots[s].age \in Nat
  BY <1>3, SlotType
<1>5. ASSUME NEW s \in Slot, slots[s].valid
      PROVE  /\ slots[s].key \in Keys /\ last(s) \in 0 .. n
             /\ slots'[s].age = IF last(s) = 0 THEN slots[s].age ELSE cache_age + last(s)
  <2>1. slots[s].key \in Keys
    BY <1>3, <1>5 DEF CellInv
  <2>2. \A i \in 1 .. n : FindKey(keys[i]) = s <=> keys[i] = slots[s].key
    BY <1>2, <1>3, <1>5, <2>1, FindKeyFinds DEF Holds, Drawable
  <2>3. /\ last(s) \in 0 .. n
        /\ last(s) > 0 => keys[last(s)] = slots[s].key
        /\ \A i \in 1 .. n : keys[i] = slots[s].key => i <= last(s)
    BY LastUseType
  <2> HIDE DEF last
  <2>4. CASE last(s) = 0
    <3>1. \A i \in 1 .. n : FindKey(keys[i]) # s
      BY <2>2, <2>3, <2>4
    <3>2. slots'[s].age = slots[s].age
      <4>1. (\A i \in 1 .. n : FindKey(keys[i]) # s) => slots'[s] = slots[s]
        BY <1>2, <1>3, Touching
      <4> QED BY <3>1, <4>1
    <3> QED BY <2>1, <2>3, <2>4, <3>2
  <2>5. CASE last(s) # 0
    <3>1. last(s) \in 1 .. n
      BY <2>3, <2>5
    <3>2. /\ FindKey(keys[last(s)]) = s
          /\ \A i \in 1 .. n : FindKey(keys[i]) = s => i <= last(s)
      BY <2>2, <2>3, <3>1
    <3>3. slots'[s].age = cache_age + last(s)
      BY <1>2, <1>3, <3>1, <3>2, Touching, SMTT(30)
    <3> QED BY <2>1, <2>3, <2>5, <3>3
  <2> QED BY <2>4, <2>5
<1>6. /\ cache_age' = cache_age + n
      /\ \A s \in Slot : slots'[s].key = slots[s].key /\ slots'[s].valid = slots[s].valid
  BY <1>2, <1>3, Touching
<1>7. ASSUME NEW p \in Keys \X Keys
      PROVE  p \in older' <=> \/ LastUse(keys, p[1]) < LastUse(keys, p[2])
                              \/ p \in older /\ LastUse(keys, p[1]) = LastUse(keys, p[2])
  BY <1>3 DEF Used
<1>8. older' \subseteq Keys \X Keys
  BY <1>3 DEF Used
<1>9. ASSUME NEW k \in Keys PROVE <<k, k>> \notin older'
  <2>1. LastUse(keys, k) \in Nat
    BY LastUseType
  <2> QED BY <1>7, <2>1 DEF OlderInv
<1>10. ASSUME NEW s \in Slot, slots'[s].valid PROVE slots'[s].age <= cache_age'
  <2>1. slots[s].valid /\ slots[s].age <= cache_age /\ slots[s].age \in Nat
    BY <1>4, <1>6, <1>10 DEF OlderInv
  <2> HIDE DEF last
  <2> QED BY <1>3, <1>5, <1>6, <2>1
<1>11. ASSUME NEW r \in Slot, NEW s \in Slot, slots'[r].valid, slots'[s].valid, r # s
       PROVE  /\ slots'[r].age # slots'[s].age
              /\ slots'[r].age < slots'[s].age <=> <<slots'[r].key, slots'[s].key>> \in older'
  <2>1. slots[r].valid /\ slots[s].valid
    BY <1>6, <1>11
  <2>2. /\ slots[r].key \in Keys /\ slots[s].key \in Keys /\ slots[r].key # slots[s].key
    BY <1>3, <1>11, <2>1 DEF CellInv
  <2>3. last(r) > 0 => last(r) # last(s)
    BY <2>2, LastUseType
  <2>4. <<slots[r].key, slots[s].key>> \in older' <=>
           \/ last(r) < last(s)
           \/ <<slots[r].key, slots[s].key>> \in older /\ last(r) = last(s)
    BY <1>7, <2>2
  <2>5. /\ slots[r].age <= cache_age /\ slots[s].age <= cache_age
        /\ slots[r].age # slots[s].age
        /\ slots[r].age < slots[s].age <=> <<slots[r].key, slots[s].key>> \in older
    BY <1>11, <2>1 DEF OlderInv
  <2>6. /\ last(r) \in 0 .. n /\ last(s) \in 0 .. n
        /\ slots'[r].age = IF last(r) = 0 THEN slots[r].age ELSE cache_age + last(r)
        /\ slots'[s].age = IF last(s) = 0 THEN slots[s].age ELSE cache_age + last(s)
    BY <1>5, <2>1
  <2>7. slots[r].age \in Nat /\ slots[s].age \in Nat
    BY <1>4
  <2> HIDE DEF last
  <2>8. /\ slots'[r].age # slots'[s].age
        /\ slots'[r].age < slots'[s].age <=>
             last(r) < last(s) \/ (slots[r].age < slots[s].age /\ last(r) = last(s))
    BY <1>3, <2>3, <2>5, <2>6, <2>7
  <2> QED BY <1>6, <2>4, <2>5, <2>8
<1> QED BY <1>8, <1>9, <1>10, <1>11 DEF OlderInv

LEMMA OlderStored == ASSUME MemoryInv, OlderInv, UploadStore PROVE OlderInv'
<1> DEFINE t == target.slot
           k == target.key
<1>1. t \in Slot /\ k \in Keys /\ \A r \in Slot : Holds(r, k) => r = t
  BY StoreType
<1>2. /\ \A s \in Slot \ {t} : slots'[s] = slots[s]
      /\ slots'[t].key = k /\ slots'[t].valid /\ slots'[t].age = cache_age + 1
  BY StoreSets
<1>3. cache_age' = cache_age + 1 /\ older' = Used(<<k>>, older) /\ cache_age \in Nat
  BY DEF UploadStore, MemoryInv, CacheTypes
<1>4. \A s \in Slot : slots[s].age \in Nat /\ (slots[s].valid => slots[s].key \in Keys)
  BY SlotType DEF MemoryInv, CellInv
<1>5. \A j \in Keys : LastUse(<<k>>, j) = IF j = k THEN 1 ELSE 0
  <2>1. <<k>> \in [1 .. 1 -> Keys] /\ <<k>>[1] = k /\ 1 \in Nat
    BY <1>1
  <2> SUFFICES ASSUME NEW j \in Keys PROVE LastUse(<<k>>, j) = IF j = k THEN 1 ELSE 0
    OBVIOUS
  <2>2. /\ LastUse(<<k>>, j) \in 0 .. 1
        /\ LastUse(<<k>>, j) > 0 => <<k>>[LastUse(<<k>>, j)] = j
        /\ k = j => 1 <= LastUse(<<k>>, j)
    <3>1. 1 \in 1 .. 1
      OBVIOUS
    <3> HIDE DEF k
    <3> QED BY <2>1, <3>1, LastUseType
  <2> HIDE DEF k
  <2>3. LastUse(<<k>>, j) = 0 \/ LastUse(<<k>>, j) = 1
    BY <2>2
  <2> QED BY <2>1, <2>2, <2>3
<1> HIDE DEF k, t
<1>6. \A i, j \in Keys : <<i, j>> \in older' <=>
         \/ i # k /\ j = k
         \/ <<i, j>> \in older /\ (i = k <=> j = k)
  BY <1>3, <1>5 DEF Used
<1>7. older' \subseteq Keys \X Keys /\ \A j \in Keys : <<j, j>> \notin older'
  BY <1>3, <1>6 DEF Used, OlderInv
<1>8. ASSUME NEW s \in Slot, slots'[s].valid PROVE slots'[s].age <= cache_age'
  BY <1>2, <1>3, <1>4, <1>8 DEF OlderInv
<1>9. ASSUME NEW r \in Slot, NEW s \in Slot, slots'[r].valid, slots'[s].valid, r # s
      PROVE  /\ slots'[r].age # slots'[s].age
             /\ slots'[r].age < slots'[s].age <=> <<slots'[r].key, slots'[s].key>> \in older'
  <2>1. ASSUME NEW q \in Slot \ {t}, slots'[q].valid
        PROVE  /\ slots'[q] = slots[q] /\ slots[q].valid /\ slots[q].key \in Keys \ {k}
               /\ slots[q].age \in Nat /\ slots[q].age <= cache_age
    <3>1. slots'[q] = slots[q] /\ slots[q].valid
      BY <1>2, <2>1
    <3> QED BY <1>1, <1>4, <3>1 DEF OlderInv, Holds
  <2>2. CASE r # t /\ s # t
    BY <1>6, <1>9, <2>1, <2>2 DEF OlderInv
  <2>3. CASE r = t
    <3>1. slots'[s].age < slots'[r].age
      BY <1>2, <1>3, <1>9, <2>1, <2>3
    <3>2. <<slots'[r].key, slots'[s].key>> \notin older'
      BY <1>1, <1>2, <1>6, <1>9, <2>1, <2>3
    <3>3. slots'[s].age \in Nat /\ slots'[r].age \in Nat
      BY <1>2, <1>3, <1>9, <2>1, <2>3
    <3> QED BY <3>1, <3>2, <3>3
  <2>4. CASE s = t
    <3>1. slots'[r].age < slots'[s].age
      BY <1>2, <1>3, <1>9, <2>1, <2>4
    <3>2. <<slots'[r].key, slots'[s].key>> \in older'
      BY <1>1, <1>2, <1>6, <1>9, <2>1, <2>4
    <3>3. slots'[s].age \in Nat /\ slots'[r].age \in Nat
      BY <1>2, <1>3, <1>9, <2>1, <2>4
    <3> QED BY <3>1, <3>2, <3>3
  <2> QED BY <2>2, <2>3, <2>4
<1> QED BY <1>7, <1>8, <1>9 DEF OlderInv

LEMMA OlderStep == ASSUME MemoryInv, OlderInv, [Next]_vars PROVE OlderInv'
<1>1. CASE CellsKept
  BY <1>1 DEF CellsKept, OlderInv
<1>2. CASE CellsCleared
  BY <1>2 DEF CellsCleared, OlderInv, EmptySlot
<1>3. CASE CloseSlot
  <2>1. \A s \in Slot : /\ slots'[s].key = slots[s].key /\ slots'[s].valid = slots[s].valid
                        /\ slots'[s].age = slots[s].age
    BY <1>3, CloseSlotKeeps
  <2>2. UNCHANGED <<cache_age, older>>
    BY <1>3, CloseSlotKeeps
  <2> QED BY <2>1, <2>2 DEF OlderInv
<1> QED BY <1>1, <1>2, <1>3, OlderStored, OlderDrawn, CacheSteps

LEMMA VictimStep == ASSUME MemoryInv, OlderInv, VictimInv, [Next]_vars PROVE VictimInv'
<1>1. CASE host_pc' \notin {"cell_wait", "cell"}
  BY <1>1 DEF VictimInv, Replacing
<1>2. CASE Replacing /\ UNCHANGED <<target, slots>>
  BY <1>2 DEF VictimInv, Oldest
<1>3. CASE \E key \in Keys : UploadStart(key)
  <2>1. PICK key \in Keys : UploadStart(key)
    BY <1>3
  <2> DEFINE s == IF Cached(key) THEN FindKey(key) ELSE ChooseSlot
  <2>2. target' = [slot |-> s, key |-> key] /\ UNCHANGED slots /\ atlas # 0
    BY <2>1 DEF UploadStart
  <2>3. CacheSlots > 0 /\ CacheTypes /\ CellInv
    BY <2>2 DEF MemoryInv, AtlasInv
  <2>4. CASE Cached(key)
    BY <2>2, <2>3, <2>4, FindKeyFinds DEF VictimInv, Holds
  <2>5. CASE ~Cached(key)
    <3>1. target'.slot = ChooseSlot
      BY <2>2, <2>5
    <3> QED BY <2>2, <2>3, <3>1, ChooseSlotType DEF VictimInv, Oldest
  <2> QED BY <2>4, <2>5
<1>4. CASE PublishStep
  BY <1>1, <1>4 DEF PublishStep, HostBatchPush, HostBatch, HostCacheBatch, BatchPush,
     HostDraw, Draw, HostCacheBlend, CacheBlend, HostRawBatch, RawBatch
<1>5. CASE FinishStep
  BY <1>1, <1>2, <1>5 DEF FinishStep, Finish, Replacing
<1>6. CASE CacheStep
  <2>1. CASE CacheCreated \/ CacheMapFails \/ UploadStore \/ CloseEnd \/ CloseFails \/ CloseStart
    BY <1>1, <2>1 DEF CacheCreated, CreateSurface, CreationEnds, CacheMapFails,
       UploadStore, CloseEnd, CloseFails, CloseStart
  <2>2. CASE CloseSlot
    BY <1>1, <2>2, CloseSlotKeeps
  <2>3. CASE UploadWaited
    BY <1>2, <2>3 DEF UploadWaited, Replacing
  <2> QED BY <1>3, <1>6, <2>1, <2>2, <2>3 DEF CacheStep, CacheCall
<1>7. CASE QuietStep /\ ~CacheStep /\ UNCHANGED cache
  <2>1. CASE ArenaStep
    <3>1. host_pc' = host_pc \/ host_pc' \notin {"cell_wait", "cell"}
      BY <2>1 DEF ArenaStep, ArenaCall, CollectReclaim, CollectSkip, CollectFails,
         CollectReturn, CreateSurface, CreationEnds, TransferWaited, TransferEnd, CollectStart
    <3> QED BY <1>1, <1>2, <1>7, <3>1 DEF Replacing
  <2>2. CASE PoolStep \/ HostBatchStart
    BY <1>1, <1>2, <1>7, <2>2 DEF PoolStep, PoolCall, FindTaken, FindBusy, FindFails,
       BatchUpload, BatchAbandoned, RawUpload, RawBatchRefused, HostBatchStart, BatchStart,
       Replacing
  <2>3. CASE (\E s \in OwnSurfaces : SurfaceStep(s)) \/ HostConfirm \/ UNCHANGED vars
    BY <1>1, <1>2, <1>7, <2>3 DEF SurfaceStep, Destroy, TransferStart, HostConfirm, Replacing
  <2> QED BY <1>7, <2>1, <2>2, <2>3 DEF QuietStep
<1>8. CASE QuietStep
  BY <1>6, <1>7, <1>8 DEF QuietStep, HostBatchStart
<1> QED BY <1>4, <1>5, <1>8, Steps
-----------------------------------------------------------------------------
(* The invariant.                                                          *)

LEMMA MemoryInit == ASSUME Init PROVE MemoryInv
<1> USE DEF Init, LinkInit, PoolInit, ArenaInit, CacheInit
<1>0. /\ ArenaPages \in Nat /\ ArenaPages > 0 /\ MaxSurfaces \in Nat /\ CacheSlots \in Nat
      /\ MaxUploads \in Nat /\ Baseline \in Fence /\ 0 \in Fence
      /\ Tables \in Nat /\ Tables > 0
  BY SurfaceArenaAssumption, TextureCacheAssumption, FencePollsAssumption, FenceConstants,
     DescriptorPoolAssumption
<1>1. LinkTypes
  BY <1>0 DEF LinkTypes
<1>2. PoolTypes
  BY <1>0 DEF PoolTypes, Table
<1>3. ArenaTypes
  BY <1>0 DEF ArenaTypes, Extent, Page
<1>4. CacheTypes
  <2>1. EmptySlot \in [key : Keys \cup {0}, age : Nat, last_fence : Fence,
                       valid : BOOLEAN, used : BOOLEAN]
    BY <1>0 DEF EmptySlot
  <2>2. NoTarget \in [slot : 0 .. CacheSlots, key : Keys \cup {0}]
    BY <1>0 DEF NoTarget
  <2>3. 0 \in 0 .. MaxUploads /\ 0 \in 0 .. MaxSurfaces
    BY <1>0
  <2> QED BY <1>0, <2>1, <2>2, <2>3 DEF CacheTypes
<1>5. LinkInv
  <2>1. CountFrom(Baseline, Baseline) = 0
    BY <1>0, FenceConstants DEF CountFrom
  <2> QED BY <2>1, FenceConstants DEF LinkInv
<1>6. Retired = {} /\ Kept = {}
  BY DEF Kept, Retired
<1>7. PartitionInv
  <2> DEFINE e == [address |-> 0, size |-> ArenaPages]
  <2>1. /\ surface_free \cup Kept = {e} /\ e.address = 0 /\ e.size = ArenaPages
        /\ surface_free = {e}
    BY <1>6
  <2> HIDE DEF e
  <2>2. \A page \in Page : page \in Pages(e)
    BY <1>0, <2>1 DEF Pages, Page
  <2>3. Partitions({e})
    BY <1>0, <2>1, <2>2 DEF Partitions
  <2>4. \A d, f \in surface_free : d.address + d.size # f.address
    BY <1>0, <2>1
  <2> QED BY <2>1, <2>3, <2>4 DEF PartitionInv
<1>8. NameInv /\ CollectInv /\ TableInv
  BY <1>6 DEF NameInv, CollectInv, TableInv, TablesHeld
<1>9. AtlasInv /\ UseInv /\ ReadInv /\ TargetInv
  BY DEF AtlasInv, UseInv, ReadInv, TargetInv
<1>10. CellInv
  BY DEF CellInv, EmptySlot
<1> QED BY <1>1, <1>2, <1>3, <1>4, <1>5, <1>7, <1>8, <1>9, <1>10 DEF MemoryInv

LEMMA MemoryStep == ASSUME MemoryInv, [Next]_vars PROVE MemoryInv'
BY LinkTypesStep, PoolTypesStep, ArenaTypesStep, CacheTypesStep, LinkStep, TableStep,
   PartitionStep, NameStep, CollectStep, AtlasStep, UseStep, CellStep, ReadStep, TargetStep
   DEF MemoryInv

\* The inductive invariant holds.
THEOREM MemoryCorrect == Spec => []MemoryInv
BY MemoryInit, MemoryStep, PTL DEF Spec

LEMMA RecencyInit == ASSUME Init PROVE RecencyInv
BY DEF Init, LinkInit, CacheInit, EmptySlot, RecencyInv, OlderInv, VictimInv, Replacing

\* Of two cached keys the one used later has the younger cell, however lookups,
\* batches and uploads have aged them; a cell that is waited for or rewritten
\* under another key is the oldest.
THEOREM RecencyCorrect == Spec => []RecencyInv
<1>1. MemoryInv /\ RecencyInv /\ [Next]_vars => RecencyInv'
  BY OlderStep, VictimStep DEF RecencyInv
<1> QED BY RecencyInit, <1>1, MemoryCorrect, PTL DEF Spec

\* Every variable of the link, the pool, the arena and the cache keeps its
\* type: in particular no extent of the free list is empty or leaves the arena
\* (allocate_extent, insert_extent), and no cell is stored past the cache.
THEOREM TypeCorrect == Spec => []TypeOK
<1>1. MemoryInv /\ RecencyInv => TypeOK
  BY DEF MemoryInv, RecencyInv, OlderInv, TypeOK, StateTypes
<1> QED BY <1>1, MemoryCorrect, RecencyCorrect, PTL

\* A key leaves the cache only for an upload into a full cache, and only if
\* every other cached key was used after it (choose_slot,
\* noodles_texture_cache_upload).
THEOREM LeastRecentEvicted == Spec => EvictsLeastRecent
<1> DEFINE Step == \A key \in Keys : Cached(key) /\ ~Cached(key)' /\ atlas' = atlas =>
        /\ \A s \in Slot : slots[s].valid
        /\ \A k \in Keys : Cached(k) /\ k # key => <<key, k>> \in older
<1>1. ASSUME MemoryInv, RecencyInv, [Next]_vars PROVE Step
  <2> SUFFICES ASSUME NEW key \in Keys, Cached(key), ~Cached(key)', atlas' = atlas
               PROVE  /\ \A s \in Slot : slots[s].valid
                      /\ \A k \in Keys : Cached(k) /\ k # key => <<key, k>> \in older
    OBVIOUS
  <2>1. PICK v \in Slot : Holds(v, key)
    BY DEF Cached
  <2>2. ~(slots'[v].valid /\ slots'[v].key = key)
    BY <2>1 DEF Cached, Holds
  <2>3. UploadStore
    <3>1. ~CellsKept
      BY <2>1, <2>2 DEF CellsKept, Holds
    <3>2. ~CacheCreated
      BY <1>1 DEF CacheCreated, MemoryInv, ArenaTypes
    <3>3. ~CloseEnd
      BY <1>1 DEF CloseEnd, MemoryInv, AtlasInv
    <3>4. ~CloseSlot
      BY <1>1, <2>1, <2>2, CloseSlotKeeps DEF Holds
    <3>5. ~CellsDrawn
      <4> SUFFICES ASSUME CellsDrawn PROVE FALSE
        OBVIOUS
      <4>1. PICK n \in Nat : \E keys \in [1 .. n -> Keys] : Drawable(keys) /\ Touch(keys)
        BY <1>1, DrawnCells
      <4>2. last_fence' \in Fence
        BY <1>1, LinkTypesStep DEF LinkTypes
      <4> QED BY <1>1, <2>1, <2>2, <4>1, <4>2, Touching DEF MemoryInv, Holds
    <3> QED BY <1>1, <3>1, <3>2, <3>3, <3>4, <3>5, CacheSteps
  <2>4. v = target.slot /\ key # target.key /\ host_pc = "cell"
    BY <1>1, <2>1, <2>2, <2>3, StoreSets DEF UploadStore, Holds
  <2>5. Oldest(v)
    BY <1>1, <2>1, <2>4 DEF RecencyInv, VictimInv, Replacing, Holds
  <2>6. ASSUME NEW k \in Keys, Cached(k), k # key PROVE <<key, k>> \in older
    <3>1. PICK r \in Slot : Holds(r, k)
      BY <2>6 DEF Cached
    <3>2. /\ r # v /\ slots[r].valid /\ slots[v].valid
          /\ slots[v].key = key /\ slots[r].key = k
      BY <2>1, <2>6, <3>1 DEF Holds
    <3>3. slots[v].age <= slots[r].age /\ slots[v].age \in Nat /\ slots[r].age \in Nat
      BY <1>1, <2>5, SlotType DEF Oldest, MemoryInv
    <3>4. slots[v].age # slots[r].age
      BY <1>1, <3>2 DEF RecencyInv, OlderInv
    <3>5. slots[v].age < slots[r].age
      BY <3>3, <3>4
    <3> QED BY <1>1, <3>2, <3>5 DEF RecencyInv, OlderInv
  <2> QED BY <2>5, <2>6 DEF Oldest
<1>2. MemoryInv /\ RecencyInv /\ [Next]_vars => [Step]_<<atlas, slots>>
  BY <1>1
<1> QED BY <1>2, MemoryCorrect, RecencyCorrect, PTL DEF Spec, EvictsLeastRecent

\* A table keeps the descriptors its batch was published with until the batch
\* has finished (descriptor_available, find_descriptor_table).
THEOREM TablesSafe == Spec => []TableIntact
<1>1. MemoryInv => TableIntact
  BY DEF MemoryInv, TableInv, TablesHeld, TableIntact
<1> QED BY <1>1, MemoryCorrect, PTL

\* Every page of the arena has one owner and free extents that touch are one,
\* whatever is created, destroyed, collected or refused (insert_extent,
\* allocate_extent, noodles_surface_collect).
THEOREM ArenaPartitioned == Spec => []ArenaPartition
<1>1. ASSUME MemoryInv, NEW page \in Page PROVE Cardinality(Owners(page)) = 1
  <2>1. PICK e \in surface_free \cup Kept :
           page \in Pages(e) /\ \A f \in surface_free \cup Kept : page \in Pages(f) => f = e
    BY <1>1 DEF MemoryInv, PartitionInv, Partitions
  <2>2. Owners(page) = {e}
    BY <2>1 DEF Owners, Kept
  <2> QED BY <2>2, FS_Singleton
<1>2. MemoryInv => ArenaPartition
  BY <1>1 DEF MemoryInv, PartitionInv, ArenaPartition
<1> QED BY <1>2, MemoryCorrect, PTL

\* The surfaces that a published command reads or writes keep their pages until
\* it has finished, destroyed or not (mark_used, collect).
THEOREM UsesKept == Spec => []InUseKept
<1>1. ASSUME MemoryInv PROVE InUseKept
  <2> SUFFICES ASSUME NEW i \in 1 .. Len(pending), NEW id \in pending[i].surfaces
               PROVE  id \in Ids(surfaces \cup Retired)
    BY DEF InUseKept
  <2>1. CASE id = atlas
    <3>1. PICK s \in surfaces : s.id = id
      BY <1>1, <2>1, UseType DEF MemoryInv, AtlasInv
    <3> QED BY <3>1 DEF Ids
  <2>2. CASE id # atlas
    <3>1. PICK s \in Kept : s.id = id
      BY <1>1, <2>2, UseType
    <3> QED BY <3>1 DEF Ids, Kept
  <2> QED BY <2>1, <2>2
<1> QED BY <1>1, MemoryCorrect, PTL

\* The CPU copies rows of a surface only when no published command uses it
\* (wait_for_cpu).
THEOREM CpuExclusive == Spec => []CpuAccessExclusive
<1>1. ASSUME MemoryInv PROVE CpuAccessExclusive
  <2> SUFFICES ASSUME host_pc = "cpu", NEW i \in 1 .. Len(pending),
                      accessed \in pending[i].surfaces
               PROVE  FALSE
    BY DEF CpuAccessExclusive
  <2>1. PICK s \in surfaces : s.id = accessed /\ ~s.used /\ accessed # atlas
    BY <1>1 DEF MemoryInv, AtlasInv
  <2>2. PICK r \in Kept : r.id = accessed /\ r.used
    BY <1>1, <2>1, UseType
  <2>3. r = s
    BY <1>1, <2>1, <2>2 DEF MemoryInv, NameInv, Kept
  <2> QED BY <2>1, <2>2, <2>3
<1> QED BY <1>1, MemoryCorrect, PTL

\* A published draw finds in each cell the pixels that were uploaded last under
\* the key it drew (noodles_texture_cache_upload, mark_slots_used).
THEOREM CellsSafe == Spec => []CellsIntact
<1>1. MemoryInv => CellsIntact
  BY DEF MemoryInv, ReadInv, CellsIntact
<1> QED BY <1>1, MemoryCorrect, PTL
-----------------------------------------------------------------------------
(* What has finished is seen to have finished, by an application whose      *)
(* fences do not grow half a range old.                                     *)

\* A kept fence is that of the newest pending command that uses what keeps it,
\* if one does, and is never older than what the application lets it become.
TablesSeen ==
    /\ \A t \in batch_pending :
        /\ CountFrom(batch_fence[t], last_fence) <= MaxFenceAge
        /\ CountFrom(batch_fence[t], last_fence) < Len(pending) =>
             pending[Len(pending) - CountFrom(batch_fence[t], last_fence)].table = t
    /\ host_pc \in BatchPcs => TablesYoung(MaxFenceAge)

SurfacesSeen ==
    /\ \A s \in Kept : s.used =>
        /\ CountFrom(s.last_fence, last_fence) <= MaxFenceAge
        /\ CountFrom(s.last_fence, last_fence) < Len(pending) =>
             s.id \in pending[Len(pending) - CountFrom(s.last_fence, last_fence)].surfaces
    /\ host_pc \in BatchPcs => FencesYoung(MaxFenceAge)

\* The command that recorded a fence stays in its place behind the newest.
LEMMA AgePublished ==
    ASSUME LinkTypes, LinkInv, MaxFenceAge < HalfRange, NEW c \in Commands, Publish(c)
    PROVE  /\ \A f \in Fence : CountFrom(f, last_fence) < MaxFenceAge =>
                /\ CountFrom(f, last_fence') <= MaxFenceAge
                /\ CountFrom(f, last_fence') < Len(pending') =>
                     /\ CountFrom(f, last_fence) < Len(pending)
                     /\ pending'[Len(pending') - CountFrom(f, last_fence')]
                          = pending[Len(pending) - CountFrom(f, last_fence)]
           /\ last_fence' \in Fence /\ CountFrom(last_fence', last_fence') <= MaxFenceAge
           /\ pending'[Len(pending') - CountFrom(last_fence', last_fence')] = c
<1>1. /\ Len(pending') = Len(pending) + 1 /\ pending'[Len(pending) + 1] = c
      /\ \A i \in 1 .. Len(pending) : pending'[i] = pending[i]
      /\ Len(pending) \in Nat /\ last_fence' = NextFence(last_fence)
  BY Publishing, PendingType
<1>2. last_fence' \in Fence /\ CountFrom(last_fence', last_fence') = 0
  BY <1>1, CountNext, PendingType
<1>3. MaxFenceAge \in Nat /\ MaxFenceAge < FenceMod /\ FenceMod \in Nat
  BY HostMemoryAssumption, FenceConstants
<1>4. ASSUME NEW f \in Fence, CountFrom(f, last_fence) < MaxFenceAge
      PROVE  /\ CountFrom(f, last_fence') <= MaxFenceAge
             /\ CountFrom(f, last_fence') < Len(pending') =>
                  /\ CountFrom(f, last_fence) < Len(pending)
                  /\ pending'[Len(pending') - CountFrom(f, last_fence')]
                       = pending[Len(pending) - CountFrom(f, last_fence)]
  <2>1. CountFrom(f, last_fence) \in Nat
    BY PendingType, CountType
  <2>2. CountFrom(f, last_fence) < FenceMod - 1
    BY <1>3, <1>4, <2>1
  <2>3. CountFrom(f, last_fence') = CountFrom(f, last_fence) + 1
    BY <1>1, <2>2, CountNext, PendingType
  <2>4. Len(pending') - CountFrom(f, last_fence') = Len(pending) - CountFrom(f, last_fence)
    BY <1>1, <2>1, <2>3
  <2>5. CountFrom(f, last_fence) < Len(pending) =>
          Len(pending) - CountFrom(f, last_fence) \in 1 .. Len(pending)
    BY <1>1, <2>1
  <2> QED BY <1>1, <1>3, <1>4, <2>1, <2>3, <2>4, <2>5
<1> QED BY <1>1, <1>2, <1>3, <1>4

LEMMA AgeFinished ==
    ASSUME LinkTypes, Finish
    PROVE  \A f \in Fence :
             /\ CountFrom(f, last_fence') = CountFrom(f, last_fence)
             /\ CountFrom(f, last_fence') < Len(pending') =>
                  /\ CountFrom(f, last_fence) < Len(pending)
                  /\ pending'[Len(pending') - CountFrom(f, last_fence')]
                       = pending[Len(pending) - CountFrom(f, last_fence)]
<1>1. /\ Len(pending') = Len(pending) - 1 /\ last_fence' = last_fence
      /\ \A i \in 1 .. Len(pending') : pending'[i] = pending[i + 1]
      /\ Len(pending) \in Nat
  BY Finishing, PendingType DEF Finish
<1> SUFFICES ASSUME NEW f \in Fence, CountFrom(f, last_fence) < Len(pending')
             PROVE  /\ CountFrom(f, last_fence) < Len(pending)
                    /\ pending'[Len(pending') - CountFrom(f, last_fence)]
                         = pending[Len(pending) - CountFrom(f, last_fence)]
  BY <1>1
<1>2. CountFrom(f, last_fence) \in Nat
  BY PendingType, CountType
<1>3. /\ Len(pending') - CountFrom(f, last_fence) \in 1 .. Len(pending')
      /\ (Len(pending') - CountFrom(f, last_fence)) + 1
           = Len(pending) - CountFrom(f, last_fence)
  BY <1>1, <1>2
<1> QED BY <1>1, <1>2, <1>3

\* A fence that is older than what is pending, and young, polls complete.
LEMMA OldEnoughIsSeen ==
    ASSUME LinkTypes, LinkInv, MaxFenceAge < HalfRange, NEW f \in Fence,
           CountFrom(f, last_fence) <= MaxFenceAge,
           ~(CountFrom(f, last_fence) < Len(pending))
    PROVE  Reached(Done, f)
<1>1. /\ CountFrom(f, last_fence) \in Nat /\ Len(pending) \in Nat
      /\ CountFrom(Done, last_fence) = Len(pending) /\ Done \in Fence
      /\ last_fence \in Fence
  BY CountType, PendingType, DoneAge
<1>2. CountFrom(f, last_fence) < HalfRange + CountFrom(Done, last_fence)
  BY <1>1, HostMemoryAssumption, FenceConstants
<1>3. CountFrom(Done, last_fence) <= CountFrom(f, last_fence)
  BY <1>1
<1> QED BY <1>1, <1>2, <1>3, YoungEnoughToReach

\* Only a batch that starts, with young fences, starts a search.
LEMMA BatchingPc ==
    ASSUME QuietStep, host_pc' \in BatchPcs
    PROVE  host_pc \in BatchPcs \/ HostBatchStart
<1>1. CASE PoolStep
  BY <1>1 DEF PoolStep, PoolCall, FindTaken, FindBusy, FindFails, BatchUpload,
     BatchAbandoned, RawUpload, RawBatchRefused, BatchPcs
<1> QED BY <1>1, QuietPoolSteps, OtherPc

LEMMA PublishPc == ASSUME PublishStep PROVE host_pc' \notin BatchPcs
BY DEF PublishStep, HostBatchPush, HostBatch, HostCacheBatch, BatchPush, HostDraw, Draw,
   HostCacheBlend, CacheBlend, HostRawBatch, RawBatch, BatchPcs

LEMMA QuietTables ==
    ASSUME QuietStep PROVE batch_pending' \subseteq batch_pending /\ UNCHANGED batch_fence
<1>1. CASE PoolStep
  BY <1>1 DEF PoolStep, PoolCall, FindTaken, FindBusy, FindFails, BatchUpload,
     BatchAbandoned, RawUpload, RawBatchRefused, Available, Busy
<1>2. CASE HostBatchStart
  BY <1>2 DEF HostBatchStart, BatchStart
<1> QED BY <1>1, <1>2, QuietPoolSteps

LEMMA TableAge ==
    ASSUME MemoryInv, NEW t \in batch_pending PROVE batch_fence[t] \in Fence /\ t \in Table
BY DEF MemoryInv, PoolTypes

LEMMA TablesSeenPublished ==
    ASSUME MemoryInv, MaxFenceAge < HalfRange, TablesSeen, TablesYoung(MaxFenceAge),
           NEW c \in Commands, Publish(c), host_pc' \notin BatchPcs,
           \/ UNCHANGED <<batch_pending, batch_fence>>
           \/ c.table \in Table /\ Claim(c.table, batch_pending)
    PROVE  TablesSeen'
<1>1. last_fence' \in Fence
  BY PendingPublished DEF MemoryInv
<1> SUFFICES ASSUME NEW t \in batch_pending'
             PROVE  /\ CountFrom(batch_fence'[t], last_fence') <= MaxFenceAge
                    /\ CountFrom(batch_fence'[t], last_fence') < Len(pending') =>
                         pending'[Len(pending')
                                   - CountFrom(batch_fence'[t], last_fence')].table = t
  BY DEF TablesSeen
<1>2. CASE t \in batch_pending /\ batch_fence'[t] = batch_fence[t]
  <2>1. batch_fence[t] \in Fence /\ t \in Table /\ CountFrom(batch_fence[t], last_fence) < MaxFenceAge
    BY <1>2, TableAge DEF TablesYoung
  <2>2. CASE CountFrom(batch_fence[t], last_fence) < Len(pending)
    <3>1. pending[Len(pending) - CountFrom(batch_fence[t], last_fence)].table = t
      BY <1>2, <2>2 DEF TablesSeen
    <3> QED BY <1>2, <2>1, <3>1, AgePublished DEF MemoryInv
  <2> QED BY <1>2, <2>1, <2>2, AgePublished DEF MemoryInv
<1>3. CASE t = c.table /\ batch_fence'[t] = last_fence'
  BY <1>1, <1>3, AgePublished DEF MemoryInv
<1>4. \/ t \in batch_pending /\ batch_fence'[t] = batch_fence[t]
      \/ t = c.table /\ batch_fence'[t] = last_fence'
  <2>1. CASE c.table \in Table /\ Claim(c.table, batch_pending)
    BY <1>1, <2>1, ClaimType, TableAge DEF MemoryInv
  <2> QED BY <2>1
<1> QED BY <1>2, <1>3, <1>4

LEMMA TablesSeenStep ==
    ASSUME MemoryInv, TablesSeen, MaxFenceAge < HalfRange, [Next]_vars
    PROVE  TablesSeen'
<1>1. CASE QuietStep
  <2>1. /\ UNCHANGED <<pending, last_fence, batch_fence>> /\ batch_pending' \subseteq batch_pending
    BY <1>1, QuietKeepsLink, QuietTables DEF LinkKept
  <2>2. ASSUME host_pc' \in BatchPcs PROVE TablesYoung(MaxFenceAge)
    BY <1>1, <2>2, BatchingPc DEF TablesSeen, HostBatchStart, KeptFencesYoung
  <2> QED BY <2>1, <2>2 DEF TablesSeen, TablesYoung
<1>2. CASE FinishStep
  <2>1. Finish /\ UNCHANGED <<batch_pending, batch_fence, host_pc, last_fence>>
    BY <1>2 DEF FinishStep, Finish
  <2>2. ASSUME NEW t \in batch_pending
        PROVE  /\ CountFrom(batch_fence[t], last_fence) <= MaxFenceAge
               /\ CountFrom(batch_fence[t], last_fence) < Len(pending') =>
                    pending'[Len(pending')
                              - CountFrom(batch_fence[t], last_fence)].table = t
    BY <2>1, TableAge, AgeFinished DEF MemoryInv, TablesSeen
  <2> QED BY <2>1, <2>2 DEF TablesSeen, TablesYoung
<1>3. CASE PublishStep
  <2>0. host_pc' \notin BatchPcs
    BY <1>3, PublishPc
  <2>1. CASE \E S \in SUBSET OwnSurfaces : HostDraw(S)
    BY <2>0, <2>1, DrawCommand, TablesSeenPublished DEF HostDraw, KeptFencesYoung
  <2>2. CASE \E key \in Keys : HostCacheBlend(key)
    BY <2>0, <2>2, BlendCommand, TablesSeenPublished DEF HostCacheBlend, KeptFencesYoung
  <2>3. CASE \E t \in Table : HostRawBatch(t)
    <3>1. PICK t \in Table : HostRawBatch(t)
      BY <2>3
    <3>2. TablesYoung(MaxFenceAge) /\ Claim(t, batch_pending)
      BY <3>1 DEF HostRawBatch, RawBatch, KeptFencesYoung
    <3>3. PICK c \in Commands : Publish(c) /\ c.table = t
      BY <3>1, RawCommand
    <3> QED BY <2>0, <3>1, <3>2, <3>3, TablesSeenPublished
  <2>4. ASSUME host_pc = "push" PROVE TablesYoung(MaxFenceAge)
    BY <2>4 DEF TablesSeen, BatchPcs
  <2>5. CASE \E S \in SUBSET OwnSurfaces : HostBatch(S)
    <3>1. PICK S \in SUBSET OwnSurfaces : HostBatch(S)
      BY <2>5
    <3>2. TablesYoung(MaxFenceAge) /\ Claim(table, batch_pending)
      BY <2>4, <3>1 DEF HostBatch, BatchPush
    <3>3. PICK c \in Commands : Publish(c) /\ c.table = table /\ table \in Table
      BY <3>1, BatchCommand
    <3> QED BY <2>0, <3>2, <3>3, TablesSeenPublished
  <2>6. CASE \E n \in 1 .. MaxDraws : \E keys \in [1 .. n -> Keys] : HostCacheBatch(keys)
    <3>0. PICK n \in 1 .. MaxDraws : \E keys \in [1 .. n -> Keys] : HostCacheBatch(keys)
      BY <2>6
    <3>1. PICK keys \in [1 .. n -> Keys] : HostCacheBatch(keys)
      BY <3>0
    <3>2. TablesYoung(MaxFenceAge) /\ Claim(table, batch_pending)
      BY <2>4, <3>1 DEF HostCacheBatch, BatchPush
    <3>3. PICK c \in Commands : Publish(c) /\ c.table = table /\ table \in Table
      BY <3>1, CacheBatchCommand
    <3> QED BY <2>0, <3>2, <3>3, TablesSeenPublished
  <2> QED BY <1>3, <2>1, <2>2, <2>3, <2>5, <2>6 DEF PublishStep, HostBatchPush
<1> QED BY <1>1, <1>2, <1>3, Steps

\* What a quiet step adds to the surfaces is not in use.
LEMMA QuietUses ==
    ASSUME MemoryInv, QuietStep, [Next]_vars
    PROVE  \A s \in Kept' : s.used => s \in Kept
<1>1. ASSUME UNCHANGED <<surfaces, retired>> PROVE Kept' = Kept
  BY <1>1 DEF Kept, Retired
<1>2. ASSUME Creating PROVE \A s \in Kept' : s.used => s \in Kept
  BY <1>2, CreatingType
<1>3. ASSUME NEW s \in surfaces, Retire(s) PROVE Kept' = Kept
  BY <1>3, DestroyingKeeps
<1>4. ASSUME NEW s \in surfaces, TransferWaited(s)
      PROVE  \A r \in Kept' : r.used => r \in Kept
  <2>1. PICK r \in Surface : Relabels({s}, {r}) /\ ~r.used /\ UNCHANGED retired
    BY <1>4, Waiting
  <2>2. Kept' = (Kept \ {s}) \cup {r}
    BY <2>1, RecordingKeeps
  <2> QED BY <2>1, <2>2
<1>5. CASE ArenaStep
  <2>1. CASE CollectReclaim
    BY <2>1, Reclaiming
  <2>2. CASE CreateSurface
    BY <1>2, <2>2 DEF CreateSurface, Creating
  <2>3. CASE CollectSkip \/ CollectFails \/ CollectReturn \/ TransferEnd
             \/ \E size \in 0 .. ArenaPages : CollectStart(size)
    BY <1>1, <2>3 DEF CollectSkip, CollectFails, CollectReturn, TransferEnd, CollectStart
  <2> QED BY <1>4, <1>5, <2>1, <2>2, <2>3 DEF ArenaStep, ArenaCall
<1>6. CASE CacheStep
  <2>1. CASE CacheCreated \/ CacheMapFails
    BY <1>2, <2>1 DEF CacheCreated, CacheMapFails, CreateSurface, CreationEnds, Creating
  <2>2. CASE CloseEnd
    BY <1>3, <2>2 DEF CloseEnd
  <2>3. CASE UploadWaited \/ UploadStore \/ CloseSlot \/ CloseFails \/ CloseStart
             \/ \E key \in Keys : UploadStart(key)
    BY <1>1, <2>3 DEF UploadWaited, UploadStore, CloseSlot, CloseFails, CloseStart,
       UploadStart
  <2> QED BY <1>6, <2>1, <2>2, <2>3 DEF CacheStep, CacheCall
<1>7. CASE \E s \in OwnSurfaces : SurfaceStep(s)
  <2>1. CASE \E s \in OwnSurfaces : Destroy(s)
    BY <1>3, <2>1 DEF Destroy, OwnSurfaces
  <2>2. CASE \E s \in OwnSurfaces : TransferStart(s)
    BY <1>1, <2>2 DEF TransferStart
  <2> QED BY <1>7, <2>1, <2>2 DEF SurfaceStep
<1>8. CASE UNCHANGED arena \/ HostBatchStart
  BY <1>1, <1>8 DEF HostBatchStart
<1> QED BY <1>5, <1>6, <1>7, <1>8 DEF QuietStep

LEMMA SurfacesSeenPublished ==
    ASSUME MemoryInv, MaxFenceAge < HalfRange, SurfacesSeen, FencesYoung(MaxFenceAge),
           NEW c \in Commands, Publish(c), host_pc' \notin BatchPcs,
           \A s \in Kept' : s.used =>
             s \in Kept \/ (s.last_fence = last_fence' /\ s.id \in c.surfaces)
    PROVE  SurfacesSeen'
<1>1. last_fence' \in Fence
  BY PendingPublished DEF MemoryInv
<1> SUFFICES ASSUME NEW s \in Kept', s.used
             PROVE  /\ CountFrom(s.last_fence, last_fence') <= MaxFenceAge
                    /\ CountFrom(s.last_fence, last_fence') < Len(pending') =>
                         s.id \in pending'[Len(pending')
                                   - CountFrom(s.last_fence, last_fence')].surfaces
  BY DEF SurfacesSeen
<1>2. CASE s \in Kept
  <2>1. s.last_fence \in Fence /\ CountFrom(s.last_fence, last_fence) < MaxFenceAge
    BY <1>2, KeptType DEF FencesYoung, MemoryInv, Kept
  <2>2. CASE CountFrom(s.last_fence, last_fence) < Len(pending)
    <3>1. s.id \in pending[Len(pending) - CountFrom(s.last_fence, last_fence)].surfaces
      BY <1>2, <2>2 DEF SurfacesSeen
    <3> QED BY <2>1, <3>1, AgePublished DEF MemoryInv
  <2> QED BY <2>1, <2>2, AgePublished DEF MemoryInv
<1>3. CASE s.last_fence = last_fence' /\ s.id \in c.surfaces
  BY <1>1, <1>3, AgePublished DEF MemoryInv
<1> QED BY <1>2, <1>3

\* mark_used gives new fences to surfaces of the command only.
LEMMA MarkedUses ==
    ASSUME MemoryInv, NEW S \in SUBSET OwnSurfaces, MarkUsed(S), UNCHANGED retired,
           last_fence' \in Fence
    PROVE  \A s \in Kept' : s.used =>
             s \in Kept \/ (s.last_fence = last_fence' /\ s.id \in Ids(S))
<1>1. S \in SUBSET surfaces
  BY DEF OwnSurfaces
<1>2. PICK N \in SUBSET Surface :
         Relabels(S, N) /\ \A r \in N : r.used /\ r.last_fence = last_fence'
  BY <1>1, Marking
<1>3. Kept' = (Kept \ S) \cup N
  BY <1>2, RecordingKeeps
<1>4. \A r \in N : r.id \in Ids(S)
  BY <1>2 DEF Relabels, Same, Ids
<1> QED BY <1>2, <1>3, <1>4

LEMMA SurfacesSeenStep ==
    ASSUME MemoryInv, SurfacesSeen, MaxFenceAge < HalfRange, [Next]_vars
    PROVE  SurfacesSeen'
<1>1. CASE QuietStep
  <2>1. UNCHANGED <<pending, last_fence>> /\ \A s \in Kept' : s.used => s \in Kept
    BY <1>1, QuietKeepsLink, QuietUses DEF LinkKept
  <2>2. ASSUME host_pc' \in BatchPcs PROVE FencesYoung(MaxFenceAge)
    BY <1>1, <2>2, BatchingPc DEF SurfacesSeen, HostBatchStart, KeptFencesYoung
  <2> QED BY <2>1, <2>2 DEF SurfacesSeen, FencesYoung, Kept
<1>2. CASE FinishStep
  <2>1. Finish /\ UNCHANGED <<surfaces, retired, host_pc, last_fence>>
    BY <1>2 DEF FinishStep, Finish
  <2>2. Kept' = Kept
    BY <2>1 DEF Kept, Retired
  <2>3. ASSUME NEW s \in Kept, s.used
        PROVE  /\ CountFrom(s.last_fence, last_fence) <= MaxFenceAge
               /\ CountFrom(s.last_fence, last_fence) < Len(pending') =>
                    s.id \in pending'[Len(pending')
                              - CountFrom(s.last_fence, last_fence)].surfaces
    BY <2>1, <2>3, KeptType, AgeFinished DEF MemoryInv, SurfacesSeen
  <2> QED BY <2>1, <2>2, <2>3 DEF SurfacesSeen, FencesYoung, Kept
<1>3. CASE PublishStep
  <2>0. host_pc' \notin BatchPcs /\ last_fence' \in Fence
    BY <1>3, PublishPc, LinkTypesStep DEF LinkTypes
  <2>1. ASSUME UNCHANGED <<surfaces, retired>> PROVE Kept' = Kept
    BY <2>1 DEF Kept, Retired
  <2>2. ASSUME host_pc = "push" PROVE FencesYoung(MaxFenceAge)
    BY <2>2 DEF SurfacesSeen, BatchPcs
  <2>3. ASSUME NEW S \in SUBSET OwnSurfaces, HostDraw(S) \/ HostBatch(S)
        PROVE  SurfacesSeen'
    <3>1. FencesYoung(MaxFenceAge) /\ MarkUsed(S) /\ UNCHANGED retired
      BY <2>2, <2>3 DEF HostDraw, Draw, HostBatch, BatchPush, KeptFencesYoung
    <3>2. PICK c \in Commands : Publish(c) /\ c.surfaces = Ids(S)
      BY <2>3, DrawCommand, BatchCommand
    <3> QED BY <2>0, <3>1, <3>2, MarkedUses, SurfacesSeenPublished
  <2>4. CASE \/ \E n \in 1 .. MaxDraws : \E keys \in [1 .. n -> Keys] : HostCacheBatch(keys)
             \/ \E key \in Keys : HostCacheBlend(key)
             \/ \E t \in Table : HostRawBatch(t)
    <3>1. FencesYoung(MaxFenceAge)
      BY <2>2, <2>4 DEF HostCacheBatch, BatchPush, HostCacheBlend, HostRawBatch,
         KeptFencesYoung
    <3>2. UNCHANGED <<surfaces, retired>>
      BY <2>4 DEF HostCacheBatch, HostCacheBlend, CacheBlend, HostRawBatch
    <3>3. PICK c \in Commands : Publish(c)
      BY <1>3, Commanding
    <3> QED BY <2>0, <2>1, <3>1, <3>2, <3>3, SurfacesSeenPublished
  <2> QED BY <1>3, <2>3, <2>4 DEF PublishStep, HostBatchPush
<1> QED BY <1>1, <1>2, <1>3, Steps

\* The fences of tables and surfaces are those of the newest commands that use
\* them, and stay young if the application's do (KeptFencesYoung).
THEOREM SeenCorrect ==
    ASSUME MaxFenceAge < HalfRange PROVE Spec => [](TablesSeen /\ SurfacesSeen)
<1>1. Init => TablesSeen /\ SurfacesSeen
  BY DEF Init, LinkInit, PoolInit, ArenaInit, TablesSeen, SurfacesSeen, BatchPcs, Kept, Retired
<1>2. MemoryInv /\ (TablesSeen /\ SurfacesSeen) /\ [Next]_vars => (TablesSeen /\ SurfacesSeen)'
  BY TablesSeenStep, SurfacesSeenStep
<1> QED BY <1>1, <1>2, MemoryCorrect, PTL DEF Spec

\* No table stays taken because the fence of its batch is old: a batch that has
\* finished polls complete (descriptor_available), if no fence that is kept
\* grows half of the fence range old.
THEOREM FinishedBatchesSeen ==
    ASSUME MaxFenceAge < HalfRange PROVE Spec => []FinishedBatchSeen
<1>1. ASSUME MemoryInv, TablesSeen PROVE FinishedBatchSeen
  <2> SUFFICES ASSUME NEW t \in batch_pending,
                      \A i \in 1 .. Len(pending) : pending[i].table # t
               PROVE  Reached(Done, batch_fence[t])
    BY DEF FinishedBatchSeen
  <2>1. batch_fence[t] \in Fence /\ CountFrom(batch_fence[t], last_fence) <= MaxFenceAge
    BY <1>1, TableAge DEF TablesSeen
  <2>2. CountFrom(batch_fence[t], last_fence) \in Nat /\ Len(pending) \in Nat
    BY <1>1, <2>1, CountType, PendingType DEF MemoryInv
  <2>3. ~(CountFrom(batch_fence[t], last_fence) < Len(pending))
    <3> SUFFICES ASSUME CountFrom(batch_fence[t], last_fence) < Len(pending) PROVE FALSE
      OBVIOUS
    <3>1. Len(pending) - CountFrom(batch_fence[t], last_fence) \in 1 .. Len(pending)
      BY <2>2
    <3> QED BY <1>1, <3>1 DEF TablesSeen
  <2> QED BY <1>1, <2>1, <2>3, OldEnoughIsSeen DEF MemoryInv
<1> QED BY <1>1, MemoryCorrect, SeenCorrect, PTL

\* Transfers do not wait in vain for a surface whose commands have all finished,
\* and its pages come back once it is destroyed (wait_for_cpu, collect), if no
\* fence that is kept grows half of the fence range old.
THEOREM FinishedUsesSeen ==
    ASSUME MaxFenceAge < HalfRange PROVE Spec => []FinishedUseSeen
<1>1. ASSUME MemoryInv, SurfacesSeen PROVE FinishedUseSeen
  <2> SUFFICES ASSUME NEW s \in Kept, s.used, ~InUse(s)
               PROVE  Reached(Done, s.last_fence)
    BY DEF FinishedUseSeen, Kept
  <2>1. s.last_fence \in Fence /\ CountFrom(s.last_fence, last_fence) <= MaxFenceAge
    BY <1>1, KeptType DEF SurfacesSeen, MemoryInv
  <2>2. CountFrom(s.last_fence, last_fence) \in Nat /\ Len(pending) \in Nat
    BY <1>1, <2>1, CountType, PendingType DEF MemoryInv
  <2>3. ~(CountFrom(s.last_fence, last_fence) < Len(pending))
    <3> SUFFICES ASSUME CountFrom(s.last_fence, last_fence) < Len(pending) PROVE FALSE
      OBVIOUS
    <3>1. Len(pending) - CountFrom(s.last_fence, last_fence) \in 1 .. Len(pending)
      BY <2>2
    <3> QED BY <1>1, <3>1 DEF SurfacesSeen, InUse
  <2> QED BY <1>1, <2>1, <2>3, OldEnoughIsSeen DEF MemoryInv
<1> QED BY <1>1, MemoryCorrect, SeenCorrect, PTL

=============================================================================
