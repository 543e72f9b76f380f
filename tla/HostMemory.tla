----------------------------- MODULE HostMemory -----------------------------
(***************************************************************************)
(* Everything in DRAM that the SDK reuses behind fences: the descriptor    *)
(* tables, the surfaces and the texture cache of one handle, on one stream *)
(* of commands.  A batch of draws uses a table and several surfaces, or    *)
(* cells of the cache's atlas, at once.                                    *)
(***************************************************************************)
EXTENDS DescriptorPool, TextureCache

CONSTANTS
    MaxFenceAge,    \* submissions that a kept fence may grow old
    MaxDraws        \* bound on the cached draws of a batch

ASSUME HostMemoryAssumption == MaxFenceAge \in Nat /\ MaxDraws \in Nat

vars == <<host_pc, link, pool, arena, cache>>

Init == LinkInit /\ PoolInit /\ ArenaInit /\ CacheInit

\* The library keeps the fences of tables, surfaces and cells until it has
\* polled them; a bound on their age stands for how the application uses them.
KeptFencesYoung ==
    FencesYoung(MaxFenceAge) /\ TablesYoung(MaxFenceAge) /\
    CellsYoung(MaxFenceAge)

\* The surfaces that the application has a handle of.
OwnSurfaces == {s \in surfaces : s.id # atlas}

\* Fills, copies and blends.
HostDraw(S) == KeptFencesYoung /\ Draw(S) /\ UNCHANGED <<pool, cache>>

HostBatchStart == KeptFencesYoung /\ BatchStart /\ UNCHANGED <<arena, cache>>

\* A batch to or from surfaces, or of raw descriptors if S is empty.
HostBatch(S) ==
    /\ BatchPush(Ids(S), {}) /\ MarkUsed(S)
    /\ UNCHANGED <<surface_free, retired, created, cursor, request, accessed,
                   cache>>

\* A batch of cached cells.
HostCacheBatch(keys) ==
    /\ Drawable(keys)
    /\ BatchPush({atlas}, Reads(keys)) /\ Touch(keys)
    /\ UNCHANGED <<arena, atlas, target, cell, latest>>

HostCacheBlend(key) ==
    KeptFencesYoung /\ CacheBlend(key) /\ UNCHANGED pool

HostRawBatch(t) == KeptFencesYoung /\ RawBatch(t) /\ UNCHANGED <<arena, cache>>

\* Batches end by publishing something.
HostBatchPush ==
    /\ host_pc = "push"
    /\ \/ \E S \in SUBSET OwnSurfaces : HostBatch(S)
       \/ \E n \in 1 .. MaxDraws : \E keys \in [1 .. n -> Keys] : HostCacheBatch(keys)

\* The steps of a call that has started.
HostCall ==
    \/ PoolCall /\ UNCHANGED <<arena, cache>>
    \/ ArenaCall /\ UNCHANGED <<pool, cache>>
    \/ CacheCall /\ UNCHANGED pool
    \/ HostBatchPush

Next ==
    \/ HostBatchStart
    \/ PoolStep /\ UNCHANGED <<arena, cache>>
    \/ ArenaStep /\ UNCHANGED <<pool, cache>>
    \/ CacheStep /\ UNCHANGED pool
    \/ HostBatchPush
    \/ \E s \in OwnSurfaces : SurfaceStep(s) /\ UNCHANGED <<pool, cache>>
    \/ \E S \in SUBSET OwnSurfaces : HostDraw(S)
    \/ \E key \in Keys : HostCacheBlend(key)
    \/ \E t \in Table : HostRawBatch(t)
    \/ (Finish \/ HostConfirm) /\ UNCHANGED <<pool, arena, cache>>

Spec == Init /\ [][Next]_vars

\* The core runs on, and so does a call that has started.
FairSpec ==
    /\ Spec
    /\ WF_vars(Finish /\ UNCHANGED <<pool, arena, cache>>)
    /\ WF_vars(HostCall)

\* Types: in particular no extent of the free list is empty or leaves the arena
\* (allocate_extent, insert_extent).
Commands == [surfaces : SUBSET SurfaceId, table : Table \cup {NoTable},
             stamp : {0, 1},
             cells : SUBSET [slot : Slot, pixels : 1 .. MaxUploads]]

LinkTypes ==
    /\ host_pc \in {"idle", "find", "upload", "push", "collect", "wait",
                    "cpu", "cell_wait", "cell", "cache_close"}
    /\ pending \in Seq(Commands)
    /\ submitted \in Nat /\ last_fence \in Fence /\ confirmed_done \in Fence

PoolTypes ==
    /\ batch_pending \subseteq Table /\ batch_fence \in [Table -> Fence]
    /\ next_table \in Table /\ tried \in 0 .. Tables
    /\ table \in Table \cup {NoTable} /\ content \in [Table -> {0, 1}]

ArenaTypes ==
    /\ surface_free \subseteq Extent /\ surfaces \subseteq Surface
    /\ retired \in Seq(Surface) /\ created \in 0 .. MaxSurfaces
    /\ cursor \in Nat /\ request \in 0 .. ArenaPages
    /\ accessed \in 0 .. MaxSurfaces

CacheTypes ==
    /\ atlas \in 0 .. MaxSurfaces /\ cache_age \in Nat
    /\ slots \in [Slot -> [key : Keys \cup {0}, age : Nat, last_fence : Fence,
                           valid : BOOLEAN, used : BOOLEAN]]
    /\ target \in [slot : 0 .. CacheSlots, key : Keys \cup {0}]
    /\ cell \in [Slot -> 0 .. MaxUploads] /\ latest \in [Keys -> 0 .. MaxUploads]

\* The program's state; older is the model's own history.
StateTypes == LinkTypes /\ PoolTypes /\ ArenaTypes /\ CacheTypes

TypeOK == StateTypes /\ older \subseteq Keys \X Keys

\* Every call of the surface, batch and cache interface returns, whatever it
\* waits for and whatever fails on the way: no call waits for a fence that is
\* not a published command's, or that finished long ago.
EveryCallReturns == host_pc # "idle" ~> host_pc = "idle"
=============================================================================
