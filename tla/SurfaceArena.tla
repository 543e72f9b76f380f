---------------------------- MODULE SurfaceArena ----------------------------
(***************************************************************************)
(* The SDK's surfaces (lib/noodles_surface.c): extents of the arena, taken *)
(* first fit and coalesced when they are returned; surfaces that record    *)
(* the fence of the last command that used them; destruction that defers   *)
(* reuse to a later collection; CPU transfers that wait for that fence.    *)
(* Addresses and sizes are in pages.                                       *)
(***************************************************************************)
EXTENDS FencePolls, FiniteSets

CONSTANTS
    ArenaPages,     \* NOODLES_SURFACE_ARENA_BYTES
    MaxSurfaces     \* bound on the surfaces created

ASSUME SurfaceArenaAssumption ==
    /\ ArenaPages \in Nat \ {0}
    /\ MaxSurfaces \in Nat

Page == 0 .. ArenaPages - 1
Extent == [address : Page, size : 1 .. ArenaPages]
SurfaceId == 1 .. MaxSurfaces
Surface == [id : SurfaceId, address : Page, size : 1 .. ArenaPages,
            used : BOOLEAN, last_fence : Fence]

VARIABLES
    surface_free,   \* free extents; the list is sorted by address
    surfaces,       \* live surfaces
    retired,        \* destroyed surfaces, newest first
    created,        \* surfaces created so far
    cursor,         \* collect: position in the retired list
    request,        \* pages to allocate after collecting, 0 for none
    accessed        \* surface of the CPU transfer, by id

arena == <<surface_free, surfaces, retired, created, cursor, request,
           accessed>>

\* initialize_allocator: it runs before the first allocation.
ArenaInit ==
    /\ surface_free = {[address |-> 0, size |-> ArenaPages]}
    /\ surfaces = {} /\ retired = <<>> /\ created = 0
    /\ cursor = 1 /\ request = 0 /\ accessed = 0

-----------------------------------------------------------------------------
(* Extents.                                                                *)

Before(address) == {e \in surface_free : e.address < address}
After(address) == surface_free \ Before(address)
Previous(address) == {e \in Before(address) :
                        \A f \in Before(address) : f.address <= e.address}
Following(address) == {e \in After(address) :
                        \A f \in After(address) : e.address <= f.address}

\* The neighbours that the returned extent touches.
TouchedBefore(address) ==
    {e \in Previous(address) : e.address + e.size = address}
TouchedAfter(address, size) ==
    {e \in Following(address) : address + size = e.address}

\* Mutant: a returned extent is merged with the one before it only.
InsertExtentLeft(address, size) ==
    LET left == TouchedBefore(address)
        start == IF left = {} THEN address
                 ELSE (CHOOSE e \in left : TRUE).address
    IN  surface_free' = (surface_free \ left) \cup
                        {[address |-> start, size |-> address + size - start]}

\* insert_extent: coalesced with both neighbours.
InsertExtent(address, size) ==
    LET left == TouchedBefore(address)
        right == TouchedAfter(address, size)
        start == IF left = {} THEN address
                 ELSE (CHOOSE e \in left : TRUE).address
        end == IF right = {} THEN address + size
               ELSE address + size + (CHOOSE e \in right : TRUE).size
    IN  surface_free' = (surface_free \ (left \cup right)) \cup
                        {[address |-> start, size |-> end - start]}

\* The first extent that is large enough.
Fitting(size) == {e \in surface_free : e.size >= size}
FirstFit(size) == CHOOSE e \in Fitting(size) :
                      \A f \in Fitting(size) : e.address <= f.address

\* Mutant: an extent that is used up stays in the list.
AllocateExtentWhole(size) ==
    LET e == FirstFit(size) IN
    surface_free' = (surface_free \ {e}) \cup
        {[address |-> e.address + size, size |-> e.size - size]}

\* allocate_extent: the front of the first extent that is large enough.
AllocateExtent(size) ==
    LET e == FirstFit(size) IN
    surface_free' = (surface_free \ {e}) \cup
        (IF e.size = size THEN {}
         ELSE {[address |-> e.address + size, size |-> e.size - size]})

-----------------------------------------------------------------------------
(* Creation and collection.                                                *)

\* noodles_surface_collect, or noodles_surface_create, which collects first.
CollectStart(size) ==
    /\ host_pc = "idle"
    /\ size > 0 => created < MaxSurfaces
    /\ host_pc' = "collect" /\ request' = size
    /\ UNCHANGED <<link, surface_free, surfaces, retired, created, cursor,
                   accessed>>

\* Mutant: whatever was destroyed is reclaimed at once.
ReclaimableAlways(s) == UNCHANGED confirmed_done
Reclaimable(s) ==
    IF s.used THEN PollComplete(s.last_fence) ELSE UNCHANGED confirmed_done

Collecting == host_pc = "collect" /\ cursor <= Len(retired)

CollectReclaim ==
    /\ Collecting
    /\ Reclaimable(retired[cursor])
    /\ InsertExtent(retired[cursor].address, retired[cursor].size)
    /\ retired' = SubSeq(retired, 1, cursor - 1) \o
                  SubSeq(retired, cursor + 1, Len(retired))
    /\ UNCHANGED <<host_pc, pending, submitted, last_fence, surfaces, created,
                   cursor, request, accessed>>

CollectSkip ==
    /\ Collecting
    /\ retired[cursor].used /\ PollIncomplete(retired[cursor].last_fence)
    /\ cursor' = cursor + 1
    /\ UNCHANGED <<host_pc, pending, submitted, last_fence, surface_free,
                   surfaces, retired, created, request, accessed>>

\* No memory for a list node: the surface stays in the retired list.
CollectFails ==
    /\ Collecting
    /\ Reclaimable(retired[cursor])
    /\ TouchedBefore(retired[cursor].address) = {}
    /\ TouchedAfter(retired[cursor].address, retired[cursor].size) = {}
    /\ host_pc' = "idle" /\ cursor' = 1 /\ request' = 0
    /\ UNCHANGED <<pending, submitted, last_fence, surface_free, surfaces,
                   retired, created, accessed>>

\* The collection is complete: return, or allocate.  An allocation also fails
\* for want of memory, with nothing changed.
Collected == host_pc = "collect" /\ cursor > Len(retired)

CollectReturn ==
    /\ Collected
    /\ host_pc' = "idle" /\ cursor' = 1 /\ request' = 0
    /\ UNCHANGED <<link, surface_free, surfaces, retired, created, accessed>>

NewSurface(size) ==
    [id |-> created + 1, address |-> FirstFit(size).address, size |-> size,
     used |-> FALSE, last_fence |-> 0]

CreationEnds(size) ==
    /\ Collected /\ size > 0 /\ Fitting(size) # {}
    /\ host_pc' = "idle" /\ cursor' = 1 /\ request' = 0
    /\ created' = created + 1
    /\ AllocateExtent(size)

CreateSurface ==
    /\ CreationEnds(request)
    /\ surfaces' = surfaces \cup {NewSurface(request)}
    /\ UNCHANGED <<link, retired, accessed>>

\* noodles_surface_destroy does not wait.
Retire(s) == surfaces' = surfaces \ {s} /\ retired' = <<s>> \o retired

Destroy(s) ==
    /\ host_pc = "idle"
    /\ Retire(s)
    /\ UNCHANGED <<host_pc, link, surface_free, created, cursor, request,
                   accessed>>

-----------------------------------------------------------------------------
(* Use by commands and by the CPU.                                         *)

Retired == {retired[i] : i \in 1 .. Len(retired)}

FencesYoung(age) ==
    \A s \in surfaces \cup Retired :
        s.used => CountFrom(s.last_fence, last_fence) < age

\* Mutant: only one of the surfaces of a command records its fence.
MarkUsedOne(S) ==
    LET first == {s \in S : \A r \in S : s.id <= r.id} IN
    surfaces' = (surfaces \ first) \cup
        {[s EXCEPT !.used = TRUE, !.last_fence = last_fence'] : s \in first}

\* Mutant: the fence recorded is the one of the next command.
MarkUsedNext(S) ==
    surfaces' = (surfaces \ S) \cup
        {[s EXCEPT !.used = TRUE,
                   !.last_fence = (last_fence' + 1) % FenceMod] : s \in S}

\* mark_used, on every source and destination of the command just published.
MarkUsed(S) ==
    surfaces' = (surfaces \ S) \cup
        {[s EXCEPT !.used = TRUE, !.last_fence = last_fence'] : s \in S}

Ids(S) == {s.id : s \in S}

\* A fill, copy or blend that reads or writes the surfaces S.
Draw(S) ==
    /\ host_pc = "idle"
    /\ Submit(Command(Ids(S), NoTable, 0, {}))
    /\ MarkUsed(S)
    /\ UNCHANGED <<host_pc, surface_free, retired, created, cursor, request,
                   accessed>>

\* wait_for_cpu of an update or a read ...
TransferStart(s) ==
    /\ host_pc = "idle"
    /\ host_pc' = IF s.used THEN "wait" ELSE "cpu"
    /\ accessed' = s.id
    /\ UNCHANGED <<link, surface_free, surfaces, retired, created, cursor,
                   request>>

TransferWaited(s) ==
    /\ host_pc = "wait" /\ s.id = accessed
    /\ PollComplete(s.last_fence)
    /\ host_pc' = "cpu"
    /\ surfaces' = (surfaces \ {s}) \cup {[s EXCEPT !.used = FALSE]}
    /\ UNCHANGED <<pending, submitted, last_fence, surface_free, retired,
                   created, cursor, request, accessed>>

\* ... and the copy of the rows.
TransferEnd ==
    /\ host_pc = "cpu"
    /\ host_pc' = "idle" /\ accessed' = 0
    /\ UNCHANGED <<link, surface_free, surfaces, retired, created, cursor,
                   request>>

\* The application's calls on a surface, and the steps of a call that runs.
SurfaceStep(s) == Destroy(s) \/ TransferStart(s)

ArenaCall ==
    \/ CollectReclaim \/ CollectSkip \/ CollectFails \/ CollectReturn
    \/ CreateSurface
    \/ \E s \in surfaces : TransferWaited(s)
    \/ TransferEnd

ArenaStep == ArenaCall \/ \E size \in 0 .. ArenaPages : CollectStart(size)
-----------------------------------------------------------------------------
(* Properties.                                                             *)

Pages(e) == e.address .. e.address + e.size - 1
Owners(page) == {e \in surface_free \cup surfaces \cup Retired :
                    page \in Pages(e)}

\* Every page of the arena is free, or belongs to one live or one destroyed
\* surface, and free extents that touch are one: nothing is lost, handed out
\* twice or fragmented for good, with collections that fail half way.
ArenaPartition ==
    /\ \A page \in Page : Cardinality(Owners(page)) = 1
    /\ \A e, f \in surface_free : e.address + e.size # f.address

InUse(s) == \E i \in 1 .. Len(pending) : s.id \in pending[i].surfaces

\* The pages a command reads or writes stay its surface's own, live or
\* destroyed, until the command has finished.
InUseKept ==
    \A i \in 1 .. Len(pending) :
        pending[i].surfaces \subseteq Ids(surfaces \cup Retired)

\* The CPU copies rows of a surface only when no published command uses it.
CpuAccessExclusive ==
    host_pc = "cpu" =>
        \A i \in 1 .. Len(pending) : accessed \notin pending[i].surfaces

\* A surface whose commands have all finished is seen to be idle: transfers do
\* not wait for it in vain, and its pages do come back.
FinishedUseSeen ==
    \A s \in surfaces \cup Retired :
        s.used /\ ~InUse(s) =>
            Reached(confirmed_done, s.last_fence) \/
            Reached(Done, s.last_fence)
=============================================================================
