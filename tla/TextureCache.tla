---------------------------- MODULE TextureCache ----------------------------
(***************************************************************************)
(* The SDK's texture cache (lib/noodles_surface.c): same-sized cells of    *)
(* one atlas surface, addressed by the application's keys.  The CPU writes *)
(* a cell in place; each cell records the fence of the last command that   *)
(* read it, since draws use copies of the atlas's handle and the atlas     *)
(* itself records nothing.                                                 *)
(***************************************************************************)
EXTENDS SurfaceArena, SequencesExt

CONSTANTS
    CacheSlots,     \* columns * rows; 0 for a run without a cache
    Keys,           \* the application's keys
    MaxUploads      \* bound on the uploads of a behaviour

ASSUME TextureCacheAssumption ==
    /\ CacheSlots \in Nat /\ MaxUploads \in Nat
    /\ \A k \in Keys : k \in Nat

Slot == 0 .. CacheSlots - 1

VARIABLES
    atlas,      \* id of the atlas surface, 0 without a cache
    slots,      \* cache->slots
    cache_age,  \* cache->age
    target,     \* slot (and key) of the upload or destruction that runs
    cell,       \* pixels in each cell: the number of the upload
    latest,     \* pixels that the application uploaded last under each key
    older       \* pairs of keys: the second was used after the first's last use

cache == <<atlas, slots, cache_age, target, cell, latest, older>>

EmptySlot == [key |-> 0, age |-> 0, last_fence |-> 0, valid |-> FALSE,
              used |-> FALSE]
NoTarget == [slot |-> 0, key |-> 0]

CacheInit ==
    /\ atlas = 0 /\ slots = [s \in Slot |-> EmptySlot] /\ cache_age = 0
    /\ target = NoTarget
    /\ cell = [s \in Slot |-> 0] /\ latest = [k \in Keys |-> 0]
    /\ older = {}

\* find_key.
Holds(s, key) == slots[s].valid /\ slots[s].key = key
Cached(key) == \E s \in Slot : Holds(s, key)
FindKey(key) == CHOOSE s \in Slot :
    Holds(s, key) /\ \A r \in Slot : Holds(r, key) => s <= r

\* choose_slot: the first unused one, else the one used longest ago.
ChooseSlot ==
    LET invalid == {s \in Slot : ~slots[s].valid} IN
    IF invalid # {} THEN CHOOSE s \in invalid : \A r \in invalid : s <= r
    ELSE CHOOSE s \in Slot : \A r \in Slot :
            \/ slots[s].age < slots[r].age
            \/ slots[s].age = slots[r].age /\ s <= r

-----------------------------------------------------------------------------
(* Creation: a surface, then a mapping of it.                              *)

CacheCreated ==
    /\ CacheSlots > 0 /\ atlas = 0
    /\ CreateSurface
    /\ atlas' = created + 1
    /\ slots' = [s \in Slot |-> EmptySlot] /\ cache_age' = 0
    /\ cell' = [s \in Slot |-> 0] /\ latest' = [k \in Keys |-> 0]
    /\ older' = {}
    /\ UNCHANGED target

\* The mapping fails: the surface just created is destroyed again.
CacheMapFails ==
    /\ CacheSlots > 0 /\ atlas = 0
    /\ CreationEnds(request)
    /\ surfaces' = surfaces
    /\ retired' = <<NewSurface(request)>> \o retired
    /\ UNCHANGED <<link, accessed, cache>>

-----------------------------------------------------------------------------
(* Upload.                                                                 *)

\* Numbers the uploads.
Newest == Max(Range(latest))

\* Mutant: an upload does not wait for the cell it replaces.
InFlightNever(s) == FALSE
InFlight(s) == slots[s].used

UploadStart(key) ==
    LET s == IF Cached(key) THEN FindKey(key) ELSE ChooseSlot IN
    /\ host_pc = "idle" /\ atlas # 0 /\ Newest < MaxUploads
    /\ host_pc' = IF InFlight(s) THEN "cell_wait" ELSE "cell"
    /\ target' = [slot |-> s, key |-> key]
    /\ UNCHANGED <<link, arena, atlas, slots, cache_age, cell, latest, older>>

UploadWaited ==
    /\ host_pc = "cell_wait"
    /\ PollComplete(slots[target.slot].last_fence)
    /\ host_pc' = "cell"
    /\ UNCHANGED <<pending, submitted, last_fence, arena, cache>>

\* The pairs of keys with the second used after the first's last use, once the
\* keys have been used one after another.
LastUse(keys, key) == Max({0} \cup {i \in DOMAIN keys : keys[i] = key})
Used(keys, order) ==
    {p \in Keys \X Keys :
        \/ LastUse(keys, p[1]) < LastUse(keys, p[2])
        \/ p \in order /\ LastUse(keys, p[1]) = LastUse(keys, p[2])}

\* The rows are copied and the slot starts afresh.
UploadStore ==
    LET s == target.slot
        pixels == Newest + 1
    IN
    /\ host_pc = "cell"
    /\ host_pc' = "idle" /\ target' = NoTarget
    /\ cell' = [cell EXCEPT ![s] = pixels]
    /\ latest' = [latest EXCEPT ![target.key] = pixels]
    /\ slots' = [slots EXCEPT ![s] =
                   [key |-> target.key, age |-> cache_age + 1,
                    last_fence |-> 0, valid |-> TRUE, used |-> FALSE]]
    /\ cache_age' = cache_age + 1
    /\ older' = Used(<<target.key>>, older)
    /\ UNCHANGED <<link, arena, atlas>>

-----------------------------------------------------------------------------
(* Draws of cached cells.                                                  *)

\* Mutant: draws do not count as uses when a cell is replaced.
TouchUnaged(keys) ==
    /\ slots' = [s \in Slot |->
         IF \E i \in DOMAIN keys : FindKey(keys[i]) = s
         THEN [slots[s] EXCEPT !.last_fence = last_fence', !.used = TRUE]
         ELSE slots[s]]
    /\ cache_age' = cache_age /\ older' = Used(keys, older)

\* Mutant: the fence recorded is the one of the next command.
TouchNext(keys) ==
    /\ slots' = [s \in Slot |->
         LET uses == {i \in DOMAIN keys : FindKey(keys[i]) = s} IN
         IF uses = {} THEN slots[s]
         ELSE [slots[s] EXCEPT !.last_fence = (last_fence' + 1) % FenceMod,
                               !.used = TRUE, !.age = cache_age + Max(uses)]]
    /\ cache_age' = cache_age + Len(keys) /\ older' = Used(keys, older)

\* Each slot drawn from records the command's fence and is aged, draw by draw.
Touch(keys) ==
    /\ slots' = [s \in Slot |->
         LET uses == {i \in DOMAIN keys : FindKey(keys[i]) = s} IN
         IF uses = {} THEN slots[s]
         ELSE [slots[s] EXCEPT !.last_fence = last_fence', !.used = TRUE,
                               !.age = cache_age + Max(uses)]]
    /\ cache_age' = cache_age + Len(keys) /\ older' = Used(keys, older)

\* The cells that a draw reads, and the pixels it is meant to read.
Reads(keys) ==
    {[slot |-> FindKey(keys[i]), pixels |-> latest[keys[i]]] :
        i \in DOMAIN keys}

\* The draws of a batch that are not clipped away; ENOENT unless all are held.
Drawable(keys) == atlas # 0 /\ \A i \in DOMAIN keys : Cached(keys[i])

\* noodles_texture_cache_blend_to_back_buffer.
CacheBlend(key) ==
    /\ host_pc = "idle" /\ Drawable(<<key>>)
    /\ Submit(Command({atlas}, NoTable, 0, Reads(<<key>>)))
    /\ Touch(<<key>>)
    /\ UNCHANGED <<host_pc, arena, atlas, target, cell, latest>>

-----------------------------------------------------------------------------
(* Destruction: wait for every cell, then destroy the atlas.               *)

CloseStart ==
    /\ host_pc = "idle" /\ atlas # 0
    /\ host_pc' = "cache_close" /\ target' = NoTarget
    /\ UNCHANGED <<link, arena, atlas, slots, cache_age, cell, latest, older>>

Closing == host_pc = "cache_close" /\ target.slot < CacheSlots

\* Mutant: the cells are not waited for.
CloseSlotUnwaited ==
    /\ Closing
    /\ slots' = [slots EXCEPT ![target.slot].used = FALSE]
    /\ target' = [target EXCEPT !.slot = @ + 1]
    /\ UNCHANGED <<host_pc, link, arena, atlas, cache_age, cell, latest, older>>

CloseSlot ==
    /\ Closing
    /\ IF slots[target.slot].used
         THEN PollComplete(slots[target.slot].last_fence)
         ELSE UNCHANGED confirmed_done
    /\ slots' = [slots EXCEPT ![target.slot].used = FALSE]
    /\ target' = [target EXCEPT !.slot = @ + 1]
    /\ UNCHANGED <<host_pc, pending, submitted, last_fence, arena, atlas,
                   cache_age, cell, latest, older>>

CloseEnd ==
    /\ host_pc = "cache_close" /\ target.slot = CacheSlots
    /\ host_pc' = "idle" /\ target' = NoTarget
    /\ \E s \in surfaces : s.id = atlas /\ Retire(s)
    /\ atlas' = 0 /\ older' = {}
    /\ slots' = [s \in Slot |-> EmptySlot] /\ cache_age' = 0
    /\ cell' = [s \in Slot |-> 0] /\ latest' = [k \in Keys |-> 0]
    /\ UNCHANGED <<link, surface_free, created, cursor, request, accessed>>

\* munmap fails: the cache is kept, with no cell in use.
CloseFails ==
    /\ host_pc = "cache_close" /\ target.slot = CacheSlots
    /\ host_pc' = "idle" /\ target' = NoTarget
    /\ UNCHANGED <<link, arena, atlas, slots, cache_age, cell, latest, older>>

CellsYoung(age) ==
    \A s \in Slot :
        slots[s].used => CountFrom(slots[s].last_fence, last_fence) < age

\* Steps of a call that has started.
CacheCall ==
    \/ CacheCreated \/ CacheMapFails
    \/ UploadWaited \/ UploadStore
    \/ CloseSlot \/ CloseEnd \/ CloseFails

CacheStep ==
    \/ CacheCall \/ CloseStart
    \/ \E key \in Keys : UploadStart(key)
-----------------------------------------------------------------------------
(* Properties.                                                             *)

\* A published draw finds in each cell the pixels that the application had
\* uploaded last under the key it drew, whatever is uploaded, replaced or
\* destroyed before the engine gets to it.
CellsIntact ==
    \A i \in 1 .. Len(pending) : \A read \in pending[i].cells :
        atlas \in pending[i].surfaces /\ cell[read.slot] = read.pixels

\* docs/SDK.md:337: uploads replace the least-recently-used cell when full.
\* Ages are not renewed by lookups and are set cell by cell within a batch.
EvictsLeastRecent ==
    [][\A key \in Keys :
        Cached(key) /\ ~Cached(key)' /\ atlas' = atlas =>
            /\ \A s \in Slot : slots[s].valid
            /\ \A k \in Keys :
                  Cached(k) /\ k # key => <<key, k>> \in older]_<<atlas, slots>>
=============================================================================
