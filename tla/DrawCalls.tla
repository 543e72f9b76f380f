----------------------------- MODULE DrawCalls -----------------------------
(***************************************************************************)
(* What the SDK submits for a draw (lib/noodles_surface.c: fills, blits,   *)
(* blends, batches; lib/noodles_link.c: validation of commands and         *)
(* descriptors).  Addresses, pitches and spans count pixels.               *)
(***************************************************************************)
EXTENDS Clip, Sequences, SequencesExt

CONSTANTS
    Surfaces,       \* live surfaces: name -> [address, pitch, width, height]
    BackBuffer,     \* the back buffer, likewise
    Dram,           \* spans [first, end]: the addresses a command may name,
    Pool,           \*   the control page and descriptor tables,
    Arena,          \*   the SDK's arena
    MaxDescriptors

\* A draw's flags word; bits 8 to 31 are the mode, "reserved" not a legal one.
Flags == [key : BOOLEAN, blend : BOOLEAN, mirror_x : BOOLEAN,
          mirror_y : BOOLEAN, mode : {"unset", "add", "reserved"}]
Plain == [key |-> FALSE, blend |-> FALSE, mirror_x |-> FALSE,
          mirror_y |-> FALSE, mode |-> "unset"]

\* draw_flags: the flags of protocols 1.2 and 1.3.
Drawn(flags) == [flags EXCEPT !.key = FALSE] # Plain

Area(name) == IF name = "back" THEN BackBuffer ELSE Surfaces[name]
Live(name) == name \in DOMAIN Surfaces
Names == DOMAIN Surfaces \cup {"back"}

-----------------------------------------------------------------------------
(* Validation.                                                             *)

Overlap(first, end, span) == first < span.end /\ end > span.first

ValidSpan(first, end, managed) ==
    /\ first < end
    /\ Dram.first <= first /\ end <= Dram.end
    /\ ~Overlap(first, end, Pool)
    /\ managed \/ ~Overlap(first, end, Arena)

RectEnd(address, pitch, d) == address + (d.height - 1) * pitch + d.width

ValidRect(address, pitch, d, managed) ==
    /\ d.width > 0 /\ d.height > 0
    /\ pitch >= d.width
    /\ ValidSpan(address, RectEnd(address, pitch, d), managed)

ValidTarget(d, managed) == ValidRect(d.dst, d.dpitch, d, managed)
ValidSource(d, managed) == ValidRect(d.src, d.spitch, d, managed)

\* The arena's surfaces are apart, and the back buffer is outside the arena.
ASSUME DrawCallsAssumption ==
    /\ Dram \in [first : Nat, end : Nat] /\ MaxDescriptors \in Nat
    /\ \A name \in Names :
        /\ Area(name) \in [address : Nat, pitch : Nat, width : Nat, height : Nat]
        /\ Area(name).height > 0 /\ Area(name).width > 0
        /\ Area(name).width <= Area(name).pitch
    /\ \A m, n \in Names :
        LET end(name) == RectEnd(Area(name).address, Area(name).pitch, Area(name)) IN
        m # n => end(m) <= Area(n).address \/ end(n) <= Area(m).address

Disjoint(d) == \/ RectEnd(d.dst, d.dpitch, d) <= d.src
               \/ RectEnd(d.src, d.spitch, d) <= d.dst

ValidMode(flags) == flags.mode = "add" /\ ~flags.blend

\* check_descriptors, of a core with protocol 1.3.
ValidDescriptor(d, managed) ==
    /\ d.flags.mode = "unset" \/ ValidMode(d.flags)
    /\ ValidTarget(d, managed) /\ ValidSource(d, managed)
    /\ Drawn(d.flags) => ~d.flags.key /\ Disjoint(d)

ValidTable(items) == Len(items) \in 1 .. MaxDescriptors

\* valid_command; a batch's descriptors are checked before their upload.
ValidCommand(c, managed) ==
    LET d == c.items[1] IN
    CASE c.op = "SOLID_FILL" -> ValidTarget(d, managed)
      [] c.op \in {"BLIT_COPY", "BLIT_COPY_KEY"} ->
            ValidTarget(d, managed) /\ ValidSource(d, managed)
      [] c.op = "BLIT_BLEND" ->
            ValidTarget(d, managed) /\ ValidSource(d, managed) /\ Disjoint(d)
      [] c.op = "BLEND_FILL" ->
            /\ ~d.flags.mirror_x /\ ~d.flags.mirror_y
            /\ ValidMode(d.flags) /\ ValidTarget(d, managed)
      [] c.op = "SPRITE_BATCH" -> ValidTable(c.items) /\
            \A i \in DOMAIN c.items : ValidDescriptor(c.items[i], managed)
      [] c.op = "FILL_BATCH" -> ValidTable(c.items) /\
            \A i \in DOMAIN c.items : ValidTarget(c.items[i], managed)

-----------------------------------------------------------------------------
(* The calls.  A request is [call, target, draws]; a draw is [source,      *)
(* rect, x, y, flags, word], a fill's rect in its target.  What a call     *)
(* makes of a draw is a descriptor, nothing, or an error.                  *)

\* h and v are what is left of the draw's axes.
Descriptor(area, h, v, draw, src, spitch) ==
    [dst |-> area.address + v.d * area.pitch + h.d, dpitch |-> area.pitch,
     width |-> h.length, height |-> v.length,
     word |-> draw.word, flags |-> draw.flags, src |-> src, spitch |-> spitch]

\* clip_bounds, and the bounds of the back buffer's fills.
ClippedFill(area, draw) ==
    LET h == ClipSpan(draw.rect.x, draw.rect.width, area.width)
        v == ClipSpan(draw.rect.y, draw.rect.height, area.height)
    IN  IF h.length <= 0 \/ v.length <= 0 THEN << >>
        ELSE <<Descriptor(area, h, v, draw, 0, 0)>>

\* clipped_draw.
ClippedDraw(area, draw) ==
    LET from == Area(draw.source)
        h == ClipAxis([s |-> draw.rect.x, d |-> draw.x, length |-> draw.rect.width],
                      from.width, area.width, draw.flags.mirror_x)
        v == ClipAxis([s |-> draw.rect.y, d |-> draw.y, length |-> draw.rect.height],
                      from.height, area.height, draw.flags.mirror_y)
    IN  IF h.length <= 0 \/ v.length <= 0 THEN << >>
        ELSE <<Descriptor(area, h, v, draw, from.address + v.s * from.pitch + h.s,
                          from.pitch)>>

Empty(rect) == rect.width = 0 \/ rect.height = 0

FillCalls == {"fill", "fill_batch", "blend_fill"}
BatchCalls == {"fill_batch", "batch_to_back_buffer", "draw_batch"}

\* The arguments a call refuses with EINVAL before it clips.
RefusedDraw(call, target, draw) ==
    \/ Empty(draw.rect)
    \/ /\ call \notin FillCalls
       /\ ~Live(draw.source) \/ draw.source = target
    \/ call = "draw_batch" /\ draw.flags.key /\ draw.flags # [Plain EXCEPT !.key = TRUE]

Refused(r) ==
    \/ r.target # "back" /\ ~Live(r.target)
    \/ Len(r.draws) \notin 1 .. MaxDescriptors
    \/ \E i \in DOMAIN r.draws : RefusedDraw(r.call, r.target, r.draws[i])

Descriptors(r) ==
    LET clipped(draw) == IF r.call \in FillCalls
                         THEN ClippedFill(Area(r.target), draw)
                         ELSE ClippedDraw(Area(r.target), draw)
    IN  FlattenSeq([i \in DOMAIN r.draws |-> clipped(r.draws[i])])

Opcode(call) ==
    CASE call = "fill" -> "SOLID_FILL"
      [] call = "blend_fill" -> "BLEND_FILL"
      [] call = "blit" -> "BLIT_COPY"
      [] call = "blend" -> "BLIT_BLEND"
      [] call = "fill_batch" -> "FILL_BATCH"
      [] OTHER -> "SPRITE_BATCH"

\* The fills of the back buffer are pushed as anyone's; the rest as the SDK's.
Managed(r) == ~(r.target = "back" /\ r.call \in {"fill", "blend_fill"})

CommandFor(r) == [op |-> Opcode(r.call), items |-> Descriptors(r)]

\* noodles_push_*: a raw command, or a batch of raw descriptors.
RawCommand(op, d) == [call |-> "push", command |-> [op |-> op, items |-> <<d>>]]
RawSprites(items) == [call |-> "push", command |-> [op |-> "SPRITE_BATCH", items |-> items]]
IsRaw(r) == r.call = "push"

Pushes(r) ==
    IF IsRaw(r) THEN ValidCommand(r.command, FALSE)
    ELSE /\ ~Refused(r)
         /\ Descriptors(r) # << >>
         /\ ValidCommand(CommandFor(r), Managed(r))

\* A call that returns 0 and submits nothing.
NothingToDraw(r) == ~IsRaw(r) /\ ~Refused(r) /\ Descriptors(r) = << >>

Pushed(r) == IF IsRaw(r) THEN r.command ELSE CommandFor(r)

-----------------------------------------------------------------------------
(* What the parameters of the calls can be: any offsets and sizes.  Only a *)
(* batch has more draws than one; blits and blends take no flags.          *)

IsDescriptor(d) ==
    d \in [dst : Nat, dpitch : Nat, width : Nat, height : Nat, word : {d.word},
          flags : Flags, src : Nat, spitch : Nat]

Opcodes == {"SOLID_FILL", "BLIT_COPY", "BLIT_COPY_KEY", "BLIT_BLEND",
            "BLEND_FILL", "SPRITE_BATCH", "FILL_BATCH"}
BatchOps == {"SPRITE_BATCH", "FILL_BATCH"}

IsCommand(c) ==
    /\ c = [op |-> c.op, items |-> c.items] /\ c.op \in Opcodes
    /\ c.items \in Seq(Range(c.items)) /\ Len(c.items) > 0
    /\ c.op \notin BatchOps => Len(c.items) = 1
    /\ \A i \in DOMAIN c.items : IsDescriptor(c.items[i])

IsDraw(draw) ==
    draw \in [source : {draw.source}, x : Int, y : Int, flags : Flags,
             rect : [x : Int, y : Int, width : Nat, height : Nat],
             word : {draw.word}]

IsCall(r) ==
    /\ r.call \in FillCalls \cup BatchCalls \cup {"blit", "blend"}
    /\ r.draws \in Seq(Range(r.draws))
    /\ r.call \notin BatchCalls => Len(r.draws) = 1
    /\ \A i \in DOMAIN r.draws :
        /\ IsDraw(r.draws[i])
        /\ r.call \in {"blit", "blend"} => r.draws[i].flags = Plain

IsRequest(r) == IF IsRaw(r) THEN IsCommand(r.command) ELSE IsCall(r)
=============================================================================
