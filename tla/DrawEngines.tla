---------------------------- MODULE DrawEngines ----------------------------
(***************************************************************************)
(* The jobs and walks of the core's draw engines (rtl/blit.sv,             *)
(* blit_copy.sv, blit_copy64.sv, blit_blend.sv, blend_walk.sv), and the    *)
(* picture a request asks for, pixel by pixel.  A pixel is its alpha's     *)
(* class and what it was made of; what blend_px makes of one is BlendPx's. *)
(***************************************************************************)
EXTENDS DrawCalls

Modulated(modulation, s) ==
    IF modulation = "identity" THEN s
    ELSE [alpha |-> IF s.alpha = "zero" THEN "zero" ELSE "partial",
          is |-> <<"modulated", modulation, s.is>>]

\* A source pixel s drawn over d, by mode.
Combine(e, s, d) ==
    LET m == Modulated(e.modulation, s) IN
    IF e.mode = "none" THEN m
    ELSE IF e.mode = "add" THEN [alpha |-> "partial", is |-> <<"add", m.is, d.is>>]
    ELSE CASE m.alpha = "zero" -> d
           [] m.alpha = "opaque" -> m
           [] OTHER -> [alpha |-> IF d.alpha = "opaque" THEN "opaque" ELSE "partial",
                        is |-> <<"mix", m.is, d.is>>]

Keyed(e, s) == e.key /\ s = e.word.colour

-----------------------------------------------------------------------------
(* Jobs: what cmdq and the batches hand to an engine.                      *)

Store == [key |-> FALSE, modulation |-> "identity", mode |-> "none",
          solid |-> FALSE, mirror_x |-> FALSE, mirror_y |-> FALSE]

ModeOf(flags) == IF flags.mode # "unset" THEN flags.mode
                 ELSE IF flags.blend THEN "blend" ELSE "none"

\* Mutant: copies of an odd width stay on blit_copy64.
Copy64Any(d) == d.src % 2 = 0 /\ d.spitch % 2 = 0

\* sprite_batch: copy64_safe, flagged.
Copy64Safe(d) == d.width % 2 = 0 /\ d.src % 2 = 0 /\ d.spitch % 2 = 0
Flagged(d) == Drawn(d.flags) \/ ~Copy64Safe(d)

KindOf(op, d) ==
    CASE op \in {"SOLID_FILL", "FILL_BATCH"} -> "fill"
      [] op \in {"BLIT_COPY", "BLIT_COPY_KEY"} -> "copy"
      [] op = "SPRITE_BATCH" /\ ~Flagged(d) -> "copy64"
      [] OTHER -> "blend"

SpriteJob(d) ==
    IF ~Flagged(d) THEN [Store EXCEPT !.key = d.flags.key]
    ELSE [Store EXCEPT
            !.key = ~Drawn(d.flags) /\ d.flags.key,
            !.modulation = IF Drawn(d.flags) THEN d.word.modulation ELSE "identity",
            !.mode = ModeOf(d.flags),
            !.mirror_x = d.flags.mirror_x,
            !.mirror_y = d.flags.mirror_y]

JobOf(op, d) ==
    CASE op \in {"SOLID_FILL", "FILL_BATCH"} -> [Store EXCEPT !.solid = TRUE]
      [] op \in {"BLIT_COPY", "BLIT_COPY_KEY"} ->
            [Store EXCEPT !.key = (op = "BLIT_COPY_KEY")]
      [] op = "BLIT_BLEND" -> [Store EXCEPT !.mode = "blend",
                                            !.modulation = d.word.modulation]
      [] op = "BLEND_FILL" -> [Store EXCEPT !.solid = TRUE, !.mode = d.flags.mode]
      [] OTHER -> SpriteJob(d)

Job(op, d) ==
    LET e == JobOf(op, d) IN
    [kind |-> KindOf(op, d), key |-> e.key, modulation |-> e.modulation,
     mode |-> e.mode, solid |-> e.solid, mirror_x |-> e.mirror_x,
     mirror_y |-> e.mirror_y, dst |-> d.dst, dpitch |-> d.dpitch, src |-> d.src,
     spitch |-> d.spitch, width |-> d.width, height |-> d.height, word |-> d.word]

\* blit_blend: binary alpha needs no destination.
FastAlpha(j) == /\ j.kind = "blend" /\ ~j.solid /\ ~j.key
                /\ j.modulation = "identity" /\ j.mode = "blend"

-----------------------------------------------------------------------------
(* Walks.  A DRAM word is an even address and the next.  A unit of work is *)
(* the sequence of cells [to, from] an engine writes at once.              *)

Mirror(i, length, mirrored) == IF mirrored THEN length - 1 - i ELSE i

Cell(j, x, y) ==
    [to |-> j.dst + y * j.dpitch + x,
     from |-> j.src + Mirror(y, j.height, j.mirror_y) * j.spitch
                    + Mirror(x, j.width, j.mirror_x)]

\* blit_copy64 reads words: a pair is the word its source address is in.
WordCell(j, x, y) ==
    LET address == j.src + y * j.spitch + x - (x % 2)
    IN  [to |-> j.dst + y * j.dpitch + x,
         from |-> address - (address % 2) + (x % 2)]

Singles(width) == [i \in 1 .. width |-> <<i - 1>>]

\* The columns of a row by destination word, the first word short by lead.
Words(width, lead) ==
    [i \in 1 .. (width + lead + 1) \div 2 |->
        LET x == 2 * i - 2 - lead IN
        IF x < 0 THEN <<x + 1>> ELSE IF x + 1 = width THEN <<x>> ELSE <<x, x + 1>>]

Pairs(width) == [i \in 1 .. width \div 2 |-> <<2 * i - 2, 2 * i - 1>>]

Columns(j, y) ==
    LET odd == (j.dst + y * j.dpitch) % 2 IN
    CASE j.kind = "copy" -> Singles(j.width)
      [] j.kind = "copy64" -> Pairs(j.width)
      [] j.kind = "blend" -> Words(j.width, odd)
      [] j.kind = "fill" -> IF odd = 1 THEN Singles(j.width) ELSE Words(j.width, 0)

Row(j, y) ==
    LET columns == Columns(j, y)
        cell(x) == IF j.kind = "copy64" THEN WordCell(j, x, y) ELSE Cell(j, x, y)
    IN  [i \in DOMAIN columns |->
            [l \in DOMAIN columns[i] |-> cell(columns[i][l])]]

Work(j) == FlattenSeq([i \in 1 .. j.height |-> Row(j, i - 1)])

\* The units an engine counts before it is done.
Total(j) == IF j.kind = "copy64" THEN (j.width * j.height) \div 2 ELSE Len(Work(j))

-----------------------------------------------------------------------------
(* The reference: the picture a request asks for.                          *)

Inside(area, a) == /\ a >= area.address
                   /\ (a - area.address) % area.pitch < area.width
                   /\ (a - area.address) \div area.pitch < area.height

\* The source offset that shows at offset q of an axis.
ShownAt(s, d, length, mirrored, q) == IF mirrored THEN s + length - 1 - (q - d)
                                      ELSE s + (q - d)

\* A layer is a draw with the area it paints, the one it is from and its effect.
Painted(picture, layer) ==
    LET area == layer.area
        draw == layer.draw
        from == layer.from
        effect == layer.effect
        colour(a) ==
            LET x == (a - area.address) % area.pitch
                y == (a - area.address) \div area.pitch
                p == ShownAt(draw.rect.x, draw.x, draw.rect.width, effect.mirror_x, x)
                q == ShownAt(draw.rect.y, draw.y, draw.rect.height, effect.mirror_y, y)
                shown == /\ p \in draw.rect.x .. draw.rect.x + draw.rect.width - 1
                         /\ q \in draw.rect.y .. draw.rect.y + draw.rect.height - 1
                         /\ effect.solid \/ (p \in 0 .. from.width - 1 /\ q \in 0 .. from.height - 1)
                s == IF effect.solid THEN draw.word.colour
                     ELSE picture[from.address + q * from.pitch + p]
            IN  IF ~Inside(area, a) \/ ~shown THEN picture[a]
                ELSE IF effect.key /\ s = draw.word.colour THEN picture[a]
                ELSE Combine(effect, s, picture[a])
    IN  [a \in DOMAIN picture |-> colour(a)]

\* The pictures after each of some layers.
Stack(picture, layers) ==
    LET after[n \in 0 .. Len(layers)] ==
            IF n = 0 THEN picture ELSE Painted(after[n - 1], layers[n])
    IN  after

\* What the call is documented to do with each pixel.
EffectOf(op, draw) ==
    CASE op \in {"SOLID_FILL", "FILL_BATCH"} -> [Store EXCEPT !.solid = TRUE]
      [] op = "BLEND_FILL" -> [Store EXCEPT !.solid = TRUE, !.mode = draw.flags.mode]
      [] op = "BLIT_COPY" -> Store
      [] op = "BLIT_COPY_KEY" -> [Store EXCEPT !.key = TRUE]
      [] op = "BLIT_BLEND" -> [Store EXCEPT !.mode = "blend",
                                            !.modulation = draw.word.modulation]
      [] OTHER -> [Store EXCEPT !.key = draw.flags.key,
                                !.modulation = IF Drawn(draw.flags) THEN draw.word.modulation
                                               ELSE "identity",
                                !.mode = ModeOf(draw.flags),
                                !.mirror_x = draw.flags.mirror_x,
                                !.mirror_y = draw.flags.mirror_y]

\* A fill's place in its target is its rect; a descriptor is its own areas.
InPlace(draw) == [draw EXCEPT !.x = draw.rect.x, !.y = draw.rect.y]
Whole(d) == [rect |-> [x |-> 0, y |-> 0, width |-> d.width, height |-> d.height],
             x |-> 0, y |-> 0, flags |-> d.flags, word |-> d.word]
Place(address, pitch, d) == [address |-> address, pitch |-> pitch,
                             width |-> d.width, height |-> d.height]

ItemLayer(op, d) ==
    [area |-> Place(d.dst, d.dpitch, d), draw |-> Whole(d),
     from |-> Place(d.src, d.spitch, d), effect |-> EffectOf(op, d)]

DrawLayer(r, draw) ==
    [area |-> Area(r.target),
     draw |-> IF r.call \in FillCalls THEN InPlace(draw) ELSE draw,
     from |-> IF r.call \in FillCalls THEN BackBuffer ELSE Area(draw.source),
     effect |-> EffectOf(Opcode(r.call), draw)]

ItemLayers(c) == [i \in DOMAIN c.items |-> ItemLayer(c.op, c.items[i])]
Layers(r) == IF IsRaw(r) THEN ItemLayers(r.command)
             ELSE [i \in DOMAIN r.draws |-> DrawLayer(r, r.draws[i])]

Requested(picture, r) == Stack(picture, Layers(r))[Len(Layers(r))]

\* Where a command may write.
Region(c) == UNION {{a \in Dram.first .. Dram.end - 1 : Inside(Place(d.dst, d.dpitch, d), a)} :
                        d \in {c.items[i] : i \in DOMAIN c.items}}
=============================================================================
