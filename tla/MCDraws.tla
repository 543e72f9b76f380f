------------------------------ MODULE MCDraws ------------------------------
EXTENDS Draws

Span(first, end) == [first |-> first, end |-> end]
DramSpan == Span(0, 38)
ArenaSpan == Span(10, 26)
PoolSpan == Span(36, 38)

AreaAt(address, pitch, width, height) ==
    [address |-> address, pitch |-> pitch, width |-> width, height |-> height]
Back == AreaAt(0, 4, 4, 2)
LiveSurfaces == "s" :> AreaAt(10, 4, 3, 2) @@ "t" :> AreaAt(18, 4, 2, 2)

Colour(name) == [alpha |-> "opaque", is |-> <<"colour", name>>]
Key == Colour("key")
InitialMemory ==
    [a \in 0 .. 37 |->
        IF a = 11 THEN Key
        ELSE [alpha |-> CASE a \in {12, 19} -> "partial"
                          [] a \in {14, 16} -> "zero"
                          [] OTHER -> "opaque",
              is |-> <<"at", a>>]]

Rect(x, y, width, height) == [x |-> x, y |-> y, width |-> width, height |-> height]
Word(modulation) == [colour |-> Key, modulation |-> modulation]
FillDraw(rect, name) ==
    [source |-> "none", rect |-> rect, x |-> 0, y |-> 0, flags |-> Plain,
     word |-> [colour |-> Colour(name), modulation |-> "identity"]]
Draw(source, rect, x, y, flags, modulation) ==
    [source |-> source, rect |-> rect, x |-> x, y |-> y, flags |-> flags,
     word |-> Word(modulation)]
Call(call, target, draws) == [call |-> call, target |-> target, draws |-> draws]

Keying == [Plain EXCEPT !.key = TRUE]
Blending == [Plain EXCEPT !.blend = TRUE]
Adding == [Plain EXCEPT !.mode = "add"]
MirrorX(flags) == [flags EXCEPT !.mirror_x = TRUE]
MirrorY(flags) == [flags EXCEPT !.mirror_y = TRUE]

Fills ==
    {Call("fill", "t", <<FillDraw(Rect(-1, 0, 2, 2), "red")>>),
     Call("fill", "back", <<FillDraw(Rect(1, 0, 4, 1), "red")>>),
     Call("fill", "back", <<FillDraw(Rect(4, 0, 2, 2), "red")>>),
     Call("fill_batch", "t", <<FillDraw(Rect(0, 0, 2, 2), "red"),
                               FillDraw(Rect(1, 1, 3, 1), "key")>>),
     Call("blend_fill", "back",
          <<[FillDraw(Rect(1, 1, 2, 2), "red") EXCEPT !.flags = Adding]>>)}

Blits ==
    {Call("blit", "t", <<Draw("s", Rect(1, 0, 2, 2), 0, 0, Plain, "identity")>>),
     Call("blit", "s", <<Draw("s", Rect(1, 0, 2, 2), 0, 0, Plain, "identity")>>),
     Call("blend", "t", <<Draw("s", Rect(0, 0, 2, 2), 0, 0, Plain, "faint")>>),
     Call("blend", "back", <<Draw("s", Rect(0, 0, 3, 2), 1, 0, Plain, "identity")>>),
     Call("blend", "back", <<Draw("gone", Rect(0, 0, 3, 2), 1, 0, Plain, "identity")>>)}

Batches ==
    {Call("batch_to_back_buffer", "back",
          <<Draw("s", Rect(0, 0, 2, 2), 0, 0, Plain, "identity"),
            Draw("s", Rect(0, 0, 3, 2), 1, 0, Plain, "identity")>>),
     Call("draw_batch", "back",
          <<Draw("s", Rect(0, 0, 3, 2), -1, 0, MirrorX(Blending), "identity"),
            Draw("t", Rect(0, 0, 2, 1), 1, 1, Keying, "identity"),
            Draw("s", Rect(1, 0, 2, 1), 0, 0, Keying, "identity")>>),
     Call("draw_batch", "t",
          <<Draw("s", Rect(0, 0, 2, 2), 0, 0, Plain, "identity"),
            Draw("s", Rect(0, 0, 2, 2), 0, 0, MirrorY(Adding), "faint"),
            Draw("s", Rect(0, 0, 2, 2), 0, 0, Keying, "identity")>>),
     Call("draw_batch", "t",
          <<Draw("s", Rect(0, 0, 2, 2), 0, 0, MirrorX(Keying), "identity")>>),
     Call("draw_batch", "back",
          <<Draw("s", Rect(1, -1, 3, 2), 2, 0, MirrorX(Blending), "faint")>>)}

Item1(dst, dpitch, src, width, height, flags) ==
    [dst |-> dst, dpitch |-> dpitch, width |-> width, height |-> height,
     word |-> Word("identity"), flags |-> flags, src |-> src, spitch |-> 4]

\* A blend of a column of nine, and a copy that reads the last of them: of its
\* writes eight leave while the copy's descriptor is fetched.
Column == [Item1(26, 1, 0, 1, 9, Blending) EXCEPT !.spitch = 1]
ColumnFoot == Item1(2, 4, 34, 2, 1, Plain)

\* Rows that share DRAM words.
RawDraws ==
    {RawSprites(<<Item1(26, 3, 0, 3, 2, Adding)>>),
     RawSprites(<<Column, ColumnFoot>>),
     RawCommand("BLIT_COPY_KEY", Item1(26, 3, 0, 3, 2, Plain)),
     RawCommand("SOLID_FILL", Item1(26, 3, 0, 3, 2, Plain)),
     RawCommand("SOLID_FILL", Item1(18, 4, 0, 2, 2, Plain))}

AllRequests == Fills \cup Blits \cup Batches \cup RawDraws

\* For a run of its own: twelve rows of a word, none next to another in DRAM,
\* and a copy of the last row.
ChainSpan == Span(0, 102)
ChainPool == Span(100, 102)
ChainMemory == [a \in 0 .. 101 |-> [alpha |-> "opaque", is |-> <<"at", a>>]]
Rows == [Item1(26, 4, 72, 2, 12, Plain) EXCEPT !.spitch = 2]
LastRow == Item1(96, 4, 70, 2, 1, Plain)
ChainedRequests == {RawSprites(<<Rows, LastRow>>)}
=============================================================================
