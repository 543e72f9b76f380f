---------------------------- MODULE ToolScripts -----------------------------
(***************************************************************************)
(* The demos and diagnostics (tools/, examples/): the SDK calls that each  *)
(* makes once, and those it makes frame after frame.                       *)
(***************************************************************************)
EXTENDS Naturals, Sequences, SequencesExt, TLC

CONSTANTS
    Sprites,        \* draws of a frame
    Tiles,          \* tile_cache_demo: columns of the map,
    Window,         \*   of the screen, the last one cut off half of the time,
    Cells           \*   and the cache's cells

ASSUME ToolScriptsAssumption ==
    /\ Sprites \in Nat \ {0}
    /\ Tiles \in Nat /\ Window \in 2 .. Tiles /\ Cells \in Nat \ {0}

Part == {1, 2}                  \* a picture's halves
\* What was drawn is named by tags: the frame, the kind, the number.
Everywhere(tags) == [p \in Part |-> tags]
Cell(s) == <<"cell", s>>
Scratch(i) == <<"scratch", i>>
A == <<"A", 0>>
B == <<"B", 0>>
Source == <<"source", 0>>       \* fixed addresses outside the buffers
Sprite == <<"sprite", 0>>       \* managed surfaces
Mask == <<"mask", 0>>
Target == <<"target", 0>>
Region == {A, B, Source, Sprite, Mask, Target}
            \cup {Scratch(i) : i \in 1 .. Sprites}
            \cup {Cell(s) : s \in 1 .. Cells}
Other(buffer) == IF buffer = A THEN B ELSE A
Back == <<"back", 0>>           \* the buffer asked for last,
Null == <<"NULL", 0>>           \*   the one of the moment
Once(name) == <<0, name>>       \* what is drawn by no frame in particular

-----------------------------------------------------------------------------
(* Commands and calls.                                                     *)

NoReads == [r \in {} |-> Everywhere(<<>>)]

Command(dst, parts, ground, tags, reads) ==
    [op |-> "draw", dst |-> dst, parts |-> parts, ground |-> ground,
     tags |-> tags, reads |-> reads]
Fill(dst, tag) == Command(dst, Part, TRUE, <<tag>>, NoReads)
Bar(dst, p, tag) == Command(dst, {p}, TRUE, <<tag>>, NoReads)
Mark(dst, tag) == Command(dst, Part, FALSE, <<tag>>, NoReads)
Copy(dst, tag, reads) == Command(dst, Part, FALSE, <<tag>>, reads)
Batch(dst, tags, reads) == Command(dst, Part, FALSE, tags, reads)
Flip(f) == [op |-> "present", frame |-> f]

\* again: what the tool does about EAGAIN.
Push(command, again) == [call |-> "push", command |-> command, again |-> again]
Wait == [call |-> "wait"]
Load == [call |-> "load"]
Create == [call |-> "create"]
Fit == [call |-> "fit"]
Upload(r, tags) == [call |-> "upload", region |-> r, tags |-> tags]
Update(r, tags) == [call |-> "update", region |-> r, tags |-> tags]
Read(r, tags) == [call |-> "read", region |-> r, tags |-> tags]
PutTile(k) == [call |-> "tile", key |-> k]
DrawTiles(f, keys) == [call |-> "tiles", frame |-> f, keys |-> keys]
PresentAndWait(f, again) == <<Push(Flip(f), again), Wait>>

PushAndWait(command) == <<Push(command, "fail"), Wait>>
Retried(commands) == [i \in DOMAIN commands |-> Push(commands[i], "retry")]

-----------------------------------------------------------------------------
(* The tools that wait for each command.                                   *)

Drawn(f, i) == <<f, "sprite", i>>
Ground(f) == <<f, "ground">>
From(r, tags) == r :> Everywhere(tags)

LinkPush == PushAndWait(Fill(Back, Ground(0))) \o PresentAndWait(0, "fail")

PresentDemo(f) ==
    PushAndWait(Fill(Back, Ground(f))) \o PresentAndWait(f, "fail")

SolidFillPush == PushAndWait(Fill(A, Ground(0)))

SdkSmoke == <<Push(Fill(Back, Ground(0)), "fail"), Push(Flip(0), "fail"), Wait>>

BlitCopyPush ==
    PushAndWait(Fill(Source, Once("colour")))
    \o PushAndWait([Fill(Back, Ground(0)) EXCEPT
                      !.reads = From(Source, <<Once("colour")>>)])
    \o PresentAndWait(0, "fail")

BlitCopyKeyPush ==
    PushAndWait(Fill(Back, Ground(0)))
    \o PushAndWait(Fill(Source, Once("key")))
    \o PushAndWait(Mark(Source, Once("square")))
    \o PushAndWait(Copy(Back, Drawn(0, 1), From(Source, <<Once("key"), Once("square")>>)))
    \o PresentAndWait(0, "fail")

LoadBmp ==
    <<Load, Upload(Source, <<Once("image")>>)>>
    \o PushAndWait(Fill(Back, Ground(0)))
    \o PushAndWait(Copy(Back, Drawn(0, 1), From(Source, <<Once("image")>>)))
    \o PresentAndWait(0, "fail")

BuildSprite ==
    PushAndWait(Fill(Source, Once("key")))
    \o PushAndWait(Mark(Source, Once("body"))) \o PushAndWait(Mark(Source, Once("head")))

\* One keyed copy, or a batch of one.
SpriteDemo(f) ==
    PushAndWait(Fill(Back, Ground(f)))
    \o PushAndWait(Copy(Back, Drawn(f, 1),
                        From(Source, <<Once("key"), Once("body"), Once("head")>>)))
    \o PresentAndWait(f, "fail")

-----------------------------------------------------------------------------
(* The measurements, which draw into a buffer that may be shown.           *)

BenchSource == PushAndWait(Fill(Source, Once("grey")))

RunBench(f) ==
    Append(Retried(IF f = 0 THEN [i \in 1 .. Sprites |-> Fill(A, Drawn(f, i))]
                   ELSE [i \in 1 .. Sprites |->
                           Copy(A, Drawn(f, i), From(Source, <<Once("grey")>>))]),
           Wait)

RunCase(f) ==
    PushAndWait(Copy(A, Drawn(f, 1), From(Source, <<Once("grey")>>)))

-----------------------------------------------------------------------------
(* stress_demo.                                                            *)

\* The sprite must leave room to bounce in the buffer.
SpriteUpload == <<Load, Upload(Source, <<Once("image")>>), Fit>>
AllSprites(f) == [i \in 1 .. Sprites |-> Drawn(f, i)]
FromImage == From(Source, <<Once("image")>>)

Copies(f) == Retried([i \in 1 .. Sprites |-> Copy(Back, Drawn(f, i), FromImage)])
SpriteBatch(f) == Retried(<<Batch(Back, AllSprites(f), FromImage)>>)
Clear(f) == Retried(<<Fill(Back, Ground(f))>>)

StressFrame(mode, f) ==
    (CASE mode = "sprites" -> Clear(f) \o Copies(f)
       [] mode = "sprites_batch" -> Clear(f) \o SpriteBatch(f) \o SpriteBatch(f)
       [] mode = "key" -> Copies(f)
       [] mode = "clear" -> Clear(f)
       [] mode = "present" -> <<>>)
    \o PresentAndWait(f, "retry")

\* Modes present and static: both buffers, one of which may be shown.
Prefill ==
    SpriteUpload
    \o Retried(<<Fill(A, Once("background")), Fill(B, Once("brown"))>>)
    \o PresentAndWait(0, "retry")

BlitBench(f) == Append(SpriteBatch(f), Wait)

-----------------------------------------------------------------------------
(* blend_demo.                                                             *)

VerifySurfaces == <<Create, Create>>

\* A case: both surfaces are set, drawn with and compared pixel by pixel.
Case(f, draws) ==
    <<Update(Target, <<<<f, "pixels">>>>), Update(Sprite, <<<<f, "pixels">>>>)>>
    \o Retried(draws)
    \o <<Read(Target, <<<<f, "pixels">>>>
                      \o FlattenSeq([i \in DOMAIN draws |-> draws[i].tags]))>>
FromPixels(f) == From(Sprite, <<<<f, "pixels">>>>)

VerifyBlend(f) == Case(f, <<Copy(Target, Drawn(f, 1), FromPixels(f))>>)
VerifyFill(f) == Case(f, <<Mark(Target, Drawn(f, 1))>>)
\* Batches that overlap in the target.
VerifyBatch(f) ==
    Case(f, <<Batch(Target, <<Drawn(f, 1), Drawn(f, 2)>>, FromPixels(f)),
              Batch(Target, <<Drawn(f, 3)>>, FromPixels(f))>>)

\* The three kinds in turn, instead of one after the other.
Verify(f) ==
    CASE f % 3 = 0 -> VerifyBlend(f)
      [] f % 3 = 1 -> VerifyFill(f)
      [] OTHER -> VerifyBatch(f)

SpriteSurface == <<Create, Update(Sprite, <<Once("arrow")>>)>>
FromArrow == From(Sprite, <<Once("arrow")>>)

BlendBench(f) ==
    Append(IF f % 2 = 0
           THEN Retried([i \in 1 .. Sprites |-> Copy(Null, Drawn(f, i), FromArrow)])
           ELSE Retried(<<Batch(Null, AllSprites(f), FromArrow)>>),
           Wait)

Bars(f) == Retried(<<Bar(Back, 1, <<f, "bar", 1>>), Bar(Back, 2, <<f, "bar", 2>>)>>)

Show(f) ==
    Bars(f) \o Retried(<<Batch(Null, AllSprites(f), FromArrow)>>)
    \o PresentAndWait(f, "retry")

ModesSurfaces ==
    <<Create, Update(Mask, <<Once("wall")>>)>> \o [i \in 1 .. Sprites |-> Create]

\* The arrow into its scratch surface, the wall cut from it.
CutOut(f, i) ==
    [Batch(Scratch(i), <<<<f, "arrow">>, <<f, "cut">>>>,
           FromArrow @@ From(Mask, <<Once("wall")>>)) EXCEPT !.ground = TRUE]
Composite(f, i) ==
    Batch(Null, <<Drawn(f, i)>>,
          From(Scratch(i), <<<<f, "arrow">>, <<f, "cut">>>>))

Modes(f) ==
    Bars(f) \o Retried(<<Mark(Back, <<f, "wall">>)>>)
    \o FlattenSeq([i \in 1 .. Sprites |->
                     Retried(<<CutOut(f, i), Composite(f, i)>>)])
    \o PresentAndWait(f, "retry")

-----------------------------------------------------------------------------
(* tile_cache_demo: half a column a frame, around the map.                 *)

First(f) == (f \div 2) % (Tiles - Window + 1)
Columns(f) == [i \in 1 .. Window |-> First(f) + i]
\* The last column is clipped away until the camera has moved on.
OnScreen(f) == IF f % 2 = 1 THEN Columns(f) ELSE Front(Columns(f))

TileFrame(f) ==
    [i \in 1 .. Window |-> PutTile(Columns(f)[i])]
    \o <<DrawTiles(f, Columns(f))>> \o PresentAndWait(f, "fail")

-----------------------------------------------------------------------------
(* Each tool's calls before its loop, and in a turn of it.                 *)

Setup(tool) ==
    CASE tool = "link_push" -> LinkPush
      [] tool = "solid_fill_push" -> SolidFillPush
      [] tool = "sdk_smoke" -> SdkSmoke
      [] tool = "blit_copy_push" -> BlitCopyPush
      [] tool = "blit_copy_key_push" -> BlitCopyKeyPush
      [] tool = "load_bmp" -> LoadBmp
      [] tool = "present_demo" -> <<>>
      [] tool = "sprite_demo" -> BuildSprite
      [] tool \in {"bench", "copy_sweep"} -> BenchSource
      [] tool \in {"sprites", "sprites_batch", "key", "clear", "blit_bench"} ->
           SpriteUpload
      [] tool \in {"present", "static"} -> Prefill
      [] tool = "verify" -> VerifySurfaces
      [] tool \in {"blend_bench", "show"} -> SpriteSurface
      [] tool = "modes" -> SpriteSurface \o ModesSurfaces
      [] tool = "tile_cache_demo" -> <<Create>>

SinglePicture == {"link_push", "solid_fill_push", "sdk_smoke", "blit_copy_push",
         "blit_copy_key_push", "load_bmp", "static"}

Turn(tool, f) ==
    CASE tool = "present_demo" -> PresentDemo(f)
      [] tool = "sprite_demo" -> SpriteDemo(f)
      [] tool = "bench" -> RunBench(f)
      [] tool = "copy_sweep" -> RunCase(f)
      [] tool \in {"sprites", "sprites_batch", "key", "clear", "present"} ->
           StressFrame(tool, f)
      [] tool = "blit_bench" -> BlitBench(f)
      [] tool = "verify" -> Verify(f)
      [] tool = "blend_bench" -> BlendBench(f)
      [] tool = "show" -> Show(f)
      [] tool = "modes" -> Modes(f)
      [] tool = "tile_cache_demo" -> TileFrame(f)
=============================================================================
