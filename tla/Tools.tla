------------------------------- MODULE Tools --------------------------------
(***************************************************************************)
(* A demo or diagnostic at work (tools/, examples/): it makes the calls of *)
(* its script against a device that works through the ring at its own pace *)
(* and may stop for good.  What a tool promises is about pictures: every   *)
(* draw finds its source, every frame shown is whole, and the tool ends.   *)
(***************************************************************************)
EXTENDS ToolData, ToolScripts, FiniteSets

CONSTANTS
    Tool,           \* the tools, and the modes of those that have several
    Files,          \* BMP files
    MaxWidth,       \* the buffer
    MaxHeight,
    Capacity,       \* ring slots
    MaxFrames       \* bound on the frames of a run

ASSUME ToolsAssumption == Capacity \in Nat \ {0} /\ MaxFrames \in Nat

VARIABLES
    tool,       \* the running tool
    file,       \* the BMP file it is given
    phase,      \* "open", "setup", "frame", "close", "ok" or "failed"
    frame,      \* frames done
    at,         \* the call it is in
    shortage,   \* a map, memory or room for the sprite was not to be had
    handle,     \* the SDK's view: pending present, front buffer
    back,       \* back buffer the tool asked for
    cells,      \* texture cache: the key in each cell, 0 for none,
    recent,     \*   cells, least recently used first
    queue,      \* submitted commands not finished
    hung,       \* the device has stopped
    front,      \* buffer scanned out
    shown,      \* frame flipped to last, -1 for none of this run
    memory      \* what was drawn into each part of each region, in order

script == <<tool, file, phase, frame, at, back>>
sdk == <<handle, cells, recent>>
device == <<queue, hung, front, shown, memory>>
vars == <<script, shortage, sdk, device>>

Init ==
    /\ tool \in Tool /\ file \in Files
    /\ phase = "open" /\ frame = 0 /\ at = 1 /\ shortage = FALSE
    /\ front \in {A, B} /\ back = front
    /\ handle = [pending |-> FALSE, front |-> front]
    /\ cells = [s \in 1 .. Cells |-> 0] /\ recent = [s \in 1 .. Cells |-> s]
    /\ queue = <<>> /\ hung = FALSE /\ shown = -1
    /\ memory = [r \in Region |-> Everywhere(<<Once("old")>>)]

-----------------------------------------------------------------------------
(* Control.                                                                *)

Calls == IF phase = "frame" THEN Turn(tool, frame) ELSE Setup(tool)
Running == phase \in {"setup", "frame"}
Calling(call) ==
    Running /\ at <= Len(Calls) /\ Calls[at].call = call
This == Calls[at]

\* noodles_link_back_buffer.
BackBuffer == IF handle.pending THEN handle.front ELSE Other(handle.front)

Proceed ==
    /\ at' = at + 1
    /\ UNCHANGED <<tool, file, phase, frame, back, shortage>>

\* Whatever fails ends in tool_close and a failure's exit status.
Fail ==
    /\ phase' = "failed"
    /\ UNCHANGED <<tool, file, frame, at, back, shortage>>

Opens ==
    /\ phase = "open"
    /\ phase' = "setup" /\ back' = BackBuffer
    /\ UNCHANGED <<tool, file, frame, at, shortage, sdk, device>>

\* Mutant: the back buffer is asked for once, before the loop.
FreshOnce == back
Fresh == BackBuffer

\* A turn of the loop starts while there is time left.
TurnStarts ==
    /\ Running /\ at > Len(Calls) /\ tool \notin SinglePicture
    /\ LET done == IF phase = "frame" THEN frame + 1 ELSE 0 IN
       /\ done < MaxFrames
       /\ frame' = done
    /\ phase' = "frame" /\ at' = 1 /\ back' = Fresh
    /\ UNCHANGED <<tool, file, shortage, sdk, device>>

Ends ==
    /\ Running /\ at > Len(Calls)
    /\ phase' = "close"
    /\ UNCHANGED <<tool, file, frame, at, back, shortage, sdk, device>>

-----------------------------------------------------------------------------
(* The cache's cells.                                                      *)

Cached(key) == \E s \in 1 .. Cells : cells[s] = key
CellOf(key) == CHOOSE s \in 1 .. Cells : cells[s] = key
\* Mutant: the cell used last makes room.
VictimLast == recent[Cells]
Victim == recent[1]

\* Every tile of the batch is looked up before any is drawn.
TilesCached == \A k \in Range(This.keys) : Cached(k)

-----------------------------------------------------------------------------
(* Submissions.                                                            *)

Room == Len(queue) < Capacity
Refused(command) ==
    \/ ~Room
    \/ command.op = "present" /\ handle.pending

Submitted(command) ==
    IF command.op = "present" THEN command
    ELSE [command EXCEPT !.dst = IF @ = Back THEN back
                                 ELSE IF @ = Null THEN BackBuffer ELSE @]

Pushes ==
    /\ Calling("push") /\ ~Refused(This.command)
    /\ queue' = Append(queue, Submitted(This.command))
    /\ handle' = [handle EXCEPT !.pending = @ \/ This.command.op = "present"]
    /\ Proceed
    /\ UNCHANGED <<cells, recent, hung, front, shown, memory>>

\* After EAGAIN most of the tools give up at once; the others try for two
\* seconds, more than a live device takes.  Mutant: they try for ever.
HopelessNever(call) == call.again = "fail"
Hopeless(call) == call.again = "retry" => hung

SubmissionFails ==
    /\ \E call \in {"push", "tiles"} : Calling(call)
    /\ IF This.call = "tiles" THEN ~TilesCached \/ (~Room /\ hung)
       ELSE Refused(This.command) /\ Hopeless(This)
    /\ Fail /\ UNCHANGED <<sdk, device>>

-----------------------------------------------------------------------------
(* Waits and transfers.                                                    *)

\* A wait that ends also refreshes the front buffer.
Polled ==
    IF handle.pending /\ \A i \in DOMAIN queue : queue[i].op # "present"
    THEN [handle EXCEPT !.pending = FALSE, !.front = front]
    ELSE handle

WaitOver(done) == done /\ handle' = Polled
Uses(command, r) ==
    command.op = "draw" /\ (command.dst = r \/ r \in DOMAIN command.reads)

\* Mutant: a transfer does not wait for the surface's last command.
InUseNever(r) == FALSE
InUse(r) == \E i \in DOMAIN queue : Uses(queue[i], r)

Waited ==
    /\ Calling("wait") /\ WaitOver(queue = <<>>)
    /\ Proceed /\ UNCHANGED <<cells, recent, device>>

\* The surface calls wait for the surface, if a command used it.
Busy ==
    CASE This.call = "wait" -> queue # <<>>
      [] This.call = "tile" -> ~Cached(This.key) /\ InUse(Cell(Victim))
      [] OTHER -> InUse(This.region)

WaitTimesOut ==
    /\ \E call \in {"wait", "update", "read", "tile"} : Calling(call)
    /\ Busy /\ hung
    /\ Fail /\ UNCHANGED <<sdk, device>>

Stores(r, tags) == memory' = [memory EXCEPT ![r] = Everywhere(tags)]

\* noodles_link_upload does not wait.
Uploads ==
    /\ Calling("upload") /\ ~handle.pending
    /\ Stores(This.region, This.tags)
    /\ Proceed /\ UNCHANGED <<sdk, queue, hung, front, shown>>

Updates ==
    /\ Calling("update") /\ WaitOver(~InUse(This.region))
    /\ Stores(This.region, This.tags)
    /\ Proceed /\ UNCHANGED <<cells, recent, queue, hung, front, shown>>

Reads ==
    /\ Calling("read") /\ WaitOver(~InUse(This.region))
    /\ Proceed /\ UNCHANGED <<cells, recent, device>>

Creates ==
    /\ Calling("create") /\ Proceed /\ UNCHANGED <<sdk, device>>

\* The arguments may have resampled the sprite to any size.
Fits ==
    /\ Calling("fit") /\ Proceed /\ UNCHANGED <<sdk, device>>

\* Memory, a surface, a mapping or room for the sprite is not to be had.
RunsShort ==
    /\ \E call \in {"load", "create", "upload", "update", "read", "fit"} : Calling(call)
    /\ phase' = "failed" /\ shortage' = TRUE
    /\ UNCHANGED <<tool, file, frame, at, back, sdk, device>>

Loads ==
    /\ Calling("load")
    /\ IF BmpAccepted(file, MaxWidth, MaxHeight) THEN Proceed ELSE Fail
    /\ UNCHANGED <<sdk, device>>

-----------------------------------------------------------------------------
(* Tiles.                                                                  *)

Touched(order, s) == Append(SelectSeq(order, LAMBDA c : c # s), s)

TileReady ==
    /\ Calling("tile") /\ Cached(This.key)
    /\ Proceed /\ UNCHANGED <<sdk, device>>

TileUploads ==
    /\ Calling("tile") /\ ~Cached(This.key)
    /\ WaitOver(~InUse(Cell(Victim)))
    /\ cells' = [cells EXCEPT ![Victim] = This.key]
    /\ recent' = Touched(recent, Victim)
    /\ Stores(Cell(Victim), <<<<This.key, "tile">>>>)
    /\ Proceed /\ UNCHANGED <<queue, hung, front, shown>>

\* Clipped tiles are not drawn and do not count as used.
TileBatch(f) ==
    LET drawn == OnScreen(f) IN
    [Batch(BackBuffer, [i \in DOMAIN drawn |-> <<f, "tile", drawn[i]>>],
           [r \in {Cell(CellOf(drawn[i])) : i \in DOMAIN drawn} |->
              Everywhere(<<<<cells[r[2]], "tile">>>>)]) EXCEPT !.ground = TRUE]

TilesDraw ==
    /\ Calling("tiles") /\ TilesCached /\ Room
    /\ queue' = Append(queue, TileBatch(This.frame))
    /\ recent' = FoldLeft(LAMBDA order, k : Touched(order, CellOf(k)),
                          recent, OnScreen(This.frame))
    /\ Proceed /\ UNCHANGED <<handle, cells, hung, front, shown, memory>>

-----------------------------------------------------------------------------
(* tool_close.                                                             *)

\* The tools have waited for their last command by then.
Closes ==
    /\ phase = "close"
    /\ queue = <<>>
    /\ phase' = "ok"
    /\ UNCHANGED <<tool, file, frame, at, back, shortage, sdk, device>>

-----------------------------------------------------------------------------
(* The device.                                                             *)

Painted(content, command) ==
    [p \in Part |->
        IF p \notin command.parts THEN content[p]
        ELSE IF command.ground THEN command.tags
        ELSE content[p] \o command.tags]

Draws ==
    /\ ~hung /\ queue # <<>> /\ Head(queue).op = "draw"
    /\ LET command == Head(queue) IN
       memory' = [memory EXCEPT ![command.dst] = Painted(@, command)]
    /\ queue' = Tail(queue)
    /\ UNCHANGED <<script, shortage, sdk, hung, front, shown>>

\* At a vertical blank.
Flips ==
    /\ ~hung /\ queue # <<>> /\ Head(queue).op = "present"
    /\ front' = Other(front) /\ shown' = Head(queue).frame
    /\ queue' = Tail(queue)
    /\ UNCHANGED <<script, shortage, sdk, hung, memory>>

Hangs ==
    /\ ~hung /\ queue # <<>>
    /\ hung' = TRUE
    /\ UNCHANGED <<script, shortage, sdk, queue, front, shown, memory>>

Host ==
    \/ Opens \/ TurnStarts \/ Ends
    \/ Pushes \/ SubmissionFails
    \/ Waited \/ WaitTimesOut \/ Uploads \/ Updates \/ Reads \/ Creates \/ Fits \/ Loads
    \/ TileReady \/ TileUploads \/ TilesDraw
    \/ Closes

Next == Host \/ RunsShort \/ Draws \/ Flips \/ Hangs

Fairness == WF_vars(Host) /\ WF_vars(Draws \/ Flips)

Spec == Init /\ [][Next]_vars /\ Fairness

-----------------------------------------------------------------------------
(* Properties.                                                             *)

\* These draw into a buffer that may be shown.
DrawsInView == {"solid_fill_push", "bench", "copy_sweep", "present", "static"}

\* What a call draws into a half of the back buffer.
DrawnBy(call, p) ==
    CASE call.call = "tiles" -> [i \in DOMAIN OnScreen(call.frame) |->
                                   <<call.frame, "tile", OnScreen(call.frame)[i]>>]
      [] call.call = "push" /\ call.command.op = "draw" ->
           IF call.command.dst \in {Back, Null} /\ p \in call.command.parts
           THEN call.command.tags ELSE <<>>
      [] OTHER -> <<>>

Picture(f, p) ==
    LET calls == IF tool \in SinglePicture THEN Setup(tool) ELSE Turn(tool, f) IN
    FlattenSeq([i \in DOMAIN calls |-> DrawnBy(calls[i], p)])

\* The buffer that is scanned out holds what one frame's calls drew, all of it
\* in order and nothing else (over older frames, if the tool does not clear),
\* and nothing draws into it (the loops of stress_demo, blend_demo,
\* sprite_demo, tile_cache_demo, and the tools that show one picture).
FrameShownWhole ==
    tool \notin DrawsInView =>
      /\ queue # <<>> /\ Head(queue).op = "draw" => Head(queue).dst # front
      /\ shown >= 0 => \A p \in Part :
           IF tool = "key" THEN IsSuffix(Picture(shown, p), memory[front][p])
           ELSE memory[front][p] = Picture(shown, p)

\* A draw that starts finds in its sources, and a read-back that is due finds
\* in its surface, what the tool put there for it: the image, this frame's
\* cut-out, this tile, the draws of this case (blend_demo verify and modes,
\* tile_cache_demo, blit_copy_key_push).
DataReady ==
    /\ queue # <<>> /\ Head(queue).op = "draw" =>
         \A r \in DOMAIN Head(queue).reads :
             memory[r] = Head(queue).reads[r]
    /\ Calling("read") /\ ~InUse(This.region) =>
         memory[This.region] = Everywhere(This.tags)

\* Every tool ends: with success, unless the device stops, the file is no BMP
\* of this kind or a map, memory or room for the sprite is not to be had; a
\* tool that does not retry is not turned away by a full ring, and no visible
\* tile is evicted.
EveryToolEnds ==
    <>(\/ phase = "ok"
       \/ /\ phase = "failed"
          /\ hung \/ shortage \/ ~BmpAccepted(file, MaxWidth, MaxHeight))
=============================================================================
