# MiSTer-Noodles: specifications and proofs

MiSTer-Noodles is a 2D accelerator for the MiSTer FPGA platform. A Linux process
on the ARM side (the *host*, linked with the SDK in `lib/`) stores commands in a
ring in shared DDR3; the FPGA core (`Noodles.sv` and `rtl/`) fetches them, runs
copies, fills, blends and batches, flips display buffers and publishes a
completion count. Host and core share nothing but memory: there are no
interrupts, no locks and no acknowledgements other than words that one side
stores and the other side polls. That is where the difficulty of the system
lies, and that is what these modules are about.

## 1. Inventory

### 1.1 Components, their state and operations

| component | state | operations | specified in |
| --- | --- | --- | --- |
| SDK transport (`lib/noodles_link.c`) | write pointer, submission count, baseline and confirmed count, challenge, fault flag | push, publish, poll, wait, drain, wait_progress | `CommandRing` |
| SDK session (`lib/noodles_link.c`) | process lock, token, mapped header | open, claim, check, challenge, close; process death | `LinkSession` |
| SDK presentation (`lib/noodles_link.c`, `noodles_surface.c`) | buffer count, last two presented buffers, pending present, parity count | push_present, enable_three_buffers, barriers, back_buffer, back-buffer transfer | `Display` |
| SDK surfaces (`lib/noodles_surface.c`) | free extents, retired surfaces with fences, live surfaces | create, destroy, collect, draws, CPU transfers | `SurfaceArena`, `HostMemory` (memory), `DrawCalls`, `Draws` (pixels) |
| SDK texture cache, clipping (`lib/noodles_surface.c`) | atlas, cells with key, age and fence; clipped rectangles | create, lookup, upload, evict, draw, destroy; clip | `TextureCache`, `HostMemory`; `Clip` |
| SDK descriptor tables (`lib/noodles_link.c`) | 64 tables, the fence of each | claim by a batch, reuse after the fence | `DescriptorPool`, `HostMemory` |
| `link_ring` (`rtl/link_ring.sv`) | read pointer, slot register | initialise, poll, fetch, dispatch, write back | `CommandRing`, `LinkSession` |
| `link_control` (`rtl/link_control.sv`) | session token, last request | initialise, poll the request, claim, echo, release | `LinkSession` (all), `CommandRing` (the echo) |
| `link_fence` (`rtl/link_fence.sv`) | completion count, published word, parity | count, latch, publish | all three |
| `cmdq` (`rtl/cmdq.sv`) | the command that runs | accept, start an engine, wait for memory | `CommandRing`, `Display`, `Draws` |
| `present` (`rtl/present.sv`) | front buffer, next buffer, acknowledgement level | start, flip at vertical blank, wait for retirement | `Display` |
| framework scaler (`sys/ascal.vhd`) | base in use, retirement flags | latch base, boundary, retire | `Display`, as far as `present` depends on it |
| `ddram_adapter`, `ddram_read_owner` | write queue, read credits, owner | bursts, arbitration, reads | its delay and order in `CommandRing` and `Draws` |
| engines (`rtl/blit*.sv`, `blend*.sv`, `*_batch.sv`) | walk counters, read-ahead, descriptor in flight | copies, fills, blends, batches | `DrawEngines`, `Draws`, `BlendPx` |
| demos and diagnostics (`tools/`, `examples/`) | the frame they are at, what they computed from the SDK's answers | open, set up, draw and present frame after frame, verify, close | `ToolScripts`, `Tools`, `ToolData` |
| SDRAM path (`rtl/sdram_*.sv`) | held request, page buffers | requests, page load | not modelled: unused by drawing |
| `sdram.sv`, the rest of `sys/` | | | not modelled: third-party, driven by device timing |

### 1.2 How they interact

* *Host to core*: the slot's eight words, then the write pointer
  (`publish_command`); the token's two words, then the request sequence
  (`claim`). The core polls both, one 32-bit read at a time.
* *Core to host*: the read pointer, the fence word (count and front parity) and
  the response words, through one write mux (`Noodles.sv`: ring, then control,
  then fence) into one in-order write queue.
* *Inside the core*: `link_ring` offers a command to `cmdq` (valid/ready);
  `cmdq` starts one engine or `present` and waits for its `done` pulse and for
  memory to be idle; every done pulse steps `link_fence`'s count.
* *Core to scaler*: `present` changes the base address in vertical blank; the
  scaler latches it, and toggles a level when the frame before is retired.

### 1.3 Hard behaviours

`PROJECT.json` lists each hazard at its line. The groups are:

1. torn or stale reads of words that the other side is storing;
2. pointers and counts that wrap, and copies of them that lag;
3. a count that is confirmed by a challenge, cached, and compared by half-range;
4. a core reset at any moment: DRAM keeps everything, the core nothing;
5. a process that dies or times out at any moment, and the next one;
6. two flips, two retirements, a scaler that misses frames;
7. draws of the next frame while a flip is pending; CPU writes beside queued work;
8. one of several polling clients starving the others;
9. engines that read ahead of a write queue which their reads pass, and that share
   memory words with their neighbours;
10. cells of a texture cache that are overwritten in place while draws of them are queued;
11. programs that pipeline frames on top of all this, with retries and deadlines.

### 1.4 What makes each component correct

* Transport: every command runs exactly once, in order, whole; nothing is reported
  complete early, ever; every wait ends.
* Session: a handle that passes its check owns the core; counts and pointers are
  exact from the first command of every handle; no command of a dead process runs in
  a session of another; every claim, challenge and close is answered.
* Presentation: nothing writes into pixels that are shown or about to be; the frame
  shown is the frame presented; every flip ends.
* Descriptor tables, surfaces: memory is reused only after the last command that
  uses it has finished, and is then really reusable.
* Texture cache: every draw sees the pixels uploaded under its key, whatever is uploaded after
  it; the least recently used cell goes.
* Engines, with clipping and validation: once a command is reported finished, memory is the
  picture that the call asked for, pixel by pixel.
* Demos: the screen shows whole frames only; every tool ends.

## 2. The modules

### 2.1 CommandQueue and CommandRing: one session of the transport

`CommandQueue` is the promise, in four variables: commands are submitted, run one at a
time, finish, and are observed to have finished, in order and each once.

`CommandRing` is the code. A command's payload is its submission number in every word, so
a lost, repeated or mixed command is visible. One action stands for:

* each store of the host (`HostWriteWord`, `HostPublish`): the fetcher may read between
  any two;
* each read of `link_ring` (`RingReadPointer`, `RingReadWord`), answered with DRAM's value
  at one moment between request and use;
* each FPGA write twice: entering the adapter's write queue (`RingWriteBack`,
  `FenceWrite`) and reaching DRAM (`DramWrite`), so the pointer and the count that the
  host reads lag;
* each of the two raw samples of `noodles_link_wait_progress`; a poll is one action
  (`HostPoll`), since the host's own variables are private and it reads one moving word.

`observed` is the newest command the SDK ever reported complete. Counts are modulo
`2 * HalfRange` as in the code (2^31). The bounds of a behaviour are `MaxCommands` and the
two *rules of use*: `MaxUnconfirmed` (how many submissions an application makes between
confirmed polls) and `MaxRetained` (how old a token it still polls; docs/SDK.md asks for
less than 2^30).

Abstractions: opcodes and parameters (validation is local to `push_command`); a batch is one
command; the echo of a challenge is one action `ControlEcho` whose guard is
`link_control`'s condition for taking the bus (`LinkSession` has the whole machine).

### 2.2 LinkSession: the life of a session

The same transport with a slot stored and fetched whole, and everything around it: the
verified open step by step, the four cleared or written words after a reset, the claim,
both halves of the token, the challenge, the close, time-outs, process death anywhere
(`HandleEnds`) and core resets anywhere (`CoreReset`, `MaxResets`). DRAM (`header`, `slots`)
survives both.

Assumptions:

* one handle at a time: the process lock of `open_common` (`flock`, released by the kernel
  when a process dies). The dirty marker in the lock file only chooses between `EBUSY` and
  `EOWNERDEAD`; both refuse, and are one action `OpenBusy`.
* `Settled`, in `OpenMagic`: a core without a session has acted on the request that the
  previous process left before a new process has opened, locked and mapped the link. The
  core polls every `POLL_CYCLES` clocks, microseconds against a process start. Without it TLC finds
  claims that cross: half of the new token answers the old claim.
* A token is random 64 bits in the code and unique here.
* `RacingStores = FALSE`: no reset falls between a submission's check of the session and
  its stores. The run `stale_ring_after_reset` lifts it and shows what happens (section 6).
* The half-range rule of `CommandRing` (`PushCheck`).
* The legacy open (no claim, no challenge) is `Verified = FALSE` in `CommandRing`; it has no
  session to model.

### 2.3 Display: buffers, flips and the scaler

`Display` composes five parts: the handle's tracking of the display buffers, the command
queue, `cmdq` and `link_fence` as far as presents are concerned, `present`, and the scaler.
The contents of a buffer are the number of the newest draw or CPU write into it
(`content`), the host's intention is `planned`, and `shown` is what it had issued into the
buffer it presented. Handles follow one another (`HostClose`, `HostOpen`), so the front
buffer a handle starts from is what the fence word's parity says, including after a flip
that no completion follows.

Assumptions:

* The command queue is the FIFO that `CommandRing` implements (theorem `Implementation`), and
  an SDK call's checks and stores are one step: between them nothing else moves the host's
  variables.
* Only draws into display buffers, by opcode 11's SDK-managed path; off-screen surfaces do not matter here.
* Scaler timing: the base and the acknowledgement level cross their synchronisers within
  the front porch (`VblRise` after `fb_retired = retired_toggle`); no pixel is read between the rise of
  vertical blank and the base latch; a frame is retired only between latch and boundary.
* `RETIRE_VBLANKS = 0` in `Noodles.sv`, so `present`'s RETIRE state cannot be reached.
* `BarrierOnClose = TRUE` and `RawPresents = FALSE`: the application ends a handle with a barrier after its
  last queued flip and lets `noodles_push_present` make the first flip. The run `display_stale_parity` lifts
  the first one (section 6).

### 2.4 FencePolls, DescriptorPool, SurfaceArena, TextureCache, HostMemory: memory behind fences

The SDK's own users of the fence. `FencePolls` is the transport as they see it, no more than the
proofs of `CommandRing` give: published commands finish one by one in order, and a poll compares the
confirmed count, then the published one, with the token by half-range. `DescriptorPool` is the
search, upload, claim and reuse of descriptor tables, including batches that fail half way;
`SurfaceArena` the allocator, the retired list and its collection (one list element per
step), draws and CPU transfers. `TextureCache` extends the arena with the atlas: upload (with
its wait for the cell), eviction by age, batches and blends of cells, and the destruction that waits cell by cell. `cell` is the number of the
upload whose pixels a cell holds, and a published draw carries the numbers it is meant to read. `older` is history: the order in which cached keys were last used. They share only the stream of commands, the confirmed
count and the thread (`host_pc`); `HostMemory` composes them and adds the batches that use several.

Abstractions:

* Sizes and addresses are in pages; rectangles, pitches and pixels do not matter. A table's contents are
  one of two lists, and each upload changes it, so a rewrite under a published batch shows.
* Whether the core has answered a challenge when a poll looks is open: a poll of a raw completion
  succeeds or does not. A fence word that lags is a command that finishes later. A handle that
  is faulted, by a deadline or a lost session, does nothing more, and so may stop at any step.
* `MaxFenceAge` bounds the age (in submissions) of the fences that tables and surfaces keep. The code
  has no such bound; section 6 says what happens without it, and section 5 which properties need it.
* `noodles_surface_collect` clears nothing of a finished surface but the surface itself, and a table's
  pending bit is cleared by whichever call looks first; both are modelled so.
* The unconfirmed check of a legacy handle (`descriptor_available` without `verified`) is left out.
* A batch of cached cells draws up to `MaxDraws` cells and its clipped members do not count; a cell's place in the atlas does not matter.

### 2.5 Clip and BlendPx: pure arithmetic

`Clip` is `clip_axis` and `clip_bounds`, one operator per side, with `Shows` saying which source offset a draw shows at which destination
offset. `BlendPx` is `rtl/blend_px.sv` stage by stage and, beside it, the reference of `sim/blend_ref.h` that the
simulations compare with. Neither has state: both are proved (section 5) and `Draws` uses `Clip`.

### 2.6 DrawCalls, DrawEngines, Draws: from a call to its pixels

`DrawCalls` is what the SDK makes of a fill, blit, blend or batch: refusals, clipping, descriptors, opcode, and validation of the resulting
command. `DrawEngines` is what the core makes of a descriptor: which engine and with which parameters (`cmdq`, `sprite_batch`), and
the engine's walk, as the sequence of *units* it writes at once (a pixel, a DRAM word of two pixels, or half of one). It ends with the
reference, `Requested`: the picture of a request, pixel by pixel, from the caller's rectangles and
without clipping, descriptors or words, as a `Stack` of layers painted one after another. `Draws` is the machine: `queue`, `cmdq`, the batch sequencer, the running engine with its
read-ahead, the adapter's write queue, DRAM and the fence.

* A pixel is symbolic: the class of its alpha (zero, partial, opaque: what the binary-alpha path of `blit_blend` tells apart) and a term of what it was made of. So
  a wrong source, order, mode, key, lane or a stale destination shows as a different term; the arithmetic itself is `BlendPx`'s.
* Sources and destinations are read a unit at a time up to `Ahead` units before they are used; the adapter's writes wait in `writes` and reads pass
  them. Bursts and pipeline stalls only bound these two more tightly.
* A batch reads its descriptors through the same adapter, a word at a time, and in the adapter's command stage one queued write follows each of these reads
  before the next can (`cmd_load`, `select_write`: with no second read waiting, an accepted read is replaced by a write). `FetchWord` is such a read, and the write
  that leaves with it is part of the action; more may leave by `DrainWrite`. So a backlog of eight writes (five in a batch of fills) is gone when the next draw
  is launched, and what the drain around flagged draws protects from is a longer one.
* Addresses and pitches count pixels; a DRAM word is an even address and the next one. Modes are BLEND, ADD and a word that is not a legal mode.
* `asked` is the history of pictures: what each request makes of the picture before it, computed when it is submitted.
* Inputs (`MCDraws`): twenty requests, chosen so that every opcode, edge, key, mirror, overlap, odd width, shared word and modulation occurs. One is a blend
  of a column of nine pixels, whose writes outlast the fetch of the copy that follows and reads the last of them. Such a backlog between two plain copies is a run of its own, `draws_chain` (section 6).

### 2.7 ToolData, ToolScripts, Tools: the programs

`ToolScripts` writes down the SDK calls that each demo and diagnostic makes once and frame after frame. `Tools` runs one of them:
the handle's pending flip and front buffer, the texture cache's cells, a ring of `Capacity` commands, and a device that
draws, flips and may stop for good at any command. Memory holds, per half of each region, the tags of what was drawn there. `ToolData` is the
tools' arithmetic: bouncing sprites, nearest-neighbour scaling, and the acceptance and conversion of a BMP file.

* A live device answers within the tools' deadlines (two seconds), so retries and waits run out only when it has stopped (`hung`).
* Tools that fail end in `tool_close`, whose drain is not observable; `Fail` ends there. Those that succeed have waited for their last command, so that the drain of `Closes` has nothing left to fail on.
* The tile map is `Tiles` columns by one row with a window of `Window` and a cache of `Cells`: as in the code the cache is larger than what is visible and smaller than the map. One batch stands for the
  three that a frame's tiles are split into. The cases of `blend_demo verify` run one after another as the frames of a tool.
* `stress_demo` refuses a sprite that fills the buffer only after its upload (`Fit`). Its arguments may have resampled the file's picture to any size, so either outcome is possible.
* `stress_demo`'s modes fixed, overlap and plain are `sprites`, its key-never, key-all and key-checker are `key`. `load_bmp` and `stress_demo` read their file
  before they open the link; the model opens first, on which nothing depends.
* `DrawsInView` names the tools that draw into a buffer on the screen on purpose or without caring (benchmarks, single fills); whole frames are not asked of them.

### 2.8 MC modules

`MCCommandRing` defines the baseline: the session opens two completions before the count wraps
(the pointers start at any slot). `MCDraws` defines the two surfaces, the back buffer, the memory map in miniature and the requests, `MCTools` the tools and two
files, one cut short. The others only extend their module.

## 3. Runs

| run | what it asks | bounds | why they are enough |
| --- | --- | --- | --- |
| `command_ring` | no torn, skipped or repeated command; counts; refinement of `CommandQueue`; every command finishes, every wait returns | 2 slots of 2 words, modulus 8, write queue of 2, 4 commands | the ring wraps and fills, the count wraps, two words can tear, both write-queue orders occur, polls compete with challenges; the proofs cover other sizes |
| `command_ring_unconfirmed` | violation | half range 4, no confirmation for 5 submissions | |
| `display` | nothing on screen is disturbed; frame intact; queued flip retired | queue 3, 6 commands, 3 paints | two rotations of three buffers and the first flip with its barrier, two handles, mode switch, CPU transfer between queued flips |
| `display_liveness` | every command completes | queue 2, 4 commands, 1 paint | legacy flips, queued flips and barriers behind a flip, missed boundaries |
| `display_stale_parity` | violation | as `display` | |
| `link_session` | ownership, counts, own commands once, every request answered | 2 handles, 1 reset, 3 commands and 2 challenges each, 3 slots, modulus 4 | a reset in every state of both sides, a dying and a second process, wraps of ring and count. Safety also passes with 3 handles and 2 resets (3.5 million states, not kept as a run) |
| `stale_ring_after_reset` | violation | as `link_session` | |
| `host_memory` | tables and pages are reused only behind their last command, none is lost, a finished use is seen | 2 tables, 3 pages, 2 surfaces, ring of 2, 3 commands, modulus 6 opened two before the wrap, fences up to 2 old | both tables busy, extents that split and merge on both sides, a destroyed surface still in use, a collection that fails in the middle, a wrap of the fence |
| `texture_cache` | draws see their pixels; the least recent cell goes; the atlas outlives its draws; every call returns | 2 cells, 3 keys, 3 uploads, batches of 2, 2 commands, 1 table, 1 page | a full cache, an upload over a cell in flight, a batch with one cell twice, a destruction with draws in flight, and a page that the next surface needs |
| `draws` | the picture in DRAM is the one asked for; every draw finishes | 2 commands of 20 requests, 38 pixels of memory, read-ahead 2, write queue 9 | a second command that overlaps the first, a queue that fills, a backlog that is longer than a descriptor fetch, every engine after every other; a request alone already has up to three descriptors |
| `draws_chain` | violation | one request, 102 pixels of memory, read-ahead and write queue of 16 as in the code | twelve writes queued when the second descriptor's fetch starts |
| `tools` | whole frames, ready data, every tool ends | 22 tools and modes, 9 frames, ring of 2, 2 sprites, 6 tiles, window of 3, 4 cells | a full ring, both buffers many times over, a camera that wraps around and evicts, a device that stops at any command |

Deadlock is checked where a bound cannot stop the system; in `Display`, `LinkSession`, `HostMemory`, `Draws`, `Tools` and the runs for a
violation the bounded host may end with nothing to do, so `CHECK_DEADLOCK FALSE`.

Every property has a mutant of the code (in its module, marked *Mutant*) that breaks it.

## 4. Fairness

* Core and scaler run on clocks: weak fairness of each state machine's step.
* An SDK call that was started runs on (weak fairness of the steps inside a call); the application
  owes nothing: no fairness of a push, a poll, an open or a close.
* `link_control` may read only while command queue, ring reads and adapter are idle, and samples that
  on every clock (`ControlEcho`, `ControlStartPoll`): strong fairness. The code justifies it because
  `link_ring` is idle for a clock between two polls and `link_control` waits in IDLE.
* `FenceWrite` in `LinkSession` yields to two other writers of the mux, each of which needs the port
  for one word only now and then: strong fairness. (`CommandRing` needs only weak fairness: its queue is
  explicit.)
* `PresentAck` compares a level that alternates on every frame and looks on every clock, while the model may
  pass a frame in four steps: strong fairness.
* `ScalerRetire` may miss any number of boundaries but not all: strong fairness. This is an assumption about the
  third-party scaler (it has a counter for the misses); if it missed every one, flips would stop.
* `HostMemory`: weak fairness of the steps of a started call and of the engine, none of the application's calls.
* `Draws`: weak fairness of the core as a whole; each of its steps is a clocked machine that never waits for the host.
* `Tools`: weak fairness of the program, which is one running thread, and of the device as long as it has not stopped; nothing forces or forbids `Hangs`. A process
  with a deadline always continues, since `SubmissionFails` and `WaitTimesOut` are steps of the program.

## 5. What is proved

`CommandRing_proof`, for every ring size, slot width, fence modulus, write-queue depth and every
bound. Assumptions: `RingAssumption` and `FenceAssumption` (sizes positive, a retained token younger than half the
range), and where stated `Confirming` (`MaxUnconfirmed <= HalfRange`).

* `TypeCorrect`: `TypeOK`.
* `TransportCorrect`: `TransportInv`, the inductive invariant of the ring. `DispatchedWhole` alone is not inductive:
  whether a slot is whole depends on which slots the host may store into, which depends on a lagging pointer.
  So the invariant orders all copies of the read pointer by their distance to the write pointer (in DRAM, then in the
  order of the write queue, then the real one), says what each slot between the real pointer and the write pointer
  holds, what the fetch register has so far and what the engine runs. `NoTornCommand`, `NeverFullAndEqual` and
  `NeverOverwritten` follow.
* `CountCorrect` (assuming `Confirming`): `CountInv`. Every copy of the count (at the engine, latched, queued, in DRAM, sampled,
  confirmed) is expressed as the number of completions it has not seen (`Unseen`, its distance to the last token),
  and the copies are ordered by age. The confirmed count is at most half the range behind, which is exactly what makes
  the half-range comparison right (`Comparison`). `ReportsSound`, `ReportsStable` and `WaitsEnd` follow.
* `Implementation`: `Spec => ImplementsQueue`, that is, `CommandRing` refines `CommandQueue` (assuming `Confirming`).

`DrawEngines_proof` (first part, about `Clip`), for all offsets, lengths and limits: `ClipKeepsVisiblePixels` (after cutting all four sides, mirrored or not, an axis shows exactly the
pairs of offsets that the whole draw shows and that are inside both surfaces) and `ClippedDrawInside`. One lemma per side, each saying that this side
keeps what the others need.

`Arithmetic_proof`, about `BlendPx`, for every pixel, modulation and mode: `PipelineMatchesReference`. The pipeline has no divider: `Div255` is a sum and a shift, exact
for products of two bytes (`Div255Exact`, by uniqueness of quotient and remainder), and the carry of a single rounding is
decided from the two remainders' low bytes (`CarryExact`). `TransparentKeepsDestination` and `OpaqueReplacesDestination` justify the binary-alpha
path of `blit_blend` that `Draws` models as `EmitFast`.

`Arithmetic_proof`, about `ToolData`: `BounceStaysInside`, `NearestInside` and `BmpReadsInside` (no index leaves the back buffer, the image, the file), for all sizes. These tools compute raw
addresses from these indices.

`LinkSession_proof`, for every ring, fence modulus and number of handles, deaths and resets, without assumptions beyond the sizes being positive:

* `TypeCorrect`: `TypeOK`, with the small invariant `CallInv` (what is known of the handle between two steps of a call).
* `HandshakeCorrect`: `HandshakeInv`, the inductive invariant of claim, challenge and answer. `CheckMeansOwned` is about three words that two sides store one at a
  time, so it needs where each of them can be: `TokenInv` (a token is nowhere before its handle has stored it, half by half), `ControlInv` (the answer in DRAM is the
  core's session, or clear, or about to be cleared) and `RequestInv` (a live handle's request stays, so only a reset can take its session away). `CheckSound` follows: a handle
  whose check passes owns the session with both halves of its token, or the core is just resetting and has not cleared the old answer yet.

`LinkSessionRing_proof`, assuming `RacingStores = FALSE` (no reset between a submission's check and its stores; the run `stale_ring_after_reset` shows that the statements are false without
it). `DeviceCorrect`: `DeviceInv`, on top of `HandshakeInv`, with one part per question:

* `RingInv`: either the core and DRAM agree that there is nothing to run (`Quiet`), or a session is held that no close can end before it has drained (`Busy`). This is what a claim,
  a close and a death in any state preserve, and why a new session starts on an empty ring.
* `ContentInv`: what lies between read and write pointer are the session's own commands, in order and not run yet. `OwnCommandsRun` and `CommandsRunOnce` follow.
* `CountInv`, `ClaimInv`: while a session is held, each copy of the count is behind the one before it by distance to the last fence, and all of them are zero from a claim to its answer. `CountsSound` follows.
* `ReportInv`: whatever makes the handle believe that its last fence has passed (a cached count, the word in DRAM, the word of an earlier core), the command has finished. `ReportsSound` follows.

`Display_proof`, for every queue size and any number of commands, paints and handles:

* `TypeCorrect` and `FlipRetiredLatched` (`QueuedFlipRetired`), unconditionally. The second needs `RetireInv`, which relates the level that `present` captured to the
  scaler's toggle and its synchronised copy for as long as the scaler's base is not the new front.
* `ScanoutSafe` (`ScanoutUndisturbed`), assuming `BarrierOnClose = TRUE` and `RawPresents = FALSE`; the run `display_stale_parity` shows the first to be needed, section 6 the second.
  What protects the screen is not in one place: the host's waits bound what the queue can hold, and `cmdq` and `present` run that later. So `DisplayInv` has `CmdqInv` and `NumberInv` (where the
  count and its copies stand), `BatchInv` (the queue holds the commands of one present at most, each flip with its barrier, and none once the fence covers it), `SettledInv` (when no flip is under
  way, and every copy of the parity is the front buffer's) and `ScreenInv` (which buffers each queued draw, each queued flip and the host's next draw may touch, given what is or is about to be on the screen).
* `FramesIntact` (`FrameIntact`), from the same, with `PaintInv`: what each buffer holds and what the queue will add to it make up what the host has issued.

`HostMemory_proof`, for every number of tables, pages, surfaces, cells, keys and commands and every ring and fence range. Assumption: `MaxUnconfirmed <= HalfRange`, which is `Confirming` of the transport's
proof.

* `MemoryCorrect`: `MemoryInv`. No safety property here is inductive, because what protects a table, surface or cell is not that a command names it but the fence
  kept for it. So the central parts (`TableInv`, `UseInv`, `ReadInv`) say of command *i* of those pending that what it names carries a fence that is not older than it (`Pending`), and `LinkInv` that
  the count which polls compare with is at most half the range behind; then no poll reports it reached (`NotComplete`). The others say where the allocator (`PartitionInv`), the collection
  (`CollectInv`), the names (`NameInv`), the atlas, the cells and an interrupted upload or destruction (`AtlasInv`, `CellInv`, `TargetInv`) are between two steps.
* `TablesSafe`, `ArenaPartitioned`, `UsesKept`, `CpuExclusive` and `CellsSafe` follow without further assumptions: they hold however old the fences are that tables and surfaces keep. An old fence
  is taken for unreached, which is safe and not live.
* `FinishedBatchesSeen` and `FinishedUsesSeen` are the other half, that nothing is lost, and need `MaxFenceAge < HalfRange`: section 6 shows what happens to a surface that is idle for longer. Their
  invariant `SeenCorrect` says that a kept fence is exactly the one of the newest command that names the table or surface.
* `RecencyCorrect`: `RecencyInv`. The order in which cached keys were used is kept as a relation (`older`), not as ages, and `OlderInv` says that the ages of the cells agree with it, although a batch ages
  several cells at once and an upload writes a cell long after it was chosen; `VictimInv` says that the cell chosen is still the oldest when it is stored into. `LeastRecentEvicted` (`EvictsLeastRecent`) follows.
* `TypeCorrect` is `TypeOK`, from both.

`DrawEngines_proof` (second part), for every call, raw command, surface layout and picture. Assumption: `DrawCallsAssumption` (surfaces have a size, lie in the arena apart from each other, and a back buffer outside of it). These
are lemmas about operators, and all of the proof that is not about interleaving:

* `PushedPicture`: the picture a call asks for, computed from the caller's rectangles alone, is the one that the command's descriptors paint one after another. Clipping drops some draws and cuts others, so the two
  sequences differ; `Placed` relates them by the position each draw's descriptor gets.
* `ItemTask`: the walk of the engine that a descriptor is handed to (`Work`: single pixels, words of two, or the half of a word at an odd edge) meets every pixel of the rectangle, none twice and none outside of it,
  from the source the layer shows there. The rest of the proof takes an engine as such a task and never looks at a walk again.
* `CallApart`: no descriptor of an SDK call reads what one of them writes.

`Draws_proof`, for every set of requests and any number of them, every read-ahead and every depth of the write queue:

* `TypeCorrect`: `TypeOK`, without further assumptions.
* `FinishedCorrect` and `InOrderCorrect` (`FinishedAsRequested`, `DescriptorsInOrder`), assuming `RawSourcesApart`: a raw command reads nothing that it writes in the same descriptor, or in an earlier one of an unflagged run. The run
  `draws_chain` shows that this is needed: its one command violates this condition, and the twenty requests of `draws` meet it. `CallsFinished`: applications that use the SDK's calls alone need no such condition (`CallApart`).

The two properties only say something about finished commands, while everything that could go wrong happens before. The inductive invariant is `Structure /\ Content`.

* `Structure` holds whatever is drawn. `History` gives each picture in `asked` its command; `Sequencer`, `FlagSeen`, `EngineRuns` and `Counters` say which item of the command runs (`ItemsDone`), which units of it are left,
  and how far each copy of the count is; `Queued` puts each fence behind the writes that it vouches for.
* `Content` is about pixels. `Landing`: for each address, the writes pending, drained over DRAM, leave the pixel that the picture after the items and units done so far has there (`Settles`). `Origin`: an address with a write
  pending belongs to the running unit's item, to the item just done, or to an unflagged run of sprites that has not drained. `ReadAhead`: what the engine has read ahead is the picture before its item.
* `ReadAhead` is where reads pass writes: an engine may read an address only if no write is pending there. `Origin` says which items could have one, and these are just the ones that `Apart` keeps from the sources, or that
  the sequencer drains before a flagged item reads its destination; `Landing` without a pending write says that DRAM is the picture.
* Behind a fence nothing is pending, so `Landing` at a published count is `FinishedAsRequested`, and later commands change their own regions only (`PicturesAlike`).

Recursive definitions (`Stack`, the folds behind `FlattenSeq` and the walks) are unfolded for every length although no backend can instantiate an induction theorem: `UpTo` is induction over a *set* of
numbers, from the existence of a least one (`NatLessThanWellFounded`), and the lemmas apply it to the set of the lengths for which they hold.

Only model-checked:

* liveness under fairness and ENABLED (out of the prover's reach): `EveryCommandFinishes`, `WaitReturns`, `EveryRequestAnswered`, `EveryCallReturns`, `EveryDrawFinishes`, `EveryToolEnds`;
* `Tools`: `FrameShownWhole` and `DataReady` are about twenty-two particular scripts, written down call by call in `ToolScripts`. Each script needs an invariant of its own (what has been drawn into which half of which region at each
  of its steps), which says no more than running it does; TLC runs every one of them to its end against every behaviour of the device.

## 6. What the models found

Each is a run that TLC ends with a counterexample; `PROJECT.json` quotes the text that the code contradicts.

1. `command_ring_unconfirmed`: the answer from the cached confirmed count has no lower
   bound on how old that count is. After half the range of submissions without a confirming
   poll, a fresh token is reported complete. (With 2^30 commands it takes long-lived programs that
   never poll.) `Confirming` is the rule of use that the proof needs.
2. `display_stale_parity`: the fence word's parity is captured when a queued flip is accepted and
   not when it happens; a handle closed right after it leaves the old parity for the next one. Closing with a barrier avoids it.
3. `stale_ring_after_reset`: a store that races a reset leaves a write pointer that the
   initialised ring takes as commands once the next session is armed.
4. `draws_chain`: the sequencer of a batch does not wait between two plain copies, so the second may read what the first has
   written before it reaches DRAM. Between the two it only fetches the second descriptor, and with each of its eight words the port takes at least one of the queued
   writes, and a ninth before the copy's first read if the command stage held one to begin with. A single queued write is therefore never overtaken; more than nine can be, when the
   port takes no more than it must. The run copies twelve rows of one DRAM word each, not adjacent (the adapter would gather adjacent words into one burst), all of which
   `blit_copy64` reads before its first write, and then copies the last row: in the trace eight writes leave during the fetch, and the second copy's only read passes
   the other four. The SDK's own batches refuse a source that is their target; a raw batch is not refused.

Four more disagreements have no run of their own:

* *A legacy flip takes an older retirement.* `present.sv:82` captures the acknowledgement level when the flip starts, and a retirement of an
  earlier frame between base latch and its own ends the wait early; docs/INTEGRATION.md:121 says that it "waits for scanout retirement".
  `PresentRetired` in `Display` states it and fails with the constants of `Display.cfg`.
* *Opcode 11 pushed raw.* As the first flip of a three-buffer handle, without the barrier that `noodles_push_present` adds, it makes the displayed C buffer the back
  buffer (`noodles_link.c:664`, docs/SDK.md:180): `ScanoutUndisturbed` fails with `RawPresents = TRUE`.
* *A surface that is idle for half the fence range.* A surface keeps the fence of its last use until the CPU or the next use replaces it. 2^30 submissions later the
  finished fence reads as unreached: a CPU transfer waits until its timeout and faults the handle, and a destroyed surface's pages do not come back. `FinishedUseSeen` fails in `MCHostMemory` with
  HalfRange 2, MaxUnconfirmed 2, RingCapacity 2, MaxCommands 4, Baseline 3, Tables 1, ArenaPages 2, MaxSurfaces 1, MaxFenceAge 4 and no cache. The token rule of docs/SDK.md is about tokens that the application holds.
* *Demos.* `stress_demo.c:396` fills both buffers "while output is still blank", which is not so after an earlier session; its fixed and overlapping sprites are placed
  without looking at the picture's size; `blit_copy_key_push.c` centres its square with the width on both axes; a sprite of 600 pixels is accepted and refused after its upload (`stress_demo.c:351`; the call `Fit`); `load_bmp` does not check where it puts
  the picture. The SDK's validation keeps what is drawn inside the memory that raw commands may name.

## 7. Plan

Done: the transport, sessions, display, memory behind fences, texture cache, draws from call to pixel, the programs, and the theorems of section 5. Next, in order:

1. The refinement of `FencePolls` by `CommandRing`, so that section 2.4's view of the transport is a theorem and not only the words of `CommandQueue`.
2. A second batch whose descriptor table is rewritten early, by composing `Draws` with `DescriptorPool`.
3. The legacy handle (no session, one descriptor table, unconfirmed checks) in `DescriptorPool`.
4. The adapter's credits and `ddram_read_owner` as a model that refines an in-order write queue with reads that pass it, if a client is added whose reads could overlap another's.

## 8. Not modelled, and why

* The SDRAM controller and the MiSTer framework outside the scaler's handshake: third-party, device timing. The SDRAM path itself: `Noodles.sv` ties its reading port off, and no drawing call
  submits OP_LOAD_SDRAM.
* `ddram_read_owner` and the adapter's bursts and credits: inside of one clock domain and invisible to the other modules, apart from order and delay, which are modelled. The owner's invariant is proved by
  the repository itself (`fv/ddram_read_owner.sby`).
* Clock-domain crossings below the level of "arrives later", and the video timing itself.
* The raw memory dumps among the tools (`mem_scan`, `link_slot_dump`, `present_probe_dump`), argument parsing and statistics; the simulations and tests under `sim/`, other than the reference formulas.
