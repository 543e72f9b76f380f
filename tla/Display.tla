------------------------------ MODULE Display ------------------------------
(***************************************************************************)
(* Display buffers, from the SDK's choice of a back buffer to the scaler   *)
(* that reads pixels: the handle's two- and three-buffer tracking          *)
(* (lib/noodles_link.c), the command queue, the dispatcher (rtl/cmdq.sv),  *)
(* the flip (rtl/present.sv), the parity published with the completion     *)
(* count (rtl/link_fence.sv) and the framework's scaler (sys/ascal.vhd).   *)
(* Successive handles share the hardware: a handle may be closed and       *)
(* another opened while a flip is still pending.                           *)
(*                                                                         *)
(* The command queue is the FIFO that CommandRing implements.  Only draws  *)
(* into the display buffers are modelled.                                  *)
(***************************************************************************)
EXTENDS Integers, Sequences

CONSTANTS
    QueueCapacity,  \* slots of the command ring that may be in use
    MaxCommands,    \* bound on the commands of a behaviour
    MaxPaints,      \* bound on the draws and CPU writes of a behaviour
    BarrierOnClose, \* the application closes a handle with a flip barrier
    RawPresents     \* the application pushes opcode 11 by itself before its
                    \* first noodles_push_present

ASSUME DisplayAssumption ==
    /\ QueueCapacity \in Nat /\ QueueCapacity >= 2
    /\ MaxCommands \in Nat /\ MaxPaints \in Nat
    /\ BarrierOnClose \in BOOLEAN /\ RawPresents \in BOOLEAN

Buffer == 0 .. 2        \* A, B, C
NoBuffer == 3

VARIABLES
    host_pc,            \* "closed", "ready" or "cpu" (a back-buffer transfer)
    buffer_count, last_presented, previous_presented, three_buffer_primed,
    present_pending, present_fence, presents_completed,
    submitted,          \* done_baseline + link->submitted
    unfenced_flip,      \* a queued flip was published after the last barrier
    hdr_count, hdr_front,           \* the fence word in DRAM
    queue,                          \* commands not yet dispatched
    cmdq_state, command,            \* cmdq
    done_count, front_value, write_value, fence_state,  \* link_fence
    present_state, notify, ack_baseline, next_idx, front_idx,   \* present
    fb_retired,                     \* synchronised into the core's clock
    beam, scan_base, retire_pending, base_latched, retired_toggle,  \* ascal
    painted,            \* number of draws and CPU writes so far
    planned,            \* newest paint the host has issued into a buffer
    content,            \* newest paint a buffer holds
    flip_paint, shown   \* paints of the flip in progress and of the front

link == <<buffer_count, last_presented, previous_presented,
          three_buffer_primed, present_pending, present_fence,
          presents_completed, submitted, unfenced_flip>>
hdr == <<hdr_count, hdr_front>>
cmdq == <<cmdq_state, command>>
fence == <<done_count, front_value, write_value, fence_state>>
flip == <<present_state, notify, ack_baseline, next_idx, front_idx>>
scaler == <<beam, scan_base, retire_pending, base_latched, retired_toggle>>
core == <<hdr, cmdq, fence, flip, fb_retired, scaler, content, flip_paint,
          shown>>
vars == <<host_pc, link, queue, core, painted, planned>>

Entry == [op : {"DRAW", "PRESENT", "PRESENT_QUEUED"},
          buf : Buffer \cup {NoBuffer}, paint : Nat]
Running == [op : {"NONE", "DRAW", "PRESENT"},
            buf : Buffer \cup {NoBuffer}, paint : Nat]
NoCommand == [op |-> "NONE", buf |-> NoBuffer, paint |-> 0]
Draw(b, n) == [op |-> "DRAW", buf |-> b, paint |-> n]
Present(n) == [op |-> "PRESENT", buf |-> NoBuffer, paint |-> n]
PresentQueued(b, n) == [op |-> "PRESENT_QUEUED", buf |-> b, paint |-> n]
Barrier == [op |-> "PRESENT_QUEUED", buf |-> NoBuffer, paint |-> 0]

\* front_sel, bit 31 of the fence word: A and C both read as 0.
FrontSel(idx) == IF idx = 1 THEN 1 ELSE 0

\* After a reset nothing has been presented; the first handle is open.
Init ==
    /\ host_pc = "ready" /\ buffer_count = 2
    /\ last_presented = 0 /\ previous_presented = 0
    /\ three_buffer_primed = FALSE /\ unfenced_flip = FALSE
    /\ present_pending = FALSE /\ present_fence = 0 /\ presents_completed = 0
    /\ submitted = 0 /\ hdr_count = 0 /\ hdr_front = 0
    /\ queue = <<>> /\ cmdq_state = "IDLE" /\ command = NoCommand
    /\ done_count = 0 /\ front_value = 0
    /\ write_value = 0 /\ fence_state = "IDLE"
    /\ present_state = "IDLE" /\ notify = FALSE /\ ack_baseline = FALSE
    /\ next_idx = 0 /\ front_idx = 0 /\ fb_retired = FALSE
    /\ beam = "active" /\ scan_base = 0 /\ retire_pending = FALSE
    /\ base_latched = FALSE /\ retired_toggle = FALSE
    /\ painted = 0 /\ planned = [b \in Buffer |-> 0]
    /\ content = [b \in Buffer |-> 0] /\ flip_paint = 0 /\ shown = 0

-----------------------------------------------------------------------------
(* The SDK.                                                                *)

BackBufferIndex == 3 - last_presented - previous_presented

\* noodles_link_back_buffer.
BackBuffer ==
    IF buffer_count = 3 THEN BackBufferIndex
    ELSE LET pending == IF present_pending THEN 1 ELSE 0
         IN  IF presents_completed = pending THEN 1 ELSE 0

RingHasRoomFor(n) ==
    /\ Len(queue) + n <= QueueCapacity
    /\ submitted + n <= MaxCommands

\* A typed draw into the back buffer.
HostDraw ==
    /\ host_pc = "ready" /\ RingHasRoomFor(1) /\ painted < MaxPaints
    /\ painted' = painted + 1
    /\ planned' = [planned EXCEPT ![BackBuffer] = painted + 1]
    /\ queue' = Append(queue, Draw(BackBuffer, painted + 1))
    /\ submitted' = submitted + 1
    /\ UNCHANGED <<host_pc, buffer_count, last_presented, previous_presented,
                   three_buffer_primed, present_pending, present_fence,
                   presents_completed, unfenced_flip, core>>

\* noodles_push_present on a two-buffer handle.
HostPresent ==
    /\ host_pc = "ready" /\ buffer_count = 2 /\ ~present_pending
    /\ RingHasRoomFor(1)
    /\ queue' = Append(queue, Present(planned[BackBuffer]))
    /\ submitted' = submitted + 1
    /\ present_pending' = TRUE /\ present_fence' = submitted + 1
    /\ UNCHANGED <<host_pc, buffer_count, last_presented, previous_presented,
                   three_buffer_primed, presents_completed, unfenced_flip,
                   core, painted, planned>>

\* publish_command's record of a queued flip of the back buffer.
RecordFlip ==
    /\ previous_presented' = last_presented
    /\ last_presented' = BackBufferIndex

\* Mutant: the first flip of a handle is published without its barrier.
HostPresentFirstUnfenced ==
    /\ host_pc = "ready" /\ buffer_count = 3 /\ ~present_pending
    /\ ~three_buffer_primed /\ RingHasRoomFor(2)
    /\ queue' = Append(queue, PresentQueued(BackBuffer, planned[BackBuffer]))
    /\ submitted' = submitted + 1
    /\ present_pending' = TRUE /\ present_fence' = submitted + 1
    /\ three_buffer_primed' = TRUE /\ unfenced_flip' = TRUE
    /\ RecordFlip
    /\ UNCHANGED <<host_pc, buffer_count, presents_completed, core, painted,
                   planned>>

\* noodles_push_present on a three-buffer handle: its first flip and the
\* barrier that retires whatever was front are published together.
HostPresentFirst ==
    /\ host_pc = "ready" /\ buffer_count = 3 /\ ~present_pending
    /\ ~three_buffer_primed /\ RingHasRoomFor(2)
    /\ queue' = queue \o <<PresentQueued(BackBuffer, planned[BackBuffer]),
                           Barrier>>
    /\ submitted' = submitted + 2
    /\ present_pending' = TRUE /\ present_fence' = submitted + 2
    /\ three_buffer_primed' = TRUE /\ unfenced_flip' = FALSE
    /\ last_presented' = BackBufferIndex
    /\ previous_presented' = (BackBufferIndex + 1) % 3
    /\ UNCHANGED <<host_pc, buffer_count, presents_completed, core, painted,
                   planned>>

HostPresentQueued ==
    /\ host_pc = "ready" /\ buffer_count = 3 /\ ~present_pending
    /\ three_buffer_primed \/ RawPresents
    /\ RingHasRoomFor(1)
    /\ queue' = Append(queue, PresentQueued(BackBuffer, planned[BackBuffer]))
    /\ submitted' = submitted + 1
    /\ present_pending' = TRUE /\ present_fence' = submitted + 1
    /\ unfenced_flip' = TRUE
    /\ RecordFlip
    /\ UNCHANGED <<host_pc, buffer_count, three_buffer_primed,
                   presents_completed, core, painted, planned>>

\* Mutant: the barrier's rotation leaves the three buffers.
HostBarrierUnwrapped ==
    /\ host_pc = "ready" /\ buffer_count = 3 /\ ~present_pending
    /\ three_buffer_primed \/ RawPresents
    /\ RingHasRoomFor(1)
    /\ queue' = Append(queue, Barrier)
    /\ submitted' = submitted + 1
    /\ present_pending' = TRUE /\ present_fence' = submitted + 1
    /\ previous_presented' = last_presented + 1
    /\ unfenced_flip' = FALSE
    /\ UNCHANGED <<host_pc, buffer_count, last_presented,
                   three_buffer_primed, presents_completed, core, painted,
                   planned>>

\* noodles_push_command of a flip barrier.
HostBarrier ==
    /\ host_pc = "ready" /\ buffer_count = 3 /\ ~present_pending
    /\ three_buffer_primed \/ RawPresents
    /\ RingHasRoomFor(1)
    /\ queue' = Append(queue, Barrier)
    /\ submitted' = submitted + 1
    /\ present_pending' = TRUE /\ present_fence' = submitted + 1
    /\ previous_presented' = (last_presented + 1) % 3
    /\ unfenced_flip' = FALSE
    /\ UNCHANGED <<host_pc, buffer_count, last_presented,
                   three_buffer_primed, presents_completed, core, painted,
                   planned>>

\* noodles_link_poll, once the fence covers the pending PRESENT.
PresentObserved ==
    /\ present_pending' = FALSE
    /\ presents_completed' = IF buffer_count = 2 THEN hdr_front
                                                 ELSE presents_completed

HostPoll ==
    /\ host_pc = "ready" /\ present_pending /\ hdr_count >= present_fence
    /\ PresentObserved
    /\ UNCHANGED <<host_pc, buffer_count, last_presented, previous_presented,
                   three_buffer_primed, present_fence, submitted,
                   unfenced_flip, queue, core, painted, planned>>

\* Mutant: either parity starts with the same buffer.
HostEnableThreeBlind ==
    /\ host_pc = "ready" /\ buffer_count = 2 /\ ~present_pending
    /\ buffer_count' = 3 /\ three_buffer_primed' = FALSE
    /\ last_presented' = 0 /\ previous_presented' = 2
    /\ UNCHANGED <<host_pc, present_pending, present_fence,
                   presents_completed, submitted, unfenced_flip, queue, core,
                   painted, planned>>

HostEnableThree ==
    /\ host_pc = "ready" /\ buffer_count = 2 /\ ~present_pending
    /\ buffer_count' = 3 /\ three_buffer_primed' = FALSE
    /\ IF presents_completed = 1
         THEN last_presented' = 1 /\ previous_presented' = 0
         ELSE last_presented' = 0 /\ previous_presented' = 2
    /\ UNCHANGED <<host_pc, present_pending, present_fence,
                   presents_completed, submitted, unfenced_flip, queue, core,
                   painted, planned>>

Drained == hdr_count = submitted

\* Mutant: pixels are transferred without draining first.
HostTransferUndrained ==
    /\ host_pc = "ready" /\ painted < MaxPaints
    /\ present_pending => buffer_count = 3
    /\ host_pc' = "cpu"
    /\ UNCHANGED <<link, queue, core, painted, planned>>

\* back_buffer_transfer drains, then copies into the back buffer.
HostTransfer ==
    /\ host_pc = "ready" /\ painted < MaxPaints
    /\ present_pending => buffer_count = 3
    /\ Drained
    /\ host_pc' = "cpu"
    /\ PresentObserved
    /\ UNCHANGED <<buffer_count, last_presented, previous_presented,
                   three_buffer_primed, present_fence, submitted,
                   unfenced_flip, queue, core, painted, planned>>

HostTransferEnd ==
    /\ host_pc = "cpu"
    /\ host_pc' = "ready"
    /\ painted' = painted + 1
    /\ planned' = [planned EXCEPT ![BackBuffer] = painted + 1]
    /\ content' = [content EXCEPT ![BackBuffer] = painted + 1]
    /\ UNCHANGED <<link, queue, hdr, cmdq, fence, flip, fb_retired, scaler,
                   flip_paint, shown>>

\* noodles_link_close: the handle is drained.
HostClose ==
    /\ host_pc = "ready" /\ Drained
    /\ BarrierOnClose => ~unfenced_flip
    /\ host_pc' = "closed"
    /\ UNCHANGED <<link, queue, core, painted, planned>>

\* noodles_link_open of the next handle, on the parity the fence published.
HostOpen ==
    /\ host_pc = "closed"
    /\ host_pc' = "ready"
    /\ buffer_count' = 2 /\ three_buffer_primed' = FALSE
    /\ last_presented' = 0 /\ previous_presented' = 0
    /\ present_pending' = FALSE /\ present_fence' = 0
    /\ presents_completed' = hdr_front
    /\ UNCHANGED <<submitted, unfenced_flip, queue, core, painted, planned>>

-----------------------------------------------------------------------------
(* cmdq: one command at a time; a PRESENT of either kind is not accepted   *)
(* while a flip is pending.                                                *)

PresentBusy == present_state # "IDLE"
Offered(op) == queue # <<>> /\ Head(queue).op = op
CmdqTakes(op) == cmdq_state = "IDLE" /\ Offered(op)

CmdqDraw ==
    /\ CmdqTakes("DRAW")
    /\ cmdq_state' = "RUN" /\ command' = Head(queue) /\ queue' = Tail(queue)
    /\ UNCHANGED <<host_pc, link, hdr, fence, flip, fb_retired, scaler,
                   painted, planned, content, flip_paint, shown>>

\* present IDLE: start.  A legacy flip toggles between A and B and samples
\* the acknowledgement level now.
PresentStart(target, legacy) ==
    /\ present_state' = "WAIT_VBL" /\ notify' = legacy
    /\ next_idx' = target /\ ack_baseline' = fb_retired
    /\ flip_paint' = Head(queue).paint
    /\ UNCHANGED front_idx

CmdqPresent ==
    /\ CmdqTakes("PRESENT") /\ ~PresentBusy
    /\ cmdq_state' = "RUN" /\ command' = Head(queue) /\ queue' = Tail(queue)
    /\ PresentStart(IF front_idx = 1 THEN 0 ELSE 1, TRUE)
    /\ UNCHANGED <<host_pc, link, hdr, fence, fb_retired, scaler, painted,
                   planned, content, shown>>

\* Mutant: a queued flip is accepted while another is pending.
CmdqPresentQueuedBusy ==
    /\ CmdqTakes("PRESENT_QUEUED")
    /\ cmdq_state' = "ACCEPT" /\ command' = NoCommand
    /\ queue' = Tail(queue)
    /\ IF Head(queue).buf = NoBuffer
         THEN UNCHANGED <<flip, flip_paint>>
         ELSE PresentStart(Head(queue).buf, FALSE)
    /\ UNCHANGED <<host_pc, link, hdr, fence, fb_retired, scaler, painted,
                   planned, content, shown>>

\* A queued flip starts and completes at once; a barrier only completes.
CmdqPresentQueued ==
    /\ CmdqTakes("PRESENT_QUEUED") /\ ~PresentBusy
    /\ cmdq_state' = "ACCEPT" /\ command' = NoCommand
    /\ queue' = Tail(queue)
    /\ IF Head(queue).buf = NoBuffer
         THEN UNCHANGED <<flip, flip_paint>>
         ELSE PresentStart(Head(queue).buf, FALSE)
    /\ UNCHANGED <<host_pc, link, hdr, fence, fb_retired, scaler, painted,
                   planned, content, shown>>

\* done_pulse: the command is counted, with the front buffer of this moment.
CountDone ==
    /\ done_count' = done_count + 1
    /\ front_value' = FrontSel(front_idx)
    /\ UNCHANGED <<write_value, fence_state>>

CmdqAccept ==
    /\ cmdq_state = "ACCEPT"
    /\ cmdq_state' = "IDLE" /\ CountDone
    /\ UNCHANGED <<host_pc, link, queue, hdr, command, flip, fb_retired,
                   scaler, painted, planned, content, flip_paint, shown>>

EngineDone ==
    /\ cmdq_state = "RUN" /\ command.op = "DRAW"
    /\ cmdq_state' = "WAIT_MEMORY" /\ CountDone
    /\ UNCHANGED <<host_pc, link, queue, hdr, command, flip, fb_retired,
                   scaler, painted, planned, content, flip_paint, shown>>

\* The last pixels of the draw have reached DRAM.
CmdqIdle ==
    /\ cmdq_state = "WAIT_MEMORY"
    /\ cmdq_state' = "IDLE" /\ command' = NoCommand
    /\ content' = [content EXCEPT ![command.buf] = command.paint]
    /\ UNCHANGED <<host_pc, link, queue, hdr, fence, flip, fb_retired,
                   scaler, painted, planned, flip_paint, shown>>

-----------------------------------------------------------------------------
(* link_fence.                                                             *)

FenceStart ==
    /\ fence_state = "IDLE" /\ done_count # write_value
    /\ fence_state' = "WRITE_REQ" /\ write_value' = done_count
    /\ UNCHANGED <<host_pc, link, queue, hdr, cmdq, done_count, front_value,
                   flip, fb_retired, scaler, painted, planned, content,
                   flip_paint, shown>>

\* The word carries the latched count and the current front_value.  It goes
\* through the same write queue as the pixels of the draw it counts.
FenceWrite ==
    /\ fence_state = "WRITE_REQ" /\ cmdq_state # "WAIT_MEMORY"
    /\ fence_state' = "IDLE"
    /\ hdr_count' = write_value /\ hdr_front' = front_value
    /\ UNCHANGED <<host_pc, link, queue, cmdq, done_count, front_value,
                   write_value, flip, fb_retired, scaler, painted, planned,
                   content, flip_paint, shown>>

-----------------------------------------------------------------------------
(* present and the scaler.  In every frame the blanking interval begins,   *)
(* then the scaler latches the base address, then it notes the boundary;   *)
(* it reads pixels from the latched base until the next blanking interval. *)

\* The start of vertical blank.  It is many clocks away from the scaler's
\* sync, so a retirement has crossed the synchroniser by then.
VblRise ==
    /\ beam = "active" /\ fb_retired = retired_toggle
    /\ beam' = "blank"
    /\ IF present_state = "WAIT_VBL"
         THEN /\ front_idx' = next_idx /\ shown' = flip_paint
              /\ present_state' = "WAIT_ACK"
              /\ ack_baseline' = IF notify THEN ack_baseline ELSE fb_retired
         ELSE UNCHANGED <<front_idx, shown, present_state, ack_baseline>>
    /\ UNCHANGED <<host_pc, link, queue, hdr, cmdq, fence, notify, next_idx,
                   fb_retired, scan_base, retire_pending, base_latched,
                   retired_toggle, painted, planned, content, flip_paint>>

\* The scaler copies the base address at the end of vertical sync.
ScalerLatch ==
    /\ beam = "blank"
    /\ beam' = "sync" /\ scan_base' = front_idx
    /\ base_latched' = (base_latched \/ retire_pending)
    /\ UNCHANGED <<host_pc, link, queue, hdr, cmdq, fence, flip, fb_retired,
                   retire_pending, retired_toggle, painted, planned, content,
                   flip_paint, shown>>

\* It retires the previous frame if its reads happen to have ended ...
ScalerRetire ==
    /\ beam = "sync" /\ retire_pending /\ base_latched
    /\ retired_toggle' = ~retired_toggle /\ retire_pending' = FALSE
    /\ UNCHANGED <<host_pc, link, queue, hdr, cmdq, fence, flip, fb_retired,
                   beam, scan_base, base_latched, painted, planned, content,
                   flip_paint, shown>>

\* ... before the boundary, synchronised from the output clock, is noted.
ScalerBoundary ==
    /\ beam = "sync"
    /\ beam' = "active" /\ retire_pending' = TRUE /\ base_latched' = FALSE
    /\ UNCHANGED <<host_pc, link, queue, hdr, cmdq, fence, flip, fb_retired,
                   scan_base, retired_toggle, painted, planned, content,
                   flip_paint, shown>>

SyncRetired ==
    /\ fb_retired # retired_toggle
    /\ fb_retired' = retired_toggle
    /\ UNCHANGED <<host_pc, link, queue, hdr, cmdq, fence, flip, scaler,
                   painted, planned, content, flip_paint, shown>>

\* Mutant: the flip retires without waiting for the scaler.
PresentAckAtOnce ==
    /\ present_state = "WAIT_ACK"
    /\ present_state' = "FINISH"
    /\ UNCHANGED <<host_pc, link, queue, hdr, cmdq, fence, notify,
                   ack_baseline, next_idx, front_idx, fb_retired, scaler,
                   painted, planned, content, flip_paint, shown>>

PresentAck ==
    /\ present_state = "WAIT_ACK" /\ fb_retired # ack_baseline
    /\ present_state' = "FINISH"
    /\ UNCHANGED <<host_pc, link, queue, hdr, cmdq, fence, notify,
                   ack_baseline, next_idx, front_idx, fb_retired, scaler,
                   painted, planned, content, flip_paint, shown>>

\* Mutant: a legacy flip ends without its done pulse.
PresentFinishSilent ==
    /\ present_state = "FINISH"
    /\ present_state' = "IDLE"
    /\ IF FALSE
         THEN CountDone /\ cmdq_state' = "IDLE" /\ command' = NoCommand
         ELSE UNCHANGED <<fence, cmdq>>
    /\ UNCHANGED <<host_pc, link, queue, hdr, notify, ack_baseline, next_idx,
                   front_idx, fb_retired, scaler, painted, planned, content,
                   flip_paint, shown>>

\* A legacy flip completes its command.
PresentFinish ==
    /\ present_state = "FINISH"
    /\ present_state' = "IDLE"
    /\ IF notify
         THEN CountDone /\ cmdq_state' = "IDLE" /\ command' = NoCommand
         ELSE UNCHANGED <<fence, cmdq>>
    /\ UNCHANGED <<host_pc, link, queue, hdr, notify, ack_baseline, next_idx,
                   front_idx, fb_retired, scaler, painted, planned, content,
                   flip_paint, shown>>

-----------------------------------------------------------------------------
HostStep ==
    \/ HostDraw \/ HostPresent \/ HostPresentFirst \/ HostPresentQueued
    \/ HostBarrier \/ HostPoll \/ HostEnableThree
    \/ HostTransfer \/ HostTransferEnd \/ HostClose \/ HostOpen

CmdqStep == CmdqDraw \/ CmdqPresent \/ CmdqPresentQueued \/ CmdqAccept
            \/ EngineDone \/ CmdqIdle
FenceStep == FenceStart \/ FenceWrite
PresentStep == PresentAck \/ PresentFinish \/ SyncRetired
ScalerStep == VblRise \/ ScalerLatch \/ ScalerRetire \/ ScalerBoundary

Next == HostStep \/ CmdqStep \/ FenceStep \/ PresentStep \/ ScalerStep

Spec == Init /\ [][Next]_vars

\* Every part of the core and the scaler runs on its clock.  The scaler may
\* miss any number of retirements (dbg_missed_boundaries), but not all.
Fairness ==
    /\ WF_vars(CmdqStep) /\ WF_vars(FenceStep)
    /\ SF_vars(PresentAck) /\ WF_vars(PresentFinish) /\ WF_vars(SyncRetired)
    /\ WF_vars(VblRise) /\ WF_vars(ScalerLatch) /\ WF_vars(ScalerBoundary)
    /\ SF_vars(ScalerRetire)

FairSpec == Spec /\ Fairness
-----------------------------------------------------------------------------
(* Properties.                                                             *)

\* Types: buffer indexes name buffers in every copy that the SDK, cmdq, present
\* and the scaler keep of them.
TypeOK ==
    /\ host_pc \in {"closed", "ready", "cpu"} /\ buffer_count \in {2, 3}
    /\ last_presented \in Buffer /\ previous_presented \in Buffer
    /\ buffer_count = 3 => last_presented # previous_presented
    /\ three_buffer_primed \in BOOLEAN /\ present_pending \in BOOLEAN
    /\ present_fence \in Nat /\ presents_completed \in {0, 1}
    /\ submitted \in Nat /\ unfenced_flip \in BOOLEAN
    /\ hdr_count \in Nat /\ hdr_front \in {0, 1}
    /\ queue \in Seq(Entry)
    /\ cmdq_state \in {"IDLE", "RUN", "WAIT_MEMORY", "ACCEPT"}
    /\ command \in Running
    /\ done_count \in Nat /\ front_value \in {0, 1} /\ write_value \in Nat
    /\ fence_state \in {"IDLE", "WRITE_REQ"}
    /\ present_state \in {"IDLE", "WAIT_VBL", "WAIT_ACK", "FINISH"}
    /\ notify \in BOOLEAN /\ ack_baseline \in BOOLEAN
    /\ next_idx \in Buffer /\ front_idx \in Buffer /\ fb_retired \in BOOLEAN
    /\ beam \in {"active", "blank", "sync"} /\ scan_base \in Buffer
    /\ retire_pending \in BOOLEAN /\ base_latched \in BOOLEAN
    /\ retired_toggle \in BOOLEAN /\ painted \in Nat
    /\ planned \in [Buffer -> Nat] /\ content \in [Buffer -> Nat]
    /\ flip_paint \in Nat /\ shown \in Nat

\* Buffers being written: by the running draw or by the CPU.
Written == (IF command.op = "DRAW" THEN {command.buf} ELSE {}) \cup
           (IF host_pc = "cpu" THEN {BackBuffer} ELSE {})

\* Buffers whose pixels are on the way to the screen: the front, the one a
\* flip is about to show, and the one the scaler is reading.
OnScreen == {front_idx} \cup
            (IF present_state = "WAIT_VBL" THEN {next_idx} ELSE {}) \cup
            (IF beam = "blank" THEN {} ELSE {scan_base})

\* Nothing is drawn into a buffer that is displayed or about to be, in either
\* mode, across handles, whenever the scaler latches and retires.
ScanoutUndisturbed == Written \cap OnScreen = {}

\* The front buffer holds exactly what the host had issued into the back
\* buffer when it presented it: no earlier frame, nothing of the next one.
FrameIntact == content[front_idx] = shown

\* A queued flip retires only after the scaler has latched its buffer.
QueuedFlipRetired ==
    present_state = "FINISH" /\ ~notify => scan_base = front_idx

\* PRESENT "waits for scanout retirement".
PresentRetired ==
    present_state = "FINISH" /\ notify => scan_base = front_idx

\* Every published command completes, whatever the host does next.
EveryCommandFinishes ==
    \A n \in 1 .. MaxCommands : submitted >= n ~> hdr_count >= n
=============================================================================
