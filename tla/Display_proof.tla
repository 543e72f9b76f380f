--------------------------- MODULE Display_proof ---------------------------
(***************************************************************************)
(* Proofs about Display: the types and the retirement of queued flips for  *)
(* every use of the hardware, and, for handles closed behind a barrier by  *)
(* applications that leave opcode 11 to noodles_push_present, that nothing *)
(* on the way to the screen is written and that a frame is shown as it was *)
(* presented.                                                              *)
(***************************************************************************)
EXTENDS Display, TLAPS

USE DEF link, hdr, cmdq, fence, flip, scaler, core, vars

Index == 1 .. Len(queue)

-----------------------------------------------------------------------------
(* The queue.                                                              *)

LEMMA QueueType ==
    ASSUME TypeOK
    PROVE  /\ queue \in Seq(Entry) /\ Len(queue) \in Nat
           /\ \A i \in Index : /\ queue[i] \in Entry /\ i \in Nat /\ i > 0
                               /\ queue[i].op \in {"DRAW", "PRESENT",
                                                   "PRESENT_QUEUED"}
                               /\ queue[i].buf \in Buffer \cup {NoBuffer}
                               /\ queue[i].paint \in Nat
<1>1. queue \in Seq(Entry) /\ Len(queue) \in Nat
  BY DEF TypeOK
<1>2. \A i \in Index : queue[i] \in Entry /\ i \in Nat /\ i > 0
  BY <1>1 DEF Index
<1> QED BY <1>1, <1>2 DEF Entry

\* A command taken from the queue moves the others up by one.
LEMMA Taking ==
    ASSUME TypeOK, queue # <<>>, queue' = Tail(queue)
    PROVE  /\ queue' \in Seq(Entry) /\ Len(queue') = Len(queue) - 1
           /\ Head(queue) = queue[1] /\ 1 \in Index /\ queue[1] \in Entry
           /\ \A i \in Index' : queue'[i] = queue[i + 1] /\ i + 1 \in Index
           /\ \A i \in Index : i # 1 => /\ i - 1 \in Index'
                                        /\ queue'[i - 1] = queue[i]
<1>1. queue \in Seq(Entry) /\ Len(queue) \in Nat /\ Len(queue) > 0
  BY QueueType
<1>2. queue' \in Seq(Entry) /\ Len(queue') = Len(queue) - 1
  BY <1>1
<1>3. \A i \in 1 .. Len(queue) - 1 : queue'[i] = queue[i + 1]
  BY <1>1
<1>4. Head(queue) = queue[1] /\ queue[1] \in Entry
  BY <1>1
<1> QED BY <1>1, <1>2, <1>3, <1>4 DEF Index

\* A published command comes after the others.
LEMMA Publishing ==
    ASSUME TypeOK, NEW c \in Entry, queue' = Append(queue, c)
    PROVE  /\ queue' \in Seq(Entry) /\ Len(queue') = Len(queue) + 1
           /\ Index' = Index \cup {Len(queue) + 1}
           /\ \A i \in Index : queue'[i] = queue[i]
           /\ queue'[Len(queue) + 1] = c
<1>1. queue \in Seq(Entry) /\ Len(queue) \in Nat
  BY QueueType
<1>2. queue' \in Seq(Entry) /\ Len(queue') = Len(queue) + 1
  BY <1>1
<1>3. \A i \in 1 .. Len(queue) : queue'[i] = queue[i]
  BY <1>1
<1>4. queue'[Len(queue) + 1] = c
  BY <1>1
<1> QED BY <1>1, <1>2, <1>3, <1>4 DEF Index

LEMMA PublishingTwo ==
    ASSUME TypeOK, NEW c \in Entry, NEW d \in Entry,
           queue' = queue \o <<c, d>>
    PROVE  /\ queue' \in Seq(Entry) /\ Len(queue') = Len(queue) + 2
           /\ Index' = Index \cup {Len(queue) + 1, Len(queue) + 2}
           /\ \A i \in Index : queue'[i] = queue[i]
           /\ queue'[Len(queue) + 1] = c /\ queue'[Len(queue) + 2] = d
<1>1. queue \in Seq(Entry) /\ Len(queue) \in Nat
  BY QueueType
<1>2. <<c, d>> \in Seq(Entry) /\ Len(<<c, d>>) = 2
      /\ <<c, d>>[1] = c /\ <<c, d>>[2] = d
  OBVIOUS
<1>3. queue' \in Seq(Entry) /\ Len(queue') = Len(queue) + 2
  BY <1>1, <1>2
<1>4. \A i \in 1 .. Len(queue) : queue'[i] = queue[i]
  BY <1>1, <1>2
<1>5. queue'[Len(queue) + 1] = c /\ queue'[Len(queue) + 2] = d
  BY <1>1, <1>2
<1>6. Index' = Index \cup {Len(queue) + 1, Len(queue) + 2}
  BY <1>1, <1>3 DEF Index
<1> QED BY <1>3, <1>4, <1>5, <1>6 DEF Index

-----------------------------------------------------------------------------
(* Type correctness.                                                       *)

LEMMA BufferType ==
    ASSUME TypeOK
    PROVE  /\ BackBuffer \in Buffer
           /\ buffer_count = 3 => /\ BackBufferIndex = BackBuffer
                                  /\ BackBuffer # last_presented
                                  /\ BackBuffer # previous_presented
BY DEF TypeOK, BackBuffer, BackBufferIndex, Buffer

\* The rotation of a barrier leaves another buffer of the three.
LEMMA Rotation ==
    ASSUME NEW b \in Buffer
    PROVE  /\ (b + 1) % 3 \in Buffer /\ (b + 1) % 3 # b
           /\ 3 - b - ((b + 1) % 3) \in Buffer /\ 3 - b - ((b + 1) % 3) # b
<1>1. CASE b = 0
  BY <1>1 DEF Buffer
<1>2. CASE b = 1
  BY <1>2 DEF Buffer
<1>3. CASE b = 2
  <2>1. (b + 1) % 3 = 0
    BY <1>3
  <2> QED BY <1>3, <2>1 DEF Buffer
<1> QED BY <1>1, <1>2, <1>3 DEF Buffer

LEMMA EntryType ==
    ASSUME NEW b \in Buffer, NEW n \in Nat
    PROVE  /\ Draw(b, n) \in Entry /\ Present(n) \in Entry
           /\ PresentQueued(b, n) \in Entry /\ Barrier \in Entry
BY DEF Entry, Draw, Present, PresentQueued, Barrier, NoBuffer, Buffer

\* TypeOK in four parts: the handle, what is queued, the core and the paints.
HandleType ==
    /\ host_pc \in {"closed", "ready", "cpu"} /\ buffer_count \in {2, 3}
    /\ last_presented \in Buffer /\ previous_presented \in Buffer
    /\ buffer_count = 3 => last_presented # previous_presented
    /\ three_buffer_primed \in BOOLEAN /\ present_pending \in BOOLEAN
    /\ present_fence \in Nat /\ presents_completed \in {0, 1}
    /\ submitted \in Nat /\ unfenced_flip \in BOOLEAN

CmdqType ==
    /\ queue \in Seq(Entry) /\ command \in Running
    /\ cmdq_state \in {"IDLE", "RUN", "WAIT_MEMORY", "ACCEPT"}

FenceType ==
    /\ hdr_count \in Nat /\ hdr_front \in {0, 1}
    /\ done_count \in Nat /\ front_value \in {0, 1} /\ write_value \in Nat
    /\ fence_state \in {"IDLE", "WRITE_REQ"}

FlipType ==
    /\ present_state \in {"IDLE", "WAIT_VBL", "WAIT_ACK", "FINISH"}
    /\ notify \in BOOLEAN /\ ack_baseline \in BOOLEAN
    /\ next_idx \in Buffer /\ front_idx \in Buffer

ScalerType ==
    /\ fb_retired \in BOOLEAN
    /\ beam \in {"active", "blank", "sync"} /\ scan_base \in Buffer
    /\ retire_pending \in BOOLEAN /\ base_latched \in BOOLEAN
    /\ retired_toggle \in BOOLEAN

PaintType ==
    /\ painted \in Nat
    /\ planned \in [Buffer -> Nat] /\ content \in [Buffer -> Nat]
    /\ flip_paint \in Nat /\ shown \in Nat

LEMMA TypeParts == TypeOK <=> /\ HandleType /\ CmdqType /\ FenceType
                              /\ FlipType /\ ScalerType /\ PaintType
BY DEF TypeOK, HandleType, CmdqType, FenceType, FlipType, ScalerType, PaintType

LEMMA TypePartsNext ==
    TypeOK' <=> /\ HandleType' /\ CmdqType' /\ FenceType'
                /\ FlipType' /\ ScalerType' /\ PaintType'
BY DEF TypeOK, HandleType, CmdqType, FenceType, FlipType, ScalerType, PaintType

\* The paint bookkeeping of a buffer.
LEMMA PaintUpdate ==
    ASSUME NEW f \in [Buffer -> Nat], NEW b \in Buffer, NEW n \in Nat
    PROVE  /\ [f EXCEPT ![b] = n] \in [Buffer -> Nat]
           /\ \A c \in Buffer : [f EXCEPT ![b] = n][c] = IF c = b THEN n ELSE f[c]
OBVIOUS

LEMMA TypeInit == Init => TypeOK
<1> SUFFICES ASSUME Init
             PROVE  /\ HandleType /\ CmdqType /\ FenceType
                    /\ FlipType /\ ScalerType /\ PaintType
  BY TypeParts
<1>0. 0 \in Buffer
  BY DEF Buffer
<1>1. HandleType
  BY <1>0 DEF Init, HandleType
<1>2. CmdqType
  <2>1. queue \in Seq(Entry)
    BY DEF Init
  <2>2. NoCommand \in Running
    BY DEF NoCommand, Running
  <2> QED BY <2>1, <2>2 DEF Init, CmdqType
<1>3. FenceType /\ FlipType /\ ScalerType
  BY <1>0 DEF Init, FenceType, FlipType, ScalerType
<1>4. PaintType
  BY DEF Init, PaintType
<1> QED BY <1>1, <1>2, <1>3, <1>4

LEMMA TypeHost == ASSUME TypeOK, HostStep PROVE TypeOK'
<1> SUFFICES /\ HandleType' /\ CmdqType' /\ FenceType'
             /\ FlipType' /\ ScalerType' /\ PaintType'
  BY TypePartsNext
<1> USE TypeParts
<1>0. /\ BackBuffer \in Buffer /\ planned[BackBuffer] \in Nat
      /\ queue \in Seq(Entry)
  BY BufferType, QueueType DEF PaintType
<1>1. FenceType' /\ FlipType' /\ ScalerType'
  BY DEF FenceType, FlipType, ScalerType, HostStep, HostDraw, HostPresent,
     HostPresentFirst, HostPresentQueued, HostBarrier, HostPoll,
     HostEnableThree, HostTransfer, HostTransferEnd, HostClose, HostOpen
<1>2. CmdqType'
  <2>1. command' \in Running
        /\ cmdq_state' \in {"IDLE", "RUN", "WAIT_MEMORY", "ACCEPT"}
    BY DEF CmdqType, HostStep, HostDraw, HostPresent,
       HostPresentFirst, HostPresentQueued, HostBarrier, HostPoll,
       HostEnableThree, HostTransfer, HostTransferEnd, HostClose, HostOpen
  <2>2. CASE HostDraw
    <3>1. queue' \in Seq(Entry)
      BY <1>0, <2>2, EntryType DEF HostDraw, PaintType
    <3> QED BY <2>1, <3>1 DEF CmdqType
  <2>3. CASE HostPresent \/ HostPresentQueued
    <3>1. queue' \in Seq(Entry)
      BY <1>0, <2>3, EntryType DEF HostPresent, HostPresentQueued
    <3> QED BY <2>1, <3>1 DEF CmdqType
  <2>4. CASE HostPresentFirst
    <3>1. queue' \in Seq(Entry)
      BY <1>0, <2>4, EntryType, PublishingTwo DEF HostPresentFirst
    <3> QED BY <2>1, <3>1 DEF CmdqType
  <2>5. CASE HostBarrier
    <3>1. queue' \in Seq(Entry)
      BY <1>0, <2>5, EntryType DEF HostBarrier
    <3> QED BY <2>1, <3>1 DEF CmdqType
  <2>6. CASE \/ HostPoll \/ HostEnableThree \/ HostTransfer \/ HostTransferEnd
             \/ HostClose \/ HostOpen
    BY <1>0, <2>1, <2>6 DEF CmdqType, HostPoll, HostEnableThree, HostTransfer,
       HostTransferEnd, HostClose, HostOpen
  <2> QED BY <2>2, <2>3, <2>4, <2>5, <2>6 DEF HostStep
<1>3. PaintType'
  <2>1. CASE HostDraw
    BY <1>0, <2>1, PaintUpdate DEF PaintType, HostDraw
  <2>2. CASE HostTransferEnd
    BY <1>0, <2>2, PaintUpdate DEF PaintType, HostTransferEnd
  <2>3. CASE ~HostDraw /\ ~HostTransferEnd
    BY <2>3 DEF PaintType, HostStep, HostPresent, HostPresentFirst,
       HostPresentQueued, HostBarrier, HostPoll, HostEnableThree, HostTransfer,
       HostClose, HostOpen
  <2> QED BY <2>1, <2>2, <2>3
<1>4. HandleType'
  <2>0. /\ 0 \in Buffer /\ 1 \in Buffer /\ 2 \in Buffer
        /\ submitted + 1 \in Nat /\ submitted + 2 \in Nat
        /\ TRUE \in BOOLEAN /\ FALSE \in BOOLEAN /\ 2 \in {2, 3} /\ 3 \in {2, 3}
    BY DEF Buffer, HandleType
  <2>1. CASE HostDraw \/ HostPresent
    BY <2>0, <2>1 DEF HandleType, HostDraw, HostPresent
  <2>2. CASE HostPresentFirst
    BY <1>0, <2>0, <2>2, BufferType, Rotation DEF HandleType, HostPresentFirst
  <2>3. CASE HostPresentQueued
    BY <1>0, <2>0, <2>3, BufferType DEF HandleType, HostPresentQueued, RecordFlip
  <2>4. CASE HostBarrier
    BY <2>0, <2>4, Rotation DEF HandleType, HostBarrier
  <2>5. CASE HostPoll \/ HostTransfer
    BY <2>5 DEF HandleType, FenceType, HostPoll, HostTransfer, PresentObserved
  <2>6. CASE HostEnableThree
    <3>1. /\ last_presented' \in Buffer /\ previous_presented' \in Buffer
          /\ last_presented' # previous_presented'
      BY <2>0, <2>6 DEF HostEnableThree
    <3>2. /\ buffer_count' \in {2, 3} /\ three_buffer_primed' \in BOOLEAN
          /\ host_pc' \in {"closed", "ready", "cpu"}
      BY <2>0, <2>6 DEF HostEnableThree
    <3>3. /\ present_pending' \in BOOLEAN /\ unfenced_flip' \in BOOLEAN
          /\ present_fence' \in Nat /\ presents_completed' \in {0, 1}
          /\ submitted' \in Nat
      BY <2>6 DEF HandleType, HostEnableThree
    <3> QED BY <3>1, <3>2, <3>3 DEF HandleType
  <2>7. CASE HostTransferEnd \/ HostClose
    BY <2>7 DEF HandleType, HostTransferEnd, HostClose
  <2>8. CASE HostOpen
    <3>1. /\ host_pc' = "ready" /\ buffer_count' = 2
          /\ three_buffer_primed' = FALSE /\ present_pending' = FALSE
          /\ last_presented' = 0 /\ previous_presented' = 0
          /\ present_fence' = 0 /\ presents_completed' = hdr_front
      BY <2>8 DEF HostOpen
    <3>2. UNCHANGED <<submitted, unfenced_flip>>
      BY <2>8 DEF HostOpen
    <3>3. host_pc' \in {"closed", "ready", "cpu"} /\ buffer_count' \in {2, 3}
      BY <3>1
    <3>4. last_presented' \in Buffer /\ previous_presented' \in Buffer
      BY <2>0, <3>1
    <3>5. buffer_count' = 3 => last_presented' # previous_presented'
      BY <3>1
    <3>6. three_buffer_primed' \in BOOLEAN /\ present_pending' \in BOOLEAN
      BY <2>0, <3>1
    <3>7. present_fence' \in Nat /\ presents_completed' \in {0, 1}
      BY <3>1 DEF FenceType
    <3>8. submitted' \in Nat /\ unfenced_flip' \in BOOLEAN
      BY <3>2 DEF HandleType
    <3> QED BY <3>3, <3>4, <3>5, <3>6, <3>7, <3>8 DEF HandleType
  <2> QED BY <2>1, <2>2, <2>3, <2>4, <2>5, <2>6, <2>7, <2>8 DEF HostStep
<1> QED BY <1>1, <1>2, <1>3, <1>4

\* The command that cmdq takes is the first of the queue.
LEMMA TakingStep ==
    ASSUME TypeOK, CmdqDraw \/ CmdqPresent \/ CmdqPresentQueued
    PROVE  /\ queue # <<>> /\ queue' = Tail(queue) /\ queue' \in Seq(Entry)
           /\ Head(queue) \in Entry /\ Head(queue).paint \in Nat
           /\ Head(queue).buf \in Buffer \cup {NoBuffer}
           /\ CmdqDraw \/ CmdqPresent => Head(queue) \in Running
<1>1. /\ queue # <<>> /\ queue' = Tail(queue)
      /\ CmdqDraw \/ CmdqPresent => Head(queue).op \in {"DRAW", "PRESENT"}
  BY DEF CmdqDraw, CmdqPresent, CmdqPresentQueued, CmdqTakes, Offered
<1>2. queue' \in Seq(Entry) /\ Head(queue) \in Entry
  BY <1>1, Taking
<1> QED BY <1>1, <1>2 DEF Entry, Running

LEMMA TypeCmdq == ASSUME TypeOK, CmdqStep PROVE TypeOK'
<1> SUFFICES /\ HandleType' /\ CmdqType' /\ FenceType'
             /\ FlipType' /\ ScalerType' /\ PaintType'
  BY TypePartsNext
<1> USE TypeParts
<1>0. NoCommand \in Running /\ FrontSel(front_idx) \in {0, 1}
      /\ 0 \in Buffer /\ 1 \in Buffer
  BY DEF NoCommand, Running, FrontSel, Buffer
<1>1. HandleType'
  <2>1. UNCHANGED <<host_pc, link>>
    BY DEF CmdqStep, CmdqDraw, CmdqPresent, CmdqPresentQueued, CmdqAccept,
       EngineDone, CmdqIdle
  <2> QED BY <2>1 DEF HandleType
<1>2. ScalerType'
  <2>1. UNCHANGED <<fb_retired, scaler>>
    BY DEF CmdqStep, CmdqDraw, CmdqPresent, CmdqPresentQueued, CmdqAccept,
       EngineDone, CmdqIdle
  <2> QED BY <2>1 DEF ScalerType
<1>6. FenceType'
  <2>1. UNCHANGED <<hdr, write_value, fence_state>>
    BY DEF CmdqStep, CmdqDraw, CmdqPresent, CmdqPresentQueued, CmdqAccept,
       EngineDone, CmdqIdle, CountDone
  <2>2. \/ UNCHANGED <<done_count, front_value>>
        \/ done_count' = done_count + 1 /\ front_value' = FrontSel(front_idx)
    BY DEF CmdqStep, CmdqDraw, CmdqPresent, CmdqPresentQueued, CmdqAccept,
       EngineDone, CmdqIdle, CountDone
  <2> QED BY <1>0, <2>1, <2>2 DEF FenceType
<1>3. CmdqType'
  <2>1. CASE CmdqDraw \/ CmdqPresent \/ CmdqPresentQueued
    BY <1>0, <2>1, TakingStep DEF CmdqType, CmdqDraw, CmdqPresent,
       CmdqPresentQueued
  <2>2. CASE CmdqAccept \/ EngineDone \/ CmdqIdle
    BY <1>0, <2>2 DEF CmdqType, CmdqAccept, EngineDone, CmdqIdle
  <2> QED BY <2>1, <2>2 DEF CmdqStep
<1>4. FlipType' /\ flip_paint' \in Nat
  <2>1. CASE CmdqPresent
    BY <1>0, <2>1, TakingStep DEF FlipType, ScalerType, CmdqPresent, PresentStart
  <2>2. CASE CmdqPresentQueued
    BY <2>2, TakingStep DEF FlipType, PaintType, ScalerType, CmdqPresentQueued,
       PresentStart
  <2>3. CASE CmdqDraw \/ CmdqAccept \/ EngineDone \/ CmdqIdle
    BY <2>3 DEF FlipType, PaintType, CmdqDraw, CmdqAccept, EngineDone, CmdqIdle
  <2> QED BY <2>1, <2>2, <2>3 DEF CmdqStep
<1>5. PaintType'
  <2>1. CASE CmdqIdle
    <3>1. content' \in [Buffer -> Nat]
      BY <2>1 DEF PaintType, CmdqIdle, CmdqType, Running
    <3> QED BY <1>4, <2>1, <3>1 DEF PaintType, CmdqIdle
  <2>2. CASE ~CmdqIdle
    BY <1>4, <2>2 DEF PaintType, CmdqStep, CmdqDraw, CmdqPresent,
       CmdqPresentQueued, CmdqAccept, EngineDone
  <2> QED BY <2>1, <2>2
<1> QED BY <1>1, <1>2, <1>3, <1>4, <1>5, <1>6

LEMMA TypeRest ==
    ASSUME TypeOK, FenceStep \/ PresentStep \/ ScalerStep PROVE TypeOK'
<1> SUFFICES /\ HandleType' /\ CmdqType' /\ FenceType'
             /\ FlipType' /\ ScalerType' /\ PaintType'
  BY TypePartsNext
<1> USE TypeParts
<1>1. CASE FenceStep
  <2>1. FenceType'
    BY <1>1 DEF FenceType, FenceStep, FenceStart, FenceWrite
  <2>2. HandleType'
    BY <1>1 DEF HandleType, FenceStep, FenceStart, FenceWrite
  <2>3. CmdqType' /\ FlipType'
    BY <1>1 DEF CmdqType, FlipType, FenceStep, FenceStart, FenceWrite
  <2>4. ScalerType' /\ PaintType'
    BY <1>1 DEF ScalerType, PaintType, FenceStep, FenceStart, FenceWrite
  <2> QED BY <2>1, <2>2, <2>3, <2>4
<1>2. CASE PresentFinish
  <2>1. FrontSel(front_idx) \in {0, 1} /\ NoCommand \in Running
    BY DEF FrontSel, NoCommand, Running
  <2>2. FenceType' /\ CmdqType'
    BY <1>2, <2>1 DEF FenceType, CmdqType, PresentFinish, CountDone
  <2> QED BY <1>2, <2>2 DEF HandleType, FlipType, ScalerType, PaintType,
          PresentFinish
<1>3. CASE PresentAck \/ SyncRetired
  <2>1. HandleType' /\ CmdqType'
    BY <1>3 DEF HandleType, CmdqType, PresentAck, SyncRetired
  <2>2. FenceType' /\ PaintType'
    BY <1>3 DEF FenceType, PaintType, PresentAck, SyncRetired
  <2>3. FlipType' /\ ScalerType'
    BY <1>3, TRUE \in BOOLEAN, FALSE \in BOOLEAN DEF FlipType, ScalerType, PresentAck, SyncRetired
  <2> QED BY <2>1, <2>2, <2>3
<1>4. CASE VblRise
  <2>1. HandleType' /\ CmdqType'
    BY <1>4 DEF HandleType, CmdqType, VblRise
  <2>2. FenceType' /\ PaintType'
    BY <1>4 DEF FenceType, PaintType, VblRise
  <2>3. FlipType' /\ ScalerType'
    BY <1>4, TRUE \in BOOLEAN, FALSE \in BOOLEAN DEF FlipType, ScalerType, VblRise
  <2> QED BY <2>1, <2>2, <2>3
<1>5. CASE ScalerLatch \/ ScalerRetire \/ ScalerBoundary
  <2>1. HandleType' /\ CmdqType'
    BY <1>5 DEF HandleType, CmdqType, ScalerLatch, ScalerRetire, ScalerBoundary
  <2>2. FenceType' /\ PaintType'
    BY <1>5 DEF FenceType, PaintType, ScalerLatch, ScalerRetire, ScalerBoundary
  <2>3. FlipType' /\ ScalerType'
    BY <1>5, TRUE \in BOOLEAN, FALSE \in BOOLEAN DEF FlipType, ScalerType, ScalerLatch, ScalerRetire, ScalerBoundary
  <2> QED BY <2>1, <2>2, <2>3
<1> QED BY <1>1, <1>2, <1>3, <1>4, <1>5 DEF PresentStep, ScalerStep

LEMMA TypeNext == ASSUME TypeOK, [Next]_vars PROVE TypeOK'
<1>1. CASE HostStep
  BY <1>1, TypeHost
<1>2. CASE CmdqStep
  BY <1>2, TypeCmdq
<1>3. CASE FenceStep \/ PresentStep \/ ScalerStep
  BY <1>3, TypeRest
<1>4. CASE UNCHANGED vars
  BY <1>4 DEF TypeOK
<1> QED BY <1>1, <1>2, <1>3, <1>4 DEF Next

\* Types: in every reachable state, for every bound and with or without the
\* barriers and raw presents of the constants, buffer indexes name buffers in
\* every copy that the SDK, cmdq, present and the scaler keep of them.
THEOREM TypeCorrect == Spec => []TypeOK
BY TypeInit, TypeNext, PTL DEF Spec
-----------------------------------------------------------------------------
(* Retirement.  The front buffer changes only when the blanking interval   *)
(* begins, and the scaler latches it before the interval ends.  A queued   *)
(* flip takes its acknowledgement level at the change, when every earlier  *)
(* retirement has crossed the synchroniser, and no frame is retired before *)
(* the scaler has latched: so the level cannot differ until it has.        *)

RetireInv ==
    /\ scan_base # front_idx => beam = "blank"
    /\ present_state = "WAIT_ACK" /\ ~notify /\ scan_base # front_idx =>
         retired_toggle = ack_baseline /\ fb_retired = ack_baseline
    /\ QueuedFlipRetired

LEMMA RetireNext ==
    ASSUME TypeOK, RetireInv, [Next]_vars PROVE RetireInv'
<1>1. CASE HostStep \/ FenceStep \/ UNCHANGED vars
  <2>1. UNCHANGED <<flip, fb_retired, scaler>>
    BY <1>1 DEF HostStep, HostDraw, HostPresent, HostPresentFirst,
       HostPresentQueued, HostBarrier, HostPoll, HostEnableThree, HostTransfer,
       HostTransferEnd, HostClose, HostOpen, FenceStep, FenceStart, FenceWrite
  <2> QED BY <2>1 DEF RetireInv, QueuedFlipRetired
<1>2. CASE CmdqPresent \/ CmdqPresentQueued
  <2>1. /\ UNCHANGED <<front_idx, fb_retired, scaler>>
        /\ UNCHANGED <<present_state, notify, ack_baseline>>
           \/ present_state' = "WAIT_VBL"
    BY <1>2 DEF CmdqPresent, CmdqPresentQueued, PresentStart
  <2> QED BY <2>1 DEF RetireInv, QueuedFlipRetired
<1>3. CASE CmdqDraw \/ CmdqAccept \/ EngineDone \/ CmdqIdle
  <2>1. UNCHANGED <<flip, fb_retired, scaler>>
    BY <1>3 DEF CmdqDraw, CmdqAccept, EngineDone, CmdqIdle
  <2> QED BY <2>1 DEF RetireInv, QueuedFlipRetired
<1>4. CASE PresentAck
  BY <1>4 DEF RetireInv, QueuedFlipRetired, PresentAck
<1>5. CASE PresentFinish
  BY <1>5 DEF RetireInv, QueuedFlipRetired, PresentFinish
<1>6. CASE SyncRetired
  BY <1>6 DEF RetireInv, QueuedFlipRetired, SyncRetired
<1>7. CASE VblRise
  <2>1. CASE present_state = "WAIT_VBL"
    <3>1. /\ beam' = "blank" /\ present_state' = "WAIT_ACK"
          /\ notify' = notify /\ retired_toggle' = retired_toggle
          /\ fb_retired' = fb_retired /\ fb_retired = retired_toggle
          /\ ~notify => ack_baseline' = fb_retired
      BY <1>7, <2>1 DEF VblRise
    <3> QED BY <3>1 DEF RetireInv, QueuedFlipRetired
  <2>2. CASE present_state # "WAIT_VBL"
    BY <1>7, <2>2 DEF RetireInv, QueuedFlipRetired, VblRise
  <2> QED BY <2>1, <2>2
<1>8. CASE ScalerLatch
  BY <1>8 DEF RetireInv, QueuedFlipRetired, ScalerLatch
<1>9. CASE ScalerRetire
  BY <1>9 DEF RetireInv, QueuedFlipRetired, ScalerRetire
<1>10. CASE ScalerBoundary
  BY <1>10 DEF RetireInv, QueuedFlipRetired, ScalerBoundary
<1> QED BY <1>1, <1>2, <1>3, <1>4, <1>5, <1>6, <1>7, <1>8, <1>9, <1>10
      DEF Next, CmdqStep, PresentStep, ScalerStep

LEMMA RetireInit == Init => RetireInv
BY DEF Init, RetireInv, QueuedFlipRetired

\* A queued flip retires only after the scaler has latched its buffer, for
\* every interleaving of flips, vertical blanks, retirements and their
\* synchronisation (present.sv, ascal.vhd), whatever the host does.
THEOREM FlipRetiredLatched == Spec => []QueuedFlipRetired
<1>1. RetireInv => QueuedFlipRetired
  BY DEF RetireInv
<1> QED BY <1>1, TypeInit, TypeNext, RetireInit, RetireNext, PTL DEF Spec

-----------------------------------------------------------------------------
(* What cmdq runs, and the numbers of the commands.                        *)

IsFlip(c) == c.op = "PRESENT_QUEUED" /\ c.buf # NoBuffer
IsBarrier(c) == c.op = "PRESENT_QUEUED" /\ c.buf = NoBuffer

CmdqInv ==
    /\ cmdq_state = "RUN" => command.op \in {"DRAW", "PRESENT"}
    /\ cmdq_state = "WAIT_MEMORY" => command.op = "DRAW"
    /\ cmdq_state \in {"IDLE", "ACCEPT"} => command.op = "NONE"
    /\ (command.op = "PRESENT") <=> (present_state # "IDLE" /\ notify)
    /\ present_state \in {"WAIT_ACK", "FINISH"} => front_idx = next_idx
    /\ command.op = "DRAW" => command.buf \in Buffer
    /\ \A i \in Index : queue[i].op = "DRAW" => queue[i].buf \in Buffer

\* The number of the newest command that cmdq has taken.
Taken == done_count + (IF cmdq_state \in {"RUN", "ACCEPT"} THEN 1 ELSE 0)

NumberInv ==
    /\ Taken + Len(queue) = submitted
    /\ hdr_count <= write_value /\ write_value <= done_count
    /\ cmdq_state = "WAIT_MEMORY" => hdr_count < done_count
    /\ host_pc \in {"closed", "cpu"} => hdr_count = submitted
    /\ present_fence <= submitted

LEMMA CmdqInit == Init => CmdqInv
BY DEF Init, CmdqInv, NoCommand, Index

\* A host step publishes at most two commands, and a draw names a buffer.
LEMMA HostFrame ==
    ASSUME TypeOK, HostStep
    PROVE  /\ UNCHANGED <<hdr, cmdq, fence, flip, fb_retired, scaler,
                          flip_paint, shown>>
           /\ ~HostTransferEnd => UNCHANGED content
BY DEF HostStep, HostDraw, HostPresent, HostPresentFirst,
       HostPresentQueued, HostBarrier, HostPoll, HostEnableThree, HostTransfer,
       HostTransferEnd, HostClose, HostOpen

HostQuiet ==
    \/ HostPoll \/ HostEnableThree \/ HostTransfer \/ HostTransferEnd
    \/ HostClose \/ HostOpen

LEMMA QuietFrame == HostQuiet => UNCHANGED <<queue, submitted>>
BY DEF HostQuiet, HostPoll, HostEnableThree, HostTransfer,
       HostTransferEnd, HostClose, HostOpen

\* What each call of the host adds to the queue.
LEMMA DrawEffect ==
    ASSUME TypeOK, HostDraw
    PROVE  /\ Len(queue') = Len(queue) + 1 /\ Len(queue) \in Nat
           /\ Index' = Index \cup {Len(queue) + 1}
           /\ \A i \in Index : queue'[i] = queue[i]
           /\ LET c == queue'[Len(queue) + 1] IN c.op = "DRAW" /\ c.buf = BackBuffer /\ c.paint = painted + 1
<1>0. BackBuffer \in Buffer /\ planned[BackBuffer] \in Nat /\ painted + 1 \in Nat
  BY BufferType DEF TypeOK
<1> DEFINE c == Draw(BackBuffer, painted + 1)
<1>1. c \in Entry /\ queue' = Append(queue, c)
  BY <1>0, EntryType DEF HostDraw
<1>2. c.op = "DRAW" /\ c.buf = BackBuffer /\ c.paint = painted + 1
  BY DEF Draw
<1> HIDE DEF c
<1>3. queue'[Len(queue) + 1] = c
  BY <1>1, Publishing
<1> QED BY <1>1, <1>2, <1>3, Publishing, QueueType

LEMMA PresentEffect ==
    ASSUME TypeOK, HostPresent
    PROVE  /\ Len(queue') = Len(queue) + 1 /\ Len(queue) \in Nat
           /\ Index' = Index \cup {Len(queue) + 1}
           /\ \A i \in Index : queue'[i] = queue[i]
           /\ LET c == queue'[Len(queue) + 1] IN c.op = "PRESENT" /\ c.paint = planned[BackBuffer]
<1>0. BackBuffer \in Buffer /\ planned[BackBuffer] \in Nat /\ painted + 1 \in Nat
  BY BufferType DEF TypeOK
<1> DEFINE c == Present(planned[BackBuffer])
<1>1. c \in Entry /\ queue' = Append(queue, c)
  BY <1>0, EntryType DEF HostPresent
<1>2. c.op = "PRESENT" /\ c.paint = planned[BackBuffer]
  BY DEF Present
<1> HIDE DEF c
<1>3. queue'[Len(queue) + 1] = c
  BY <1>1, Publishing
<1> QED BY <1>1, <1>2, <1>3, Publishing, QueueType

LEMMA QueuedEffect ==
    ASSUME TypeOK, HostPresentQueued
    PROVE  /\ Len(queue') = Len(queue) + 1 /\ Len(queue) \in Nat
           /\ Index' = Index \cup {Len(queue) + 1}
           /\ \A i \in Index : queue'[i] = queue[i]
           /\ LET c == queue'[Len(queue) + 1] IN c.op = "PRESENT_QUEUED" /\ c.buf = BackBuffer /\ c.paint = planned[BackBuffer]
<1>0. BackBuffer \in Buffer /\ planned[BackBuffer] \in Nat /\ painted + 1 \in Nat
  BY BufferType DEF TypeOK
<1> DEFINE c == PresentQueued(BackBuffer, planned[BackBuffer])
<1>1. c \in Entry /\ queue' = Append(queue, c)
  BY <1>0, EntryType DEF HostPresentQueued
<1>2. c.op = "PRESENT_QUEUED" /\ c.buf = BackBuffer /\ c.paint = planned[BackBuffer]
  BY DEF PresentQueued
<1> HIDE DEF c
<1>3. queue'[Len(queue) + 1] = c
  BY <1>1, Publishing
<1> QED BY <1>1, <1>2, <1>3, Publishing, QueueType

LEMMA BarrierEffect ==
    ASSUME TypeOK, HostBarrier
    PROVE  /\ Len(queue') = Len(queue) + 1 /\ Len(queue) \in Nat
           /\ Index' = Index \cup {Len(queue) + 1}
           /\ \A i \in Index : queue'[i] = queue[i]
           /\ LET c == queue'[Len(queue) + 1] IN c.op = "PRESENT_QUEUED" /\ c.buf = NoBuffer
<1>0. BackBuffer \in Buffer /\ planned[BackBuffer] \in Nat /\ painted + 1 \in Nat
  BY BufferType DEF TypeOK
<1> DEFINE c == Barrier
<1>1. c \in Entry /\ queue' = Append(queue, c)
  BY <1>0, EntryType DEF HostBarrier
<1>2. c.op = "PRESENT_QUEUED" /\ c.buf = NoBuffer
  BY DEF Barrier
<1> HIDE DEF c
<1>3. queue'[Len(queue) + 1] = c
  BY <1>1, Publishing
<1> QED BY <1>1, <1>2, <1>3, Publishing, QueueType

LEMMA FirstEffect ==
    ASSUME TypeOK, HostPresentFirst
    PROVE  /\ Len(queue') = Len(queue) + 2 /\ Len(queue) \in Nat
           /\ Index' = Index \cup {Len(queue) + 1, Len(queue) + 2}
           /\ \A i \in Index : queue'[i] = queue[i]
           /\ LET c == queue'[Len(queue) + 1]
              IN  /\ c.op = "PRESENT_QUEUED" /\ c.buf = BackBuffer
                  /\ c.paint = planned[BackBuffer]
           /\ LET d == queue'[Len(queue) + 2]
              IN  d.op = "PRESENT_QUEUED" /\ d.buf = NoBuffer
<1>0. BackBuffer \in Buffer /\ planned[BackBuffer] \in Nat
  BY BufferType DEF TypeOK
<1> DEFINE c == PresentQueued(BackBuffer, planned[BackBuffer])
<1>1. c \in Entry /\ Barrier \in Entry /\ queue' = queue \o <<c, Barrier>>
  BY <1>0, EntryType DEF HostPresentFirst
<1>2. /\ c.op = "PRESENT_QUEUED" /\ c.buf = BackBuffer /\ c.paint = planned[BackBuffer]
      /\ Barrier.op = "PRESENT_QUEUED" /\ Barrier.buf = NoBuffer
  BY DEF PresentQueued, Barrier
<1> HIDE DEF c
<1>3. queue'[Len(queue) + 1] = c /\ queue'[Len(queue) + 2] = Barrier
  BY <1>1, PublishingTwo
<1> QED BY <1>1, <1>2, <1>3, PublishingTwo, QueueType

LEMMA CmdqHost == ASSUME TypeOK, CmdqInv, HostStep PROVE CmdqInv'
<1>1. \A i \in Index' : queue'[i].op = "DRAW" => queue'[i].buf \in Buffer
  <2>1. CASE HostDraw
    BY <2>1, DrawEffect, BufferType DEF CmdqInv
  <2>2. CASE HostPresent
    BY <2>2, PresentEffect DEF CmdqInv
  <2>3. CASE HostPresentFirst
    BY <2>3, FirstEffect DEF CmdqInv
  <2>4. CASE HostPresentQueued
    BY <2>4, QueuedEffect DEF CmdqInv
  <2>5. CASE HostBarrier
    BY <2>5, BarrierEffect DEF CmdqInv
  <2>6. CASE HostQuiet
    BY <2>6, QuietFrame DEF CmdqInv, Index
  <2> QED BY <2>1, <2>2, <2>3, <2>4, <2>5, <2>6 DEF HostStep, HostQuiet
<1>2. UNCHANGED <<cmdq, flip>>
  BY HostFrame
<1> QED BY <1>1, <1>2 DEF CmdqInv

LEMMA CmdqNext == ASSUME TypeOK, CmdqInv, [Next]_vars PROVE CmdqInv'
<1>1. CASE HostStep
  BY <1>1, CmdqHost
<1>2. CASE CmdqDraw
  <2>1. queue # <<>> /\ queue' = Tail(queue) /\ Head(queue).op = "DRAW"
        /\ command' = Head(queue) /\ cmdq_state' = "RUN" /\ UNCHANGED flip
        /\ cmdq_state = "IDLE"
    BY <1>2 DEF CmdqDraw, CmdqTakes, Offered
  <2>2. \A i \in Index' : queue'[i].op = "DRAW" => queue'[i].buf \in Buffer
    BY <2>1, Taking DEF CmdqInv
  <2>3. command'.op = "DRAW" /\ command'.buf \in Buffer
    BY <2>1, Taking DEF CmdqInv
  <2> QED BY <2>1, <2>2, <2>3 DEF CmdqInv
<1>3. CASE CmdqPresent
  <2>1. queue # <<>> /\ queue' = Tail(queue) /\ command'.op = "PRESENT"
        /\ cmdq_state' = "RUN" /\ present_state' = "WAIT_VBL" /\ notify'
    BY <1>3 DEF CmdqPresent, CmdqTakes, Offered, PresentStart
  <2>2. \A i \in Index' : queue'[i].op = "DRAW" => queue'[i].buf \in Buffer
    BY <2>1, Taking DEF CmdqInv
  <2> QED BY <2>1, <2>2 DEF CmdqInv
<1>4. CASE CmdqPresentQueued
  <2>1. queue # <<>> /\ queue' = Tail(queue) /\ command'.op = "NONE"
        /\ cmdq_state' = "ACCEPT" /\ present_state = "IDLE"
        /\ (UNCHANGED flip \/ (present_state' = "WAIT_VBL" /\ ~notify'))
    BY <1>4 DEF CmdqPresentQueued, CmdqTakes, Offered, PresentStart,
       PresentBusy, NoCommand
  <2>2. \A i \in Index' : queue'[i].op = "DRAW" => queue'[i].buf \in Buffer
    BY <2>1, Taking DEF CmdqInv
  <2> QED BY <2>1, <2>2 DEF CmdqInv
<1>5. CASE CmdqAccept \/ EngineDone \/ CmdqIdle
  <2>1. UNCHANGED <<queue, flip>>
    BY <1>5 DEF CmdqAccept, EngineDone, CmdqIdle
  <2>2. \/ cmdq_state = "ACCEPT" /\ cmdq_state' = "IDLE" /\ command' = command
        \/ /\ cmdq_state = "RUN" /\ cmdq_state' = "WAIT_MEMORY"
           /\ command' = command /\ command.op = "DRAW"
        \/ /\ cmdq_state = "WAIT_MEMORY" /\ cmdq_state' = "IDLE"
           /\ command'.op = "NONE"
    BY <1>5 DEF CmdqAccept, EngineDone, CmdqIdle, NoCommand
  <2> QED BY <2>1, <2>2 DEF CmdqInv, Index
<1>6. CASE PresentFinish
  <2>1. UNCHANGED <<queue, notify, front_idx, next_idx>>
        /\ present_state' = "IDLE" /\ present_state = "FINISH"
    BY <1>6 DEF PresentFinish
  <2>2. CASE notify
    BY <1>6, <2>1, <2>2 DEF CmdqInv, Index, PresentFinish, NoCommand
  <2>3. CASE ~notify
    BY <1>6, <2>1, <2>3 DEF CmdqInv, Index, PresentFinish
  <2> QED BY <2>2, <2>3
<1>7. CASE PresentAck
  BY <1>7 DEF CmdqInv, Index, PresentAck
<1>8. CASE VblRise
  BY <1>8 DEF CmdqInv, Index, VblRise
<1>9. CASE SyncRetired \/ ScalerLatch \/ ScalerRetire \/ ScalerBoundary \/ FenceStep
           \/ UNCHANGED vars
  <2>1. UNCHANGED <<queue, cmdq, flip>>
    BY <1>9 DEF SyncRetired, ScalerLatch, ScalerRetire, ScalerBoundary, FenceStep,
       FenceStart, FenceWrite
  <2> QED BY <2>1 DEF CmdqInv, Index
<1> QED BY <1>1, <1>2, <1>3, <1>4, <1>5, <1>6, <1>7, <1>8, <1>9
      DEF Next, CmdqStep, PresentStep, ScalerStep
LEMMA NumberInit == Init => NumberInv
BY DEF Init, NumberInv, Taken

LEMMA NumberHost == ASSUME TypeOK, NumberInv, HostStep PROVE NumberInv'
<1>0. /\ done_count \in Nat /\ submitted \in Nat /\ present_fence \in Nat
      /\ UNCHANGED <<hdr_count, write_value, done_count, cmdq_state>>
  BY HostFrame DEF TypeOK
<1>1. Taken' = Taken /\ Taken \in Nat /\ Len(queue) \in Nat
  BY <1>0, QueueType DEF Taken
<1>2. CASE HostDraw
  <2>1. /\ host_pc' = "ready" /\ submitted' = submitted + 1
        /\ present_fence' = present_fence /\ Len(queue') = Len(queue) + 1
    BY <1>2, DrawEffect DEF HostDraw
  <2>2. Taken' + Len(queue') = submitted'
    BY <1>0, <1>1, <2>1 DEF NumberInv
  <2> QED BY <1>0, <2>1, <2>2 DEF NumberInv
<1>3. CASE HostPresent \/ HostPresentQueued \/ HostBarrier
  <2>1. /\ host_pc' = "ready" /\ submitted' = submitted + 1
        /\ present_fence' = submitted + 1 /\ Len(queue') = Len(queue) + 1
    BY <1>3, PresentEffect, QueuedEffect, BarrierEffect
       DEF HostPresent, HostPresentQueued, HostBarrier
  <2>2. Taken' + Len(queue') = submitted'
    BY <1>0, <1>1, <2>1 DEF NumberInv
  <2> QED BY <1>0, <2>1, <2>2 DEF NumberInv
<1>4. CASE HostPresentFirst
  <2>1. /\ host_pc' = "ready" /\ submitted' = submitted + 2
        /\ present_fence' = submitted + 2 /\ Len(queue') = Len(queue) + 2
    BY <1>4, FirstEffect DEF HostPresentFirst
  <2>2. Taken' + Len(queue') = submitted'
    BY <1>0, <1>1, <2>1 DEF NumberInv
  <2> QED BY <1>0, <2>1, <2>2 DEF NumberInv
<1>5. CASE HostQuiet
  <2>1. /\ present_fence' \in {0, present_fence}
        /\ host_pc' \in {"closed", "cpu"} =>
             host_pc \in {"closed", "cpu"} \/ hdr_count = submitted
    BY <1>5 DEF HostQuiet, HostPoll, HostEnableThree, HostTransfer,
       HostTransferEnd, HostClose, HostOpen, Drained
  <2>2. UNCHANGED <<queue, submitted>>
    BY <1>5, QuietFrame
  <2> QED BY <1>0, <1>1, <2>1, <2>2 DEF NumberInv
<1> QED BY <1>2, <1>3, <1>4, <1>5 DEF HostStep, HostQuiet

LEMMA NumberNext == ASSUME TypeOK, CmdqInv, NumberInv, [Next]_vars PROVE NumberInv'
<1>0. /\ done_count \in Nat /\ submitted \in Nat /\ present_fence \in Nat
      /\ hdr_count \in Nat /\ write_value \in Nat /\ Len(queue) \in Nat
  BY QueueType DEF TypeOK
<1>1. CASE HostStep
  BY <1>1, NumberHost
<1>2. CASE CmdqDraw \/ CmdqPresent \/ CmdqPresentQueued
  <2>1. /\ UNCHANGED <<host_pc, submitted, present_fence, hdr_count,
                       write_value, done_count>>
        /\ cmdq_state = "IDLE" /\ cmdq_state' \in {"RUN", "ACCEPT"}
    BY <1>2 DEF CmdqDraw, CmdqPresent, CmdqPresentQueued, CmdqTakes
  <2>2. Len(queue') = Len(queue) - 1
    BY <1>2, TakingStep, Taking
  <2> QED BY <1>0, <2>1, <2>2 DEF NumberInv, Taken
<1>3. CASE CmdqAccept \/ EngineDone
  <2>1. /\ UNCHANGED <<host_pc, submitted, present_fence, hdr_count, queue,
                       write_value>>
        /\ done_count' = done_count + 1
        /\ cmdq_state \in {"RUN", "ACCEPT"} /\ cmdq_state' \in {"IDLE", "WAIT_MEMORY"}
    BY <1>3 DEF CmdqAccept, EngineDone, CountDone
  <2> QED BY <1>0, <2>1 DEF NumberInv, Taken
<1>4. CASE CmdqIdle
  BY <1>0, <1>4 DEF NumberInv, Taken, CmdqIdle
<1>5. CASE PresentFinish
  <2>1. UNCHANGED <<host_pc, submitted, present_fence, hdr_count, queue, write_value>>
    BY <1>5 DEF PresentFinish, CountDone
  <2>2. CASE notify
    <3>1. command.op = "PRESENT" /\ cmdq_state \in {"IDLE", "RUN", "WAIT_MEMORY", "ACCEPT"}
      BY <1>5, <2>2 DEF CmdqInv, PresentFinish, TypeOK
    <3>2. cmdq_state = "RUN" /\ cmdq_state' = "IDLE" /\ done_count' = done_count + 1
      BY <1>5, <2>2, <3>1 DEF CmdqInv, PresentFinish, CountDone
    <3> QED BY <1>0, <2>1, <3>2 DEF NumberInv, Taken
  <2>3. CASE ~notify
    BY <1>5, <2>1, <2>3 DEF NumberInv, Taken, PresentFinish
  <2> QED BY <2>2, <2>3
<1>6. CASE FenceStart
  BY <1>0, <1>6 DEF NumberInv, Taken, FenceStart
<1>7. CASE FenceWrite
  <2>1. /\ UNCHANGED <<host_pc, submitted, present_fence, queue, write_value,
                       done_count, cmdq_state>>
        /\ hdr_count' = write_value /\ cmdq_state # "WAIT_MEMORY"
    BY <1>7 DEF FenceWrite
  <2>2. host_pc \in {"closed", "cpu"} => hdr_count' = submitted
    BY <1>0, <2>1 DEF NumberInv, Taken
  <2> QED BY <1>0, <2>1, <2>2 DEF NumberInv, Taken
<1>8. CASE PresentAck \/ SyncRetired \/ ScalerStep \/ UNCHANGED vars
  <2>1. UNCHANGED <<host_pc, submitted, present_fence, hdr_count, queue,
                    write_value, done_count, cmdq_state>>
    BY <1>8 DEF PresentAck, SyncRetired, ScalerStep, VblRise, ScalerLatch,
       ScalerRetire, ScalerBoundary
  <2> QED BY <2>1 DEF NumberInv, Taken
<1> QED BY <1>1, <1>2, <1>3, <1>4, <1>5, <1>6, <1>7, <1>8
      DEF Next, CmdqStep, FenceStep, PresentStep

\* Once the fence covers every command, cmdq holds none.
LEMMA DrainedIdle ==
    ASSUME TypeOK, CmdqInv, NumberInv, hdr_count = submitted
    PROVE  /\ Len(queue) = 0 /\ Index = {} /\ cmdq_state = "IDLE"
           /\ command.op = "NONE" /\ done_count = submitted
<1>0. /\ done_count \in Nat /\ submitted \in Nat
      /\ hdr_count \in Nat /\ write_value \in Nat /\ Len(queue) \in Nat
      /\ cmdq_state \in {"IDLE", "RUN", "WAIT_MEMORY", "ACCEPT"}
  BY QueueType DEF TypeOK
<1>1. Len(queue) = 0 /\ done_count = submitted /\ cmdq_state \notin {"RUN", "ACCEPT"}
  BY <1>0 DEF NumberInv, Taken
<1>2. cmdq_state = "IDLE"
  BY <1>0, <1>1 DEF NumberInv
<1> QED BY <1>1, <1>2 DEF CmdqInv, Index
-----------------------------------------------------------------------------
(* Batches.  A handle waits for its last present before it presents again, *)
(* so the queue holds the commands of one present at most, none of them    *)
(* once the fence covers it.                                               *)

NoFlip == \A i \in Index : queue[i].op = "DRAW"

Awaited == \A i \in Index : queue[i].op # "DRAW" =>
             present_pending /\ Taken + i <= present_fence

InMode == \A i \in Index :
            /\ queue[i].op = "PRESENT" => buffer_count = 2
            /\ queue[i].op = "PRESENT_QUEUED" => buffer_count = 3 /\ three_buffer_primed

Fenced == \A i \in Index : IsFlip(queue[i]) /\ ~unfenced_flip =>
            i < Len(queue) /\ IsBarrier(queue[i + 1])

Single == \A i, j \in Index : i < j /\ queue[i].op # "DRAW" /\ queue[j].op # "DRAW" =>
            j = i + 1 /\ IsFlip(queue[i]) /\ IsBarrier(queue[j]) /\ ~unfenced_flip

PresentRuns == command.op = "PRESENT" \/ cmdq_state = "ACCEPT"

HandleInv ==
    /\ PresentRuns => present_pending /\ Taken <= present_fence
    /\ command.op = "PRESENT" => buffer_count = 2
    /\ unfenced_flip => buffer_count = 3 /\ three_buffer_primed
    /\ host_pc = "closed" => ~unfenced_flip

BatchInv == Awaited /\ InMode /\ Fenced /\ Single /\ HandleInv

LEMMA BatchInit == Init => BatchInv
BY DEF Init, BatchInv, Awaited, InMode, Fenced, Single, HandleInv, PresentRuns, Index,
   NoCommand

LEMMA NotPending ==
    ASSUME BatchInv, ~present_pending PROVE NoFlip /\ ~PresentRuns
BY DEF BatchInv, Awaited, HandleInv, NoFlip

\* When everything up to the present's fence is counted, its batch is done.
LEMMA BatchDone ==
    ASSUME TypeOK, CmdqInv, NumberInv, BatchInv,
           \/ hdr_count >= present_fence \/ write_value >= present_fence
           \/ done_count >= present_fence
    PROVE  NoFlip /\ ~PresentRuns
<1>0. /\ done_count \in Nat /\ present_fence \in Nat /\ hdr_count \in Nat
      /\ write_value \in Nat
  BY DEF TypeOK
<1>1. done_count >= present_fence
  BY <1>0 DEF NumberInv
<1>2. NoFlip
  <2>1. SUFFICES ASSUME NEW i \in Index, queue[i].op # "DRAW" PROVE FALSE
    BY DEF NoFlip
  <2>2. Taken + i <= present_fence /\ i \in Nat /\ i > 0
    BY <2>1, QueueType DEF BatchInv, Awaited
  <2> QED BY <1>0, <1>1, <2>2 DEF Taken
<1>3. ~PresentRuns
  <2>1. SUFFICES ASSUME PresentRuns PROVE FALSE
    OBVIOUS
  <2>2. cmdq_state \in {"RUN", "ACCEPT"}
    BY <2>1 DEF PresentRuns, CmdqInv, TypeOK
  <2>3. Taken <= present_fence
    BY <2>1 DEF BatchInv, HandleInv
  <2> QED BY <1>0, <1>1, <2>2, <2>3 DEF Taken
<1> QED BY <1>2, <1>3

\* HandleInv is kept by what leaves the handle and cmdq alone.
LEMMA BatchSame ==
    ASSUME BatchInv,
           UNCHANGED <<host_pc, queue, cmdq, done_count, buffer_count,
                       three_buffer_primed, present_pending, present_fence,
                       unfenced_flip>>
    PROVE  BatchInv'
BY DEF BatchInv, Awaited, InMode, Fenced, Single, HandleInv, PresentRuns, Index, Taken

LEMMA BatchDraw ==
    ASSUME TypeOK, CmdqInv, NumberInv, BatchInv, HostDraw PROVE BatchInv'
<1>0. UNCHANGED <<host_pc, cmdq, done_count, buffer_count, three_buffer_primed,
                  present_pending, present_fence, unfenced_flip>>
  BY DEF HostDraw
<1>1. Taken' = Taken /\ HandleInv'
  BY <1>0 DEF Taken, HandleInv, PresentRuns, BatchInv
<1>2. Awaited' /\ InMode'
  BY <1>0, <1>1, DrawEffect DEF Awaited, InMode, BatchInv
<1>3. Fenced'
  <2> SUFFICES ASSUME NEW i \in Index', IsFlip(queue'[i]), ~unfenced_flip
               PROVE  i < Len(queue') /\ IsBarrier(queue'[i + 1])
    BY <1>0 DEF Fenced
  <2>1. i \in Index /\ queue'[i] = queue[i]
    BY DrawEffect DEF IsFlip
  <2>2. i < Len(queue) /\ IsBarrier(queue[i + 1])
    BY <2>1 DEF Fenced, BatchInv
  <2>3. i + 1 \in Index /\ i \in Nat
    BY <2>1, <2>2, QueueType DEF Index
  <2>4. queue'[i + 1] = queue[i + 1] /\ Len(queue') = Len(queue) + 1
        /\ Len(queue) \in Nat
    BY <2>3, DrawEffect
  <2> QED BY <2>2, <2>3, <2>4
<1>4. Single'
  <2> SUFFICES ASSUME NEW i \in Index', NEW j \in Index', i < j,
                      queue'[i].op # "DRAW", queue'[j].op # "DRAW"
               PROVE  j = i + 1 /\ IsFlip(queue'[i]) /\ IsBarrier(queue'[j]) /\ ~unfenced_flip
    BY <1>0 DEF Single
  <2>1. i \in Index /\ queue'[i] = queue[i] /\ j \in Index /\ queue'[j] = queue[j]
    BY DrawEffect
  <2> QED BY <2>1 DEF Single, BatchInv
<1> QED BY <1>1, <1>2, <1>3, <1>4 DEF BatchInv

LEMMA BatchPresent ==
    ASSUME TypeOK, CmdqInv, NumberInv, BatchInv,
           HostPresent \/ HostPresentQueued \/ HostBarrier,
           RawPresents = FALSE
    PROVE  BatchInv'
<1>0. /\ UNCHANGED <<host_pc, cmdq, done_count, buffer_count, three_buffer_primed>>
      /\ host_pc = "ready" /\ ~present_pending /\ present_pending'
      /\ present_fence' = submitted + 1 /\ submitted \in Nat /\ done_count \in Nat
      /\ HostPresentQueued \/ HostBarrier => buffer_count = 3 /\ three_buffer_primed
      /\ HostPresent => buffer_count = 2 /\ unfenced_flip' = unfenced_flip
      /\ HostPresentQueued => unfenced_flip' = TRUE
      /\ HostBarrier => unfenced_flip' = FALSE
  BY DEF HostPresent, HostPresentQueued, HostBarrier, TypeOK
<1>1. NoFlip /\ ~PresentRuns
  BY <1>0, NotPending
<1>2. Taken' = Taken /\ HandleInv'
  BY <1>0, <1>1 DEF Taken, HandleInv, PresentRuns, BatchInv
<1>3. /\ Len(queue') = Len(queue) + 1 /\ Len(queue) \in Nat
      /\ Index' = Index \cup {Len(queue) + 1}
      /\ \A i \in Index : queue'[i].op = "DRAW"
      /\ queue'[Len(queue) + 1].op = IF HostPresent THEN "PRESENT" ELSE "PRESENT_QUEUED"
      /\ HostBarrier => queue'[Len(queue) + 1].buf = NoBuffer
  BY <1>1, PresentEffect, QueuedEffect, BarrierEffect DEF NoFlip,
     HostPresent, HostPresentQueued, HostBarrier
<1>4. Awaited'
  <2>1. Taken + Len(queue) = submitted /\ Taken \in Nat
    BY <1>0 DEF NumberInv, Taken
  <2>2. Taken' + (Len(queue) + 1) <= present_fence'
    BY <1>0, <1>2, <1>3, <2>1
  <2> QED BY <1>0, <1>3, <2>2 DEF Awaited
<1>5. InMode'
  BY <1>0, <1>3 DEF InMode
<1>6. Fenced'
  BY <1>0, <1>3 DEF Fenced, IsFlip, HandleInv, BatchInv
<1>7. Single'
  BY <1>0, <1>3 DEF Single
<1> QED BY <1>2, <1>4, <1>5, <1>6, <1>7 DEF BatchInv

LEMMA BatchFirst ==
    ASSUME TypeOK, CmdqInv, NumberInv, BatchInv, HostPresentFirst
    PROVE  BatchInv'
<1>0. /\ UNCHANGED <<host_pc, cmdq, done_count, buffer_count>>
      /\ buffer_count = 3 /\ three_buffer_primed' = TRUE
      /\ host_pc = "ready" /\ ~present_pending /\ present_pending'
      /\ present_fence' = submitted + 2 /\ submitted \in Nat /\ done_count \in Nat
      /\ unfenced_flip' = FALSE
  BY DEF HostPresentFirst, TypeOK
<1>1. NoFlip /\ ~PresentRuns
  BY <1>0, NotPending
<1>2. Taken' = Taken /\ HandleInv' /\ Taken \in Nat
  BY <1>0, <1>1 DEF Taken, HandleInv, PresentRuns, BatchInv
<1>3. /\ Len(queue') = Len(queue) + 2 /\ Len(queue) \in Nat
      /\ Index' = Index \cup {Len(queue) + 1, Len(queue) + 2}
      /\ \A i \in Index : queue'[i].op = "DRAW" /\ i \in Nat /\ i <= Len(queue)
      /\ IsFlip(queue'[Len(queue) + 1]) /\ IsBarrier(queue'[Len(queue) + 2])
  BY <1>1, FirstEffect, BufferType, QueueType
     DEF NoFlip, IsFlip, IsBarrier, Buffer, NoBuffer, Index
<1>4. Awaited'
  <2>1. Taken + Len(queue) = submitted
    BY DEF NumberInv
  <2> QED BY <1>0, <1>2, <1>3, <2>1 DEF Awaited
<1>5. InMode'
  BY <1>0, <1>3 DEF InMode, IsFlip, IsBarrier
<1>6. Fenced'
  BY <1>0, <1>3 DEF Fenced, IsFlip, IsBarrier
<1>7. Single'
  BY <1>0, <1>3 DEF Single
<1> QED BY <1>2, <1>4, <1>5, <1>6, <1>7 DEF BatchInv

LEMMA BatchQuiet ==
    ASSUME TypeOK, CmdqInv, NumberInv, BatchInv, HostQuiet, BarrierOnClose = TRUE
    PROVE  BatchInv'
<1>0. UNCHANGED <<queue, cmdq, done_count, unfenced_flip>>
  BY DEF HostQuiet, HostPoll, HostEnableThree, HostTransfer,
     HostTransferEnd, HostClose, HostOpen
<1>1. CASE HostTransferEnd \/ HostClose
  <2>1. /\ UNCHANGED <<buffer_count, three_buffer_primed, present_pending, present_fence>>
        /\ host_pc' = "closed" => ~unfenced_flip
    BY <1>1 DEF HostTransferEnd, HostClose
  <2>0. Taken' = Taken /\ (PresentRuns' <=> PresentRuns) /\ command' = command
    BY <1>0 DEF Taken, PresentRuns
  <2>2. HandleInv'
    BY <2>0, <2>1, <1>0 DEF BatchInv, HandleInv
  <2>3. Awaited' /\ InMode'
    BY <1>0, <2>0, <2>1 DEF BatchInv, Awaited, InMode, Index
  <2>4. Fenced' /\ Single'
    BY <1>0 DEF BatchInv, Fenced, Single, Index
  <2> QED BY <2>2, <2>3, <2>4 DEF BatchInv
<1>2. CASE HostPoll \/ HostTransfer \/ HostEnableThree \/ HostOpen
  <2>1. NoFlip /\ ~PresentRuns
    <3>1. CASE HostPoll
      BY <3>1, BatchDone DEF HostPoll
    <3>2. CASE HostTransfer
      BY <3>2, DrainedIdle DEF HostTransfer, Drained, NoFlip, PresentRuns
    <3>3. CASE HostEnableThree
      BY <3>3, NotPending DEF HostEnableThree
    <3>4. CASE HostOpen
      BY <3>4, DrainedIdle DEF HostOpen, NumberInv, NoFlip, PresentRuns
    <3> QED BY <1>2, <3>1, <3>2, <3>3, <3>4
  <2>2. NoFlip' /\ ~PresentRuns'
    BY <1>0, <2>1 DEF NoFlip, PresentRuns, Index
  <2>3. /\ unfenced_flip' => buffer_count' = 3 /\ three_buffer_primed'
        /\ host_pc' = "closed" => ~unfenced_flip'
    BY <1>2 DEF HostPoll, HostTransfer, HostEnableThree, HostOpen, BatchInv, HandleInv
  <2>4. HandleInv'
    BY <2>2, <2>3 DEF HandleInv, PresentRuns
  <2>5. Fenced' /\ Single'
    BY <2>2 DEF NoFlip, Fenced, Single, IsFlip
  <2> QED BY <2>2, <2>4, <2>5 DEF BatchInv, NoFlip, Awaited, InMode
<1> QED BY <1>1, <1>2 DEF HostQuiet
LEMMA BatchTaken ==
    ASSUME TypeOK, CmdqInv, NumberInv, BatchInv,
           CmdqDraw \/ CmdqPresent \/ CmdqPresentQueued
    PROVE  BatchInv'
<1>0. /\ UNCHANGED <<host_pc, done_count, buffer_count, three_buffer_primed,
                     present_pending, present_fence, unfenced_flip>>
      /\ cmdq_state = "IDLE" /\ cmdq_state' \in {"RUN", "ACCEPT"}
      /\ queue # <<>> /\ queue' = Tail(queue) /\ done_count \in Nat
      /\ command'.op = "PRESENT" => queue[1].op = "PRESENT"
      /\ CmdqDraw => command'.op = "DRAW" /\ cmdq_state' = "RUN"
      /\ ~CmdqDraw => queue[1].op # "DRAW"
  <2>1. queue # <<>> /\ queue' = Tail(queue) /\ Head(queue) = queue[1]
    BY Taking, TakingStep
  <2>2. CASE CmdqDraw
    BY <2>1, <2>2 DEF CmdqDraw, CmdqTakes, Offered, TypeOK
  <2>3. CASE CmdqPresent
    BY <2>1, <2>3 DEF CmdqPresent, CmdqDraw, CmdqTakes, Offered, TypeOK
  <2>4. CASE CmdqPresentQueued
    BY <2>1, <2>4 DEF CmdqPresentQueued, CmdqDraw, CmdqTakes, Offered, NoCommand,
       TypeOK
  <2> QED BY <2>2, <2>3, <2>4
<1>1. /\ Len(queue') = Len(queue) - 1 /\ Len(queue) \in Nat /\ 1 \in Index
      /\ \A i \in Index' : /\ queue'[i] = queue[i + 1] /\ i + 1 \in Index
                           /\ i \in Nat /\ i > 0
  BY <1>0, Taking, QueueType DEF Index
<1>2. Taken' = Taken + 1 /\ Taken \in Nat
  BY <1>0 DEF Taken
<1>3. Awaited'
  <2> SUFFICES ASSUME NEW i \in Index', queue'[i].op # "DRAW"
               PROVE  present_pending /\ Taken' + i <= present_fence
    BY <1>0 DEF Awaited
  <2>1. present_pending /\ Taken + (i + 1) <= present_fence
    BY <1>1 DEF BatchInv, Awaited
  <2> QED BY <1>1, <1>2, <2>1
<1>4. InMode'
  BY <1>0, <1>1 DEF BatchInv, InMode
<1>5. Fenced'
  <2> SUFFICES ASSUME NEW i \in Index', IsFlip(queue'[i]), ~unfenced_flip
               PROVE  i < Len(queue') /\ IsBarrier(queue'[i + 1])
    BY <1>0 DEF Fenced
  <2>1. i + 1 < Len(queue) /\ IsBarrier(queue[(i + 1) + 1])
    BY <1>1 DEF BatchInv, Fenced
  <2>2. i + 1 \in Index'
    BY <1>1, <2>1 DEF Index
  <2> QED BY <1>1, <2>1, <2>2
<1>6. Single'
  <2> SUFFICES ASSUME NEW i \in Index', NEW j \in Index', i < j,
                      queue'[i].op # "DRAW", queue'[j].op # "DRAW"
               PROVE  /\ j = i + 1 /\ IsFlip(queue'[i]) /\ IsBarrier(queue'[j])
                      /\ ~unfenced_flip
    BY <1>0 DEF Single
  <2>1. /\ j + 1 = (i + 1) + 1 /\ IsFlip(queue[i + 1]) /\ IsBarrier(queue[j + 1])
        /\ ~unfenced_flip
    BY <1>1 DEF BatchInv, Single
  <2> QED BY <1>1, <2>1
<1>7. HandleInv'
  <2>1. PresentRuns' => present_pending /\ Taken' <= present_fence
    <3> SUFFICES ASSUME PresentRuns' PROVE present_pending /\ Taken' <= present_fence
      OBVIOUS
    <3>1. ~CmdqDraw
      BY <1>0 DEF PresentRuns
    <3> QED BY <1>0, <1>1, <1>2, <3>1 DEF BatchInv, Awaited
  <2>2. command'.op = "PRESENT" => buffer_count = 2
    BY <1>0, <1>1 DEF BatchInv, InMode
  <2> QED BY <1>0, <2>1, <2>2 DEF BatchInv, HandleInv
<1> QED BY <1>3, <1>4, <1>5, <1>6, <1>7 DEF BatchInv

LEMMA BatchNext ==
    ASSUME TypeOK, CmdqInv, NumberInv, BatchInv, [Next]_vars,
           BarrierOnClose = TRUE, RawPresents = FALSE
    PROVE  BatchInv'
<1>1. CASE HostStep
  BY <1>1, BatchDraw, BatchPresent, BatchFirst, BatchQuiet DEF HostStep, HostQuiet
<1>2. CASE CmdqDraw \/ CmdqPresent \/ CmdqPresentQueued
  BY <1>2, BatchTaken
<1>3. CASE CmdqAccept \/ EngineDone \/ CmdqIdle \/ PresentFinish
  <2>1. /\ UNCHANGED <<host_pc, queue, buffer_count, three_buffer_primed,
                       present_pending, present_fence, unfenced_flip>>
        /\ done_count \in Nat
    BY <1>3 DEF CmdqAccept, EngineDone, CmdqIdle, PresentFinish, TypeOK
  <2>2. Taken' = Taken
    <3>1. CASE CmdqAccept \/ EngineDone
      BY <2>1, <3>1 DEF CmdqAccept, EngineDone, CountDone, Taken
    <3>2. CASE CmdqIdle
      BY <3>2 DEF CmdqIdle, Taken
    <3>3. CASE PresentFinish /\ notify
      <4>1. command.op = "PRESENT" /\ cmdq_state \in {"IDLE", "RUN", "WAIT_MEMORY", "ACCEPT"}
        BY <3>3 DEF CmdqInv, PresentFinish, TypeOK
      <4>2. cmdq_state = "RUN" /\ cmdq_state' = "IDLE" /\ done_count' = done_count + 1
        BY <3>3, <4>1 DEF CmdqInv, PresentFinish, CountDone
      <4> QED BY <2>1, <4>2 DEF Taken
    <3>4. CASE PresentFinish /\ ~notify
      BY <3>4 DEF PresentFinish, Taken
    <3> QED BY <1>3, <3>1, <3>2, <3>3, <3>4
  <2>3. (PresentRuns' => PresentRuns) /\ (command'.op = "PRESENT" => command.op = "PRESENT")
    BY <1>3 DEF PresentRuns, CmdqAccept, EngineDone, CmdqIdle, PresentFinish, NoCommand
  <2>4. HandleInv'
    BY <2>1, <2>2, <2>3 DEF BatchInv, HandleInv
  <2>5. Awaited' /\ InMode'
    BY <2>1, <2>2 DEF BatchInv, Awaited, InMode, Index
  <2>6. Fenced' /\ Single'
    BY <2>1 DEF BatchInv, Fenced, Single, Index
  <2> QED BY <2>4, <2>5, <2>6 DEF BatchInv
<1>4. CASE FenceStep \/ PresentAck \/ SyncRetired \/ ScalerStep \/ UNCHANGED vars
  <2>1. UNCHANGED <<host_pc, queue, cmdq, done_count, buffer_count,
                    three_buffer_primed, present_pending, present_fence,
                    unfenced_flip>>
    BY <1>4 DEF FenceStep, FenceStart, FenceWrite, PresentAck, SyncRetired,
       ScalerStep, VblRise, ScalerLatch, ScalerRetire, ScalerBoundary
  <2> QED BY <2>1, BatchSame
<1> QED BY <1>1, <1>2, <1>3, <1>4 DEF Next, CmdqStep, PresentStep
-----------------------------------------------------------------------------
(* Settled flips.  With no present in the queue or in cmdq, and no flip    *)
(* published after the last barrier, the hardware is idle and every copy   *)
(* of the front buffer's parity is the right one.                          *)

Settled == ~unfenced_flip /\ NoFlip /\ command.op # "PRESENT"

SettledInv ==
    /\ Settled => /\ present_state = "IDLE"
                  /\ cmdq_state # "ACCEPT" => front_value = FrontSel(front_idx)
    /\ ~unfenced_flip /\ hdr_count >= present_fence => hdr_front = FrontSel(front_idx)
    /\ buffer_count = 2 /\ ~present_pending => presents_completed = FrontSel(front_idx)

LEMMA SettledInit == Init => SettledInv
BY DEF Init, SettledInv, FrontSel

LEMMA SettledHandle ==
    ASSUME TypeOK, CmdqInv, NumberInv, BatchInv, SettledInv,
           \/ ~present_pending \/ hdr_count >= present_fence \/ write_value >= present_fence
           \/ done_count >= present_fence,
           ~unfenced_flip
    PROVE  /\ Settled /\ present_state = "IDLE" /\ front_value = FrontSel(front_idx)
           /\ cmdq_state # "ACCEPT"
<1>1. NoFlip /\ ~PresentRuns
  BY NotPending, BatchDone
<1> QED BY <1>1 DEF SettledInv, Settled, PresentRuns

LEMMA FenceBound ==
    ASSUME TypeOK, NumberInv PROVE hdr_count <= submitted
<1>1. /\ done_count \in Nat /\ submitted \in Nat /\ hdr_count \in Nat
      /\ write_value \in Nat /\ Len(queue) \in Nat
  BY QueueType DEF TypeOK
<1>2. Taken >= done_count /\ Taken \in Nat
  BY <1>1 DEF Taken
<1> QED BY <1>1, <1>2 DEF NumberInv

LEMMA SettledHost ==
    ASSUME TypeOK, CmdqInv, NumberInv, BatchInv, SettledInv, HostStep
    PROVE  SettledInv'
<1>0. /\ UNCHANGED <<hdr_count, hdr_front, cmdq_state, command, front_value,
                     present_state, front_idx>>
      /\ FrontSel(front_idx)' = FrontSel(front_idx)
      /\ hdr_count \in Nat /\ submitted \in Nat /\ hdr_count <= submitted
  BY HostFrame, FenceBound DEF TypeOK
<1>1. CASE HostDraw
  <2>1. /\ UNCHANGED <<unfenced_flip, present_fence, buffer_count,
                       present_pending, presents_completed>>
    BY <1>1 DEF HostDraw
  <2>2. NoFlip' => NoFlip
    BY <1>1, DrawEffect DEF NoFlip
  <2> QED BY <1>0, <2>1, <2>2 DEF SettledInv, Settled
<1>2. CASE HostPresent \/ HostPresentQueued \/ HostBarrier \/ HostPresentFirst
  <2>1. /\ present_pending' = TRUE
        /\ present_fence' = submitted + 1 \/ present_fence' = submitted + 2
    BY <1>2 DEF HostPresent, HostPresentQueued, HostBarrier, HostPresentFirst
  <2>2. ~NoFlip'
    <3>1. Len(queue) + 1 \in Index' /\ queue'[Len(queue) + 1].op # "DRAW"
      BY <1>2, PresentEffect, QueuedEffect, BarrierEffect, FirstEffect
    <3> QED BY <3>1 DEF NoFlip
  <2>3. ~(hdr_count' >= present_fence')
    BY <1>0, <2>1
  <2> QED BY <2>1, <2>2, <2>3 DEF SettledInv, Settled
<1>3. CASE HostQuiet
  <2>1. UNCHANGED <<queue, unfenced_flip>> /\ (NoFlip' <=> NoFlip)
    BY <1>3 DEF HostQuiet, HostPoll, HostEnableThree, HostTransfer,
       HostTransferEnd, HostClose, HostOpen, NoFlip, Index
  <2>2. Settled' => /\ present_state' = "IDLE"
                    /\ cmdq_state' # "ACCEPT" => front_value' = FrontSel(front_idx)'
    BY <1>0, <2>1 DEF SettledInv, Settled
  <2>3. ~unfenced_flip' /\ hdr_count' >= present_fence' => hdr_front' = FrontSel(front_idx)'
    <3>1. CASE HostOpen
      <4>1. hdr_count >= present_fence
        BY <3>1, <1>0 DEF NumberInv, TypeOK, HostOpen
      <4> QED BY <4>1, <2>1, <1>0 DEF SettledInv
    <3>2. CASE ~HostOpen
      <4>1. present_fence' = present_fence
        BY <1>3, <3>2 DEF HostQuiet, HostPoll, HostEnableThree, HostTransfer,
           HostTransferEnd, HostClose
      <4> QED BY <4>1, <2>1, <1>0 DEF SettledInv
    <3> QED BY <3>1, <3>2
  <2>4. buffer_count' = 2 /\ ~present_pending' => presents_completed' = FrontSel(front_idx)'
    <3>1. CASE HostPoll \/ HostTransfer \/ HostOpen
      <4>1. buffer_count' = 2 => presents_completed' = hdr_front
        BY <3>1 DEF HostPoll, HostTransfer, HostOpen, PresentObserved
      <4>2. buffer_count' = 2 => ~unfenced_flip
        BY <3>1 DEF HostPoll, HostTransfer, HostOpen, BatchInv, HandleInv
      <4>3. hdr_count >= present_fence
        BY <3>1, <1>0 DEF HostPoll, HostTransfer, HostOpen, Drained, NumberInv, TypeOK
      <4> QED BY <1>0, <4>1, <4>2, <4>3 DEF SettledInv
    <3>2. CASE HostEnableThree
      BY <3>2 DEF HostEnableThree
    <3>3. CASE HostTransferEnd \/ HostClose
      BY <3>3, <1>0 DEF HostTransferEnd, HostClose, SettledInv
    <3> QED BY <1>3, <3>1, <3>2, <3>3 DEF HostQuiet
  <2> QED BY <2>2, <2>3, <2>4 DEF SettledInv
<1> QED BY <1>1, <1>2, <1>3 DEF HostStep, HostQuiet

LEMMA SettledCmdq ==
    ASSUME TypeOK, CmdqInv, NumberInv, BatchInv, SettledInv, CmdqStep
    PROVE  SettledInv'
<1>0. /\ UNCHANGED <<unfenced_flip, buffer_count, present_pending,
                     presents_completed, present_fence, hdr_count, hdr_front,
                     front_idx>>
      /\ FrontSel(front_idx)' = FrontSel(front_idx)
  BY DEF CmdqStep, CmdqDraw, CmdqPresent, CmdqPresentQueued, CmdqAccept,
     EngineDone, CmdqIdle, PresentStart
<1>1. /\ ~unfenced_flip' /\ hdr_count' >= present_fence' => hdr_front' = FrontSel(front_idx)'
      /\ buffer_count' = 2 /\ ~present_pending' => presents_completed' = FrontSel(front_idx)'
  BY <1>0 DEF SettledInv
<1>2. ASSUME Settled'
      PROVE  /\ present_state' = "IDLE"
             /\ cmdq_state' # "ACCEPT" => front_value' = FrontSel(front_idx)'
  <2>1. CASE CmdqDraw
    <3>1. NoFlip
      <4>1. queue # <<>> /\ queue' = Tail(queue) /\ queue[1].op = "DRAW"
        BY <2>1, TakingStep, Taking DEF CmdqDraw, CmdqTakes, Offered
      <4> QED BY <1>2, <4>1, Taking DEF Settled, NoFlip
    <3>2. Settled /\ cmdq_state # "ACCEPT" /\ UNCHANGED <<present_state, front_value>>
      BY <1>0, <1>2, <2>1, <3>1 DEF Settled, CmdqInv, CmdqDraw, CmdqTakes
    <3> QED BY <1>0, <3>2 DEF SettledInv
  <2>2. CASE CmdqPresent
    BY <1>2, <2>2 DEF Settled, CmdqPresent, CmdqTakes, Offered
  <2>3. CASE CmdqPresentQueued
    <3>1. queue # <<>> /\ queue' = Tail(queue) /\ queue[1].op = "PRESENT_QUEUED"
          /\ cmdq_state' = "ACCEPT" /\ present_state = "IDLE" /\ Head(queue) = queue[1]
      BY <2>3, TakingStep, Taking DEF CmdqPresentQueued, CmdqTakes, Offered, PresentBusy
    <3>2. ~IsFlip(queue[1])
      <4> SUFFICES ASSUME IsFlip(queue[1]) PROVE FALSE
        OBVIOUS
      <4>1. 1 < Len(queue) /\ IsBarrier(queue[1 + 1])
        BY <1>0, <1>2, <3>1, Taking DEF Settled, BatchInv, Fenced
      <4>2. 2 \in Index /\ 1 \in Index' /\ queue'[1] = queue[2]
        BY <3>1, <4>1, Taking, QueueType DEF Index
      <4> QED BY <1>2, <4>1, <4>2 DEF Settled, NoFlip, IsBarrier
    <3>3. present_state' = "IDLE"
      BY <2>3, <3>1, <3>2 DEF CmdqPresentQueued, IsFlip
    <3> QED BY <3>1, <3>3
  <2>4. CASE CmdqAccept \/ EngineDone
    <3>1. UNCHANGED <<queue, command, present_state>> /\ front_value' = FrontSel(front_idx)
      BY <2>4 DEF CmdqAccept, EngineDone, CountDone
    <3>2. Settled
      BY <1>0, <1>2, <3>1 DEF Settled, NoFlip, Index
    <3> QED BY <1>0, <3>1, <3>2 DEF SettledInv
  <2>5. CASE CmdqIdle
    <3>1. UNCHANGED <<queue, front_value, present_state>> /\ command.op = "DRAW"
          /\ cmdq_state # "ACCEPT"
      BY <2>5 DEF CmdqIdle, CmdqInv
    <3>2. Settled
      BY <1>0, <1>2, <3>1 DEF Settled, NoFlip, Index
    <3> QED BY <1>0, <3>1, <3>2 DEF SettledInv
  <2> QED BY <2>1, <2>2, <2>3, <2>4, <2>5 DEF CmdqStep
<1> QED BY <1>1, <1>2 DEF SettledInv

LEMMA SettledNext ==
    ASSUME TypeOK, CmdqInv, NumberInv, BatchInv, SettledInv, [Next]_vars
    PROVE  SettledInv'
<1>1. CASE HostStep
  BY <1>1, SettledHost
<1>2. CASE CmdqStep
  BY <1>2, SettledCmdq
<1>3. CASE FenceWrite
  <2>1. /\ UNCHANGED <<queue, unfenced_flip, command, cmdq_state, front_value,
                       present_state, front_idx, buffer_count, present_pending,
                       presents_completed, present_fence>>
        /\ hdr_count' = write_value /\ hdr_front' = front_value
    BY <1>3 DEF FenceWrite
  <2>2. ~unfenced_flip /\ write_value >= present_fence => front_value = FrontSel(front_idx)
    BY SettledHandle
  <2> QED BY <2>1, <2>2 DEF SettledInv, Settled, NoFlip, Index
<1>4. CASE VblRise
  <2>1. UNCHANGED <<queue, unfenced_flip, command, cmdq_state, front_value,
                    buffer_count, present_pending, presents_completed,
                    present_fence, hdr_count, hdr_front>>
    BY <1>4 DEF VblRise
  <2>2. present_state = "IDLE" => UNCHANGED <<present_state, front_idx>>
    BY <1>4 DEF VblRise
  <2>3. /\ Settled => present_state = "IDLE"
        /\ ~unfenced_flip /\ hdr_count >= present_fence => present_state = "IDLE"
        /\ buffer_count = 2 /\ ~present_pending => present_state = "IDLE"
    BY SettledHandle DEF SettledInv, BatchInv, HandleInv
  <2> QED BY <2>1, <2>2, <2>3 DEF SettledInv, Settled, NoFlip, Index
<1>5. CASE PresentAck
  BY <1>5 DEF PresentAck, SettledInv, Settled, NoFlip, Index
<1>6. CASE PresentFinish
  <2>1. /\ UNCHANGED <<queue, unfenced_flip, front_idx, buffer_count,
                       present_pending, presents_completed, present_fence,
                       hdr_count, hdr_front>>
        /\ present_state' = "IDLE" /\ present_state = "FINISH"
    BY <1>6 DEF PresentFinish
  <2>2. CASE notify
    <3>1. front_value' = FrontSel(front_idx)
      BY <1>6, <2>2 DEF PresentFinish, CountDone
    <3> QED BY <2>1, <3>1 DEF SettledInv
  <2>3. CASE ~notify
    <3>1. UNCHANGED <<command, front_value, cmdq_state>>
      BY <1>6, <2>3 DEF PresentFinish
    <3>2. ~Settled /\ (Settled' <=> Settled)
      BY <2>1, <3>1 DEF SettledInv, Settled, NoFlip, Index
    <3> QED BY <2>1, <3>1, <3>2 DEF SettledInv
  <2> QED BY <2>2, <2>3
<1>7. CASE \/ FenceStart \/ SyncRetired \/ ScalerLatch \/ ScalerRetire
           \/ ScalerBoundary \/ UNCHANGED vars
  <2>1. UNCHANGED <<queue, unfenced_flip, command, cmdq_state, front_value,
                    present_state, front_idx, buffer_count, present_pending,
                    presents_completed, present_fence, hdr_count, hdr_front>>
    BY <1>7 DEF FenceStart, SyncRetired, ScalerLatch, ScalerRetire, ScalerBoundary
  <2> QED BY <2>1 DEF SettledInv, Settled, NoFlip, Index
<1> QED BY <1>1, <1>2, <1>3, <1>4, <1>5, <1>6, <1>7
      DEF Next, FenceStep, PresentStep, ScalerStep
-----------------------------------------------------------------------------
(* The back buffer.  Now is what is or is about to be on screen when the   *)
(* draws ahead of any queued present run; the draws behind it go to the    *)
(* back buffer, which differs from every buffer the batch shows.           *)

Toggle(f) == IF f = 1 THEN 0 ELSE 1
Coming == IF present_state = "WAIT_VBL" THEN next_idx ELSE front_idx
Now == IF command.op = "PRESENT" THEN {next_idx} ELSE {front_idx, Coming}

RunningDraw == command.op = "DRAW" => command.buf # front_idx /\ command.buf # Coming

EarlyDraws == \A i \in Index :
    (\A j \in Index : j <= i => queue[j].op = "DRAW") => queue[i].buf \notin Now

LateDraws == \A i, j \in Index :
    j < i /\ queue[j].op # "DRAW" /\ queue[i].op = "DRAW" => queue[i].buf = BackBuffer

Fresh == NoFlip => BackBuffer \notin Now

Targets == \A i \in Index :
    /\ IsFlip(queue[i]) => BackBuffer # queue[i].buf
    /\ IsFlip(queue[i]) /\ unfenced_flip => BackBuffer # Coming
    /\ IsBarrier(queue[i]) /\ (\A j \in Index : ~IsFlip(queue[j])) => BackBuffer # Coming
    /\ queue[i].op = "PRESENT" => BackBuffer # Toggle(Coming)

Latest == buffer_count = 3 /\ three_buffer_primed =>
    /\ \A i \in Index : IsFlip(queue[i]) => queue[i].buf = last_presented
    /\ (\A i \in Index : ~IsFlip(queue[i])) => Coming = last_presented

ScreenInv == RunningDraw /\ EarlyDraws /\ LateDraws /\ Fresh /\ Targets /\ Latest

LEMMA ScreenInit == Init => ScreenInv
<1> SUFFICES ASSUME Init PROVE ScreenInv
  OBVIOUS
<1>1. Index = {} /\ command.op = "NONE" /\ BackBuffer = 1 /\ Now = {0}
  BY DEF Init, Index, NoCommand, BackBuffer, Now, Coming
<1> QED BY <1>1 DEF Init, ScreenInv, RunningDraw, EarlyDraws, LateDraws, Fresh, Targets,
        Latest

\* Steps that leave the queue and the back buffer alone, and show nothing new.
LEMMA ScreenFrame ==
    ASSUME ScreenInv,
           UNCHANGED <<queue, unfenced_flip, buffer_count, three_buffer_primed,
                       last_presented>>,
           BackBuffer' = BackBuffer, Coming' = Coming, Now' \subseteq Now,
           front_idx' \in {front_idx, Coming},
           command' = command \/ command'.op # "DRAW"
    PROVE  ScreenInv'
<1>1. Index' = Index /\ (NoFlip' <=> NoFlip)
  BY DEF Index, NoFlip
<1>2. RunningDraw'
  BY DEF ScreenInv, RunningDraw
<1>3. EarlyDraws' /\ LateDraws' /\ Fresh'
  BY <1>1 DEF ScreenInv, EarlyDraws, LateDraws, Fresh
<1>4. Targets' /\ Latest'
  BY <1>1 DEF ScreenInv, Targets, Latest
<1> QED BY <1>2, <1>3, <1>4 DEF ScreenInv

\* The buffer of an idle two-buffer handle is the one off the screen.
LEMMA TwoBuffers ==
    ASSUME NEW f \in Buffer
    PROVE  /\ Toggle(f) = (IF FrontSel(f) = 0 THEN 1 ELSE 0) /\ Toggle(f) # f
           /\ Toggle(f) # (IF FrontSel(f) = 1 THEN 1 ELSE 0)
           /\ Toggle(f) \in Buffer
BY DEF Toggle, FrontSel, Buffer

LEMMA ScreenTypes ==
    ASSUME TypeOK
    PROVE  /\ front_idx \in Buffer /\ next_idx \in Buffer /\ Coming \in Buffer
           /\ BackBuffer \in Buffer /\ Toggle(Coming) \in Buffer
           /\ last_presented \in Buffer /\ previous_presented \in Buffer
BY BufferType DEF TypeOK, Coming, Toggle, Buffer

LEMMA ScreenSettled ==
    ASSUME TypeOK, CmdqInv, NumberInv, BatchInv, SettledInv,
           \/ ~present_pending \/ hdr_count >= present_fence,
           ~unfenced_flip
    PROVE  Coming = front_idx /\ Now = {front_idx} /\ NoFlip
<1>1. Settled /\ present_state = "IDLE"
  BY SettledHandle
<1> QED BY <1>1 DEF Settled, Coming, Now

\* The host leaves what is on screen alone.
LEMMA ScreenHostFrame ==
    ASSUME TypeOK, HostStep
    PROVE  /\ UNCHANGED <<front_idx, next_idx, command, present_state>>
           /\ Coming' = Coming /\ Now' = Now
<1>1. UNCHANGED <<front_idx, next_idx, command, present_state>>
  BY HostFrame
<1> QED BY <1>1 DEF Coming, Now

LEMMA ScreenDraw ==
    ASSUME TypeOK, BatchInv, ScreenInv, HostDraw PROVE ScreenInv'
<1>0. /\ UNCHANGED <<unfenced_flip, buffer_count, three_buffer_primed,
                     last_presented, previous_presented, present_pending,
                     presents_completed>>
      /\ UNCHANGED <<front_idx, next_idx, command, present_state>>
      /\ Coming' = Coming /\ Now' = Now
  BY ScreenHostFrame DEF HostStep, HostDraw
<1>1. BackBuffer' = BackBuffer
  BY <1>0 DEF BackBuffer, BackBufferIndex
<1>2. /\ Len(queue) \in Nat /\ Index' = Index \cup {Len(queue) + 1}
      /\ \A i \in Index : queue'[i] = queue[i] /\ i < Len(queue) + 1
      /\ queue'[Len(queue) + 1].op = "DRAW"
      /\ queue'[Len(queue) + 1].buf = BackBuffer
  BY DrawEffect, QueueType DEF Index
<1>3. NoFlip' => NoFlip
  BY <1>2 DEF NoFlip
<1>4. RunningDraw'
  BY <1>0 DEF ScreenInv, RunningDraw
<1>5. EarlyDraws'
  <2> SUFFICES ASSUME NEW i \in Index', \A j \in Index' : j <= i => queue'[j].op = "DRAW"
               PROVE  queue'[i].buf \notin Now
    BY <1>0 DEF EarlyDraws
  <2>1. CASE i \in Index
    BY <1>2, <2>1 DEF ScreenInv, EarlyDraws
  <2>2. CASE i = Len(queue) + 1
    <3>1. NoFlip
      BY <1>2, <2>2 DEF NoFlip
    <3> QED BY <1>2, <2>2, <3>1 DEF ScreenInv, Fresh
  <2> QED BY <1>2, <2>1, <2>2
<1>6. LateDraws'
  BY <1>1, <1>2 DEF ScreenInv, LateDraws
<1>7. Fresh'
  BY <1>0, <1>1, <1>3 DEF ScreenInv, Fresh
<1>8. Targets'
  BY <1>0, <1>1, <1>2 DEF ScreenInv, Targets, IsFlip, IsBarrier
<1>9. Latest'
  BY <1>0, <1>2 DEF ScreenInv, Latest, IsFlip
<1> QED BY <1>4, <1>5, <1>6, <1>7, <1>8, <1>9 DEF ScreenInv

\* A batch published behind draws only.
LEMMA ScreenPublished ==
    ASSUME ScreenInv, NoFlip, UNCHANGED <<front_idx, command>>,
           Coming' = Coming, Now' = Now,
           Index \subseteq Index', Index' \subseteq Nat,
           \A i \in Index : queue'[i] = queue[i],
           \A i \in Index' \ Index : queue'[i].op # "DRAW" /\ \A j \in Index : j < i,
           Index' # Index
    PROVE  /\ RunningDraw' /\ EarlyDraws' /\ LateDraws' /\ Fresh'
           /\ \A i \in Index : queue'[i].op = "DRAW"
<1>0. \A i \in Index : queue'[i].op = "DRAW" /\ queue[i].op = "DRAW"
  BY DEF NoFlip
<1>1. RunningDraw' /\ Fresh'
  BY DEF ScreenInv, RunningDraw, Fresh, NoFlip
<1>2. EarlyDraws'
  <2> SUFFICES ASSUME NEW i \in Index', \A j \in Index' : j <= i => queue'[j].op = "DRAW",
                      i \in Index
               PROVE  queue'[i].buf \notin Now
    BY DEF EarlyDraws
  <2> QED BY <1>0 DEF ScreenInv, EarlyDraws
<1>3. LateDraws'
  BY <1>0 DEF LateDraws
<1> QED BY <1>0, <1>1, <1>2, <1>3
LEMMA ScreenPresent ==
    ASSUME TypeOK, CmdqInv, NumberInv, BatchInv, SettledInv, ScreenInv, HostPresent
    PROVE  ScreenInv' /\ BackBuffer = Toggle(Coming)
<1>0. /\ UNCHANGED <<front_idx, next_idx, command, present_state>>
      /\ Coming' = Coming /\ Now' = Now
  BY ScreenHostFrame DEF HostStep
<1>1. /\ buffer_count = 2 /\ buffer_count' = 2 /\ ~present_pending /\ present_pending'
      /\ presents_completed' = presents_completed /\ ~unfenced_flip
      /\ presents_completed = FrontSel(front_idx)
  BY DEF HostPresent, BatchInv, HandleInv, SettledInv
<1>2. Coming = front_idx /\ NoFlip
  BY <1>1, ScreenSettled
<1>3. BackBuffer = Toggle(Coming) /\ BackBuffer' # Toggle(Coming)
  BY <1>1, <1>2, TwoBuffers, ScreenTypes DEF BackBuffer
<1>4. /\ Len(queue) \in Nat /\ Index' = Index \cup {Len(queue) + 1}
      /\ \A i \in Index : /\ queue'[i] = queue[i] /\ i < Len(queue) + 1 /\ i \in Nat
                          /\ queue'[i].op = "DRAW"
      /\ queue'[Len(queue) + 1].op = "PRESENT"
  BY <1>2, PresentEffect, QueueType DEF Index, NoFlip
<1>5. RunningDraw' /\ EarlyDraws' /\ LateDraws' /\ Fresh'
  <2>1. Index \subseteq Index' /\ Index' \subseteq Nat /\ Index' # Index
    BY <1>4
  <2>2. \A i \in Index' \ Index : queue'[i].op # "DRAW" /\ \A j \in Index : j < i
    BY <1>4
  <2> QED BY <1>0, <1>2, <1>4, <2>1, <2>2, ScreenPublished
<1>6. Targets'
  BY <1>0, <1>3, <1>4 DEF Targets, IsFlip, IsBarrier
<1>7. Latest'
  BY <1>1 DEF Latest
<1> QED BY <1>3, <1>5, <1>6, <1>7 DEF ScreenInv

LEMMA ScreenQueued ==
    ASSUME TypeOK, CmdqInv, NumberInv, BatchInv, SettledInv, ScreenInv,
           HostPresentQueued \/ HostBarrier, RawPresents = FALSE
    PROVE  ScreenInv'
<1>0. /\ UNCHANGED <<front_idx, next_idx, command, present_state>>
      /\ Coming' = Coming /\ Now' = Now
  BY ScreenHostFrame DEF HostStep
<1>1. /\ buffer_count = 3 /\ buffer_count' = 3 /\ ~present_pending
      /\ three_buffer_primed /\ three_buffer_primed'
  BY DEF HostPresentQueued, HostBarrier
<1>2. NoFlip /\ BackBuffer \in Buffer /\ BackBuffer # last_presented
      /\ BackBuffer # previous_presented /\ last_presented # previous_presented
  BY <1>1, NotPending, BufferType DEF TypeOK
<1>3. Coming = last_presented
  BY <1>1, <1>2 DEF ScreenInv, Latest, NoFlip, IsFlip
<1>4. /\ Len(queue) \in Nat /\ Index' = Index \cup {Len(queue) + 1}
      /\ \A i \in Index : /\ queue'[i] = queue[i] /\ i < Len(queue) + 1 /\ i \in Nat
                          /\ queue'[i].op = "DRAW"
      /\ queue'[Len(queue) + 1].op = "PRESENT_QUEUED"
      /\ HostPresentQueued => queue'[Len(queue) + 1].buf = BackBuffer
      /\ HostBarrier => queue'[Len(queue) + 1].buf = NoBuffer
  BY <1>2, QueuedEffect, BarrierEffect, QueueType DEF Index, NoFlip
<1>5. RunningDraw' /\ EarlyDraws' /\ LateDraws' /\ Fresh'
  <2>1. Index \subseteq Index' /\ Index' \subseteq Nat /\ Index' # Index
    BY <1>4
  <2>2. \A i \in Index' \ Index : queue'[i].op # "DRAW" /\ \A j \in Index : j < i
    BY <1>4
  <2> QED BY <1>0, <1>2, <1>4, <2>1, <2>2, ScreenPublished
<1>6. BackBuffer' # Coming /\ (BackBuffer' # BackBuffer \/ HostBarrier)
  <2>1. CASE HostPresentQueued
    <3>1. BackBuffer' = 3 - BackBuffer - last_presented /\ BackBuffer = 3 - last_presented - previous_presented
      BY <1>1, <2>1, BufferType DEF HostPresentQueued, RecordFlip, BackBuffer,
         BackBufferIndex
    <3> QED BY <1>2, <1>3, <3>1, ScreenTypes DEF Buffer
  <2>2. CASE HostBarrier
    <3>1. BackBuffer' = 3 - last_presented - ((last_presented + 1) % 3)
      BY <1>1, <2>2 DEF HostBarrier, BackBuffer, BackBufferIndex
    <3> QED BY <1>3, <2>2, <3>1, Rotation, ScreenTypes
  <2> QED BY <2>1, <2>2
<1>7. BackBuffer # NoBuffer
  BY <1>2 DEF Buffer, NoBuffer
<1>8. Targets'
  BY <1>0, <1>4, <1>6, <1>7 DEF Targets, IsFlip, IsBarrier
<1>9. Latest'
  <2>1. CASE HostPresentQueued
    <3>1. last_presented' = BackBuffer
      BY <1>1, <2>1, BufferType DEF HostPresentQueued, RecordFlip
    <3>2. Len(queue) + 1 \in Index' /\ IsFlip(queue'[Len(queue) + 1])
      BY <1>4, <1>7, <2>1 DEF IsFlip
    <3> QED BY <1>4, <2>1, <3>1, <3>2 DEF Latest, IsFlip
  <2>2. CASE HostBarrier
    <3>1. last_presented' = last_presented
      BY <2>2 DEF HostBarrier
    <3> QED BY <1>0, <1>3, <1>4, <2>2, <3>1 DEF Latest, IsFlip
  <2> QED BY <2>1, <2>2
<1> QED BY <1>5, <1>8, <1>9 DEF ScreenInv

LEMMA ScreenFirst ==
    ASSUME TypeOK, CmdqInv, NumberInv, BatchInv, SettledInv, ScreenInv,
           HostPresentFirst
    PROVE  ScreenInv'
<1>0. /\ UNCHANGED <<front_idx, next_idx, command, present_state>>
      /\ Coming' = Coming /\ Now' = Now
  BY ScreenHostFrame DEF HostStep
<1>1. /\ buffer_count = 3 /\ buffer_count' = 3 /\ ~present_pending
      /\ unfenced_flip' = FALSE
      /\ last_presented' = BackBuffer
      /\ BackBuffer' = 3 - BackBuffer - ((BackBuffer + 1) % 3)
  BY BufferType DEF HostPresentFirst, BackBuffer, BackBufferIndex
<1>2. NoFlip /\ BackBuffer \in Buffer /\ BackBuffer' # BackBuffer /\ BackBuffer # NoBuffer
  <2>1. NoFlip /\ BackBuffer \in Buffer
    BY <1>1, NotPending, BufferType
  <2> QED BY <1>1, <2>1, Rotation DEF NoBuffer, Buffer
<1>4. /\ Len(queue) \in Nat /\ Index' = Index \cup {Len(queue) + 1, Len(queue) + 2}
      /\ \A i \in Index : /\ queue'[i] = queue[i] /\ i < Len(queue) + 1 /\ i \in Nat
                          /\ queue'[i].op = "DRAW"
      /\ queue'[Len(queue) + 1].op = "PRESENT_QUEUED"
      /\ queue'[Len(queue) + 1].buf = BackBuffer
      /\ queue'[Len(queue) + 2].op = "PRESENT_QUEUED"
      /\ queue'[Len(queue) + 2].buf = NoBuffer
  BY <1>2, FirstEffect, QueueType DEF Index, NoFlip
<1>5. RunningDraw' /\ EarlyDraws' /\ LateDraws' /\ Fresh'
  <2>1. Index \subseteq Index' /\ Index' \subseteq Nat /\ Index' # Index
    BY <1>4
  <2>2. \A i \in Index' \ Index : queue'[i].op # "DRAW" /\ \A j \in Index : j < i
    BY <1>4
  <2> QED BY <1>0, <1>2, <1>4, <2>1, <2>2, ScreenPublished
<1>6. Len(queue) + 1 \in Index' /\ IsFlip(queue'[Len(queue) + 1])
  BY <1>2, <1>4 DEF IsFlip
<1>7. Targets'
  BY <1>1, <1>2, <1>4, <1>6 DEF Targets, IsFlip, IsBarrier
<1>8. Latest'
  BY <1>1, <1>4, <1>6 DEF Latest, IsFlip
<1> QED BY <1>5, <1>7, <1>8 DEF ScreenInv

LEMMA ScreenQuiet ==
    ASSUME TypeOK, CmdqInv, NumberInv, BatchInv, SettledInv, ScreenInv, HostQuiet
    PROVE  ScreenInv'
<1>0. /\ UNCHANGED <<front_idx, next_idx, command, present_state, queue, unfenced_flip>>
      /\ Coming' = Coming /\ Now' = Now
  BY ScreenHostFrame DEF HostStep, HostQuiet, HostPoll, HostEnableThree, HostTransfer,
     HostTransferEnd, HostClose, HostOpen
<1>1. CASE HostTransferEnd \/ HostClose
  <2>1. UNCHANGED link
    BY <1>1 DEF HostTransferEnd, HostClose
  <2>2. BackBuffer' = BackBuffer
    BY <2>1 DEF BackBuffer, BackBufferIndex
  <2> QED BY <1>0, <2>1, <2>2, ScreenFrame
<1>2. ASSUME NoFlip, BackBuffer' \notin Now,
             buffer_count' = 3 /\ three_buffer_primed' => Coming = last_presented'
      PROVE  ScreenInv'
  <2>1. Index' = Index /\ \A i \in Index : queue'[i].op = "DRAW" /\ queue[i].op = "DRAW"
    BY <1>0, <1>2 DEF NoFlip, Index
  <2>2. RunningDraw' /\ EarlyDraws' /\ LateDraws' /\ Fresh'
    BY <1>0, <1>2, <2>1 DEF ScreenInv, RunningDraw, EarlyDraws, LateDraws, Fresh
  <2>3. Targets' /\ Latest'
    BY <1>0, <1>2, <2>1 DEF Targets, Latest, IsFlip, IsBarrier
  <2> QED BY <2>2, <2>3 DEF ScreenInv
<1>3. CASE HostPoll \/ HostTransfer \/ HostOpen
  <2>1. hdr_count >= present_fence
    BY <1>3 DEF HostPoll, HostTransfer, HostOpen, Drained, NumberInv, TypeOK
  <2>2. NoFlip
    BY <2>1, BatchDone
  <2>3. CASE buffer_count' = 2
    <3>1. presents_completed' = hdr_front /\ ~present_pending' /\ ~unfenced_flip
      BY <1>3, <2>3 DEF HostPoll, HostTransfer, HostOpen, PresentObserved, BatchInv,
         HandleInv
    <3>2. hdr_front = FrontSel(front_idx) /\ Now = {front_idx}
      BY <2>1, <3>1, ScreenSettled DEF SettledInv
    <3>3. BackBuffer' = Toggle(front_idx)
      BY <2>3, <3>1, <3>2, TwoBuffers, ScreenTypes DEF BackBuffer
    <3> QED BY <1>2, <2>2, <2>3, <3>2, <3>3, TwoBuffers, ScreenTypes
  <2>4. CASE buffer_count' # 2
    <3>1. /\ UNCHANGED <<buffer_count, last_presented, previous_presented,
                         three_buffer_primed>>
          /\ buffer_count = 3
      <4>1. ~HostOpen
        BY <2>4 DEF HostOpen
      <4>2. buffer_count \in {2, 3}
        BY DEF TypeOK
      <4> QED BY <1>3, <2>4, <4>1, <4>2 DEF HostPoll, HostTransfer
    <3>2. BackBuffer' = BackBuffer
      BY <3>1 DEF BackBuffer, BackBufferIndex
    <3>3. BackBuffer \notin Now
      BY <2>2 DEF ScreenInv, Fresh
    <3>4. three_buffer_primed => Coming = last_presented
      BY <2>2, <3>1 DEF ScreenInv, Latest, NoFlip, IsFlip
    <3> QED BY <1>2, <2>2, <3>1, <3>2, <3>3, <3>4
  <2> QED BY <2>3, <2>4
<1>4. CASE HostEnableThree
  <2>1. ~present_pending /\ ~unfenced_flip /\ presents_completed = FrontSel(front_idx)
    BY <1>4 DEF HostEnableThree, BatchInv, HandleInv, SettledInv
  <2>2. Now = {front_idx} /\ NoFlip
    BY <2>1, ScreenSettled
  <2>3. BackBuffer' # front_idx
    <3>1. CASE presents_completed = 1
      <4>1. BackBuffer' = 2 /\ front_idx = 1
        BY <1>4, <2>1, <3>1 DEF HostEnableThree, BackBuffer, BackBufferIndex, FrontSel
      <4> QED BY <4>1
    <3>2. CASE presents_completed # 1
      <4>1. BackBuffer' = 1 /\ front_idx # 1
        BY <1>4, <2>1, <3>2 DEF HostEnableThree, BackBuffer, BackBufferIndex, FrontSel
      <4> QED BY <4>1
    <3> QED BY <3>1, <3>2
  <2>4. ~three_buffer_primed'
    BY <1>4 DEF HostEnableThree
  <2> QED BY <1>2, <2>2, <2>3, <2>4
<1> QED BY <1>1, <1>3, <1>4 DEF HostQuiet
LEMMA ScreenTakesDraw ==
    ASSUME TypeOK, CmdqInv, ScreenInv, CmdqDraw PROVE ScreenInv'
<1>0. /\ UNCHANGED <<front_idx, next_idx, present_state, unfenced_flip, buffer_count,
                     three_buffer_primed, last_presented, previous_presented,
                     present_pending, presents_completed>>
      /\ queue # <<>> /\ queue' = Tail(queue) /\ command' = Head(queue)
      /\ Head(queue).op = "DRAW" /\ command.op = "NONE"
  BY DEF CmdqDraw, CmdqTakes, Offered, CmdqInv
<1>1. /\ 1 \in Index /\ command' = queue[1] /\ queue[1].op = "DRAW"
      /\ \A i \in Index' : /\ queue'[i] = queue[i + 1] /\ i + 1 \in Index
                           /\ i \in Nat
      /\ \A i \in Index : i # 1 => i - 1 \in Index' /\ queue'[i - 1] = queue[i]
      /\ Index \subseteq Nat
  BY <1>0, Taking, QueueType DEF Index
<1>2. Coming' = Coming /\ Now' = Now /\ Now = {front_idx, Coming} /\ BackBuffer' = BackBuffer
  BY <1>0, <1>1 DEF Coming, Now, BackBuffer, BackBufferIndex
<1>3. \A i \in Index : (i = 1 /\ queue[i].op = "DRAW")
                       \/ \E k \in Index' : queue'[k] = queue[i] /\ i = k + 1
  <2> SUFFICES ASSUME NEW i \in Index, i # 1
               PROVE  \E k \in Index' : queue'[k] = queue[i] /\ i = k + 1
    BY <1>1
  <2>1. i - 1 \in Index' /\ queue'[i - 1] = queue[i] /\ i = (i - 1) + 1
    BY <1>1
  <2> QED BY <2>1
<1>4. RunningDraw'
  <2>1. \A j \in Index : j <= 1 => queue[j].op = "DRAW"
    BY <1>1 DEF Index
  <2>2. queue[1].buf \notin Now
    BY <1>1, <2>1 DEF ScreenInv, EarlyDraws
  <2> QED BY <1>0, <1>1, <1>2, <2>2 DEF RunningDraw
<1>5. EarlyDraws'
  <2> SUFFICES ASSUME NEW i \in Index', \A j \in Index' : j <= i => queue'[j].op = "DRAW"
               PROVE  queue'[i].buf \notin Now
    BY <1>2 DEF EarlyDraws
  <2>1. \A j \in Index : j <= i + 1 => queue[j].op = "DRAW"
    BY <1>1, <1>3
  <2> QED BY <1>1, <2>1 DEF ScreenInv, EarlyDraws
<1>6. LateDraws'
  <2> SUFFICES ASSUME NEW i \in Index', NEW j \in Index', j < i,
                      queue'[j].op # "DRAW", queue'[i].op = "DRAW"
               PROVE  queue'[i].buf = BackBuffer
    BY <1>2 DEF LateDraws
  <2>1. j + 1 < i + 1
    BY <1>1
  <2> QED BY <1>1, <2>1 DEF ScreenInv, LateDraws
<1>7. Fresh'
  <2>1. NoFlip' => NoFlip
    BY <1>3 DEF NoFlip
  <2> QED BY <1>2, <2>1 DEF ScreenInv, Fresh
<1>8. (\A j \in Index' : ~IsFlip(queue'[j])) <=> (\A j \in Index : ~IsFlip(queue[j]))
  BY <1>1, <1>3 DEF IsFlip
<1>9. Targets'
  BY <1>0, <1>1, <1>2, <1>8, ZenonT(40) DEF ScreenInv, Targets
<1>10. Latest'
  <2> SUFFICES ASSUME buffer_count = 3 /\ three_buffer_primed
               PROVE  /\ \A i \in Index' : IsFlip(queue'[i]) => queue'[i].buf = last_presented
                      /\ (\A i \in Index' : ~IsFlip(queue'[i])) => Coming = last_presented
    BY <1>0, <1>2 DEF Latest
  <2>1. \A i \in Index : IsFlip(queue[i]) => queue[i].buf = last_presented
    BY DEF ScreenInv, Latest
  <2>2. (\A i \in Index : ~IsFlip(queue[i])) => Coming = last_presented
    BY DEF ScreenInv, Latest
  <2> QED BY <1>1, <1>8, <2>1, <2>2
<1> QED BY <1>4, <1>5, <1>6, <1>7, <1>9, <1>10 DEF ScreenInv

\* What is left of a batch when cmdq takes its first command.
LEMMA PresentTaken ==
    ASSUME TypeOK, BatchInv, ScreenInv, queue # <<>>, queue' = Tail(queue),
           queue[1].op # "DRAW"
    PROVE  /\ \A i \in Index' : queue'[i].op = "DRAW" => queue'[i].buf = BackBuffer
           /\ \A i \in Index' : queue'[i].op # "DRAW" =>
                i = 1 /\ IsFlip(queue[1]) /\ IsBarrier(queue'[i]) /\ ~unfenced_flip
           /\ IsFlip(queue[1]) /\ ~unfenced_flip => 1 \in Index' /\ IsBarrier(queue'[1])
<1>1. /\ 1 \in Index /\ Len(queue) \in Nat
      /\ \A i \in Index' : /\ queue'[i] = queue[i + 1] /\ i + 1 \in Index
                           /\ i \in Nat /\ 1 < i + 1
  BY Taking, QueueType DEF Index
<1>2. \A i \in Index' : queue'[i].op = "DRAW" => queue'[i].buf = BackBuffer
  BY <1>1 DEF ScreenInv, LateDraws
<1>3. \A i \in Index' : queue'[i].op # "DRAW" =>
        i = 1 /\ IsFlip(queue[1]) /\ IsBarrier(queue'[i]) /\ ~unfenced_flip
  <2> SUFFICES ASSUME NEW i \in Index', queue'[i].op # "DRAW"
               PROVE  i = 1 /\ IsFlip(queue[1]) /\ IsBarrier(queue'[i]) /\ ~unfenced_flip
    OBVIOUS
  <2>1. i + 1 = 1 + 1 /\ IsFlip(queue[1]) /\ IsBarrier(queue[i + 1]) /\ ~unfenced_flip
    BY <1>1 DEF BatchInv, Single
  <2>2. i \in Nat /\ queue'[i] = queue[i + 1]
    BY <1>1
  <2>3. i = 1
    BY <2>1, <2>2
  <2> QED BY <2>1, <2>2, <2>3
<1>4. IsFlip(queue[1]) /\ ~unfenced_flip => 1 \in Index' /\ IsBarrier(queue'[1])
  <2> SUFFICES ASSUME IsFlip(queue[1]), ~unfenced_flip
               PROVE  1 \in Index' /\ IsBarrier(queue'[1])
    OBVIOUS
  <2>1. 1 < Len(queue) /\ IsBarrier(queue[1 + 1])
    BY <1>1 DEF BatchInv, Fenced
  <2>2. 1 \in Index'
    BY <1>1, <2>1, Taking DEF Index
  <2> QED BY <1>1, <2>1, <2>2
<1> QED BY <1>2, <1>3, <1>4

LEMMA ScreenTakesPresent ==
    ASSUME TypeOK, CmdqInv, BatchInv, ScreenInv, CmdqPresent
    PROVE  /\ ScreenInv' /\ next_idx' = Toggle(Coming) /\ Coming = front_idx
           /\ \A i \in Index' : queue'[i].op = "DRAW" /\ queue'[i].buf = BackBuffer
           /\ BackBuffer # Toggle(Coming)
<1>0. /\ UNCHANGED <<front_idx, buffer_count, last_presented, previous_presented,
                     present_pending, presents_completed>>
      /\ queue # <<>> /\ queue' = Tail(queue) /\ command'.op = "PRESENT"
      /\ Head(queue).op = "PRESENT" /\ present_state = "IDLE"
      /\ next_idx' = Toggle(front_idx)
  BY DEF CmdqPresent, CmdqTakes, Offered, PresentStart, PresentBusy, Toggle
<1>1. 1 \in Index /\ queue[1].op = "PRESENT"
  BY <1>0, Taking
<1>2. \A i \in Index' : queue'[i].op = "DRAW" /\ queue'[i].buf = BackBuffer
  BY <1>0, <1>1, PresentTaken DEF IsFlip
<1>3. Coming = front_idx /\ BackBuffer # Toggle(Coming) /\ buffer_count = 2
  BY <1>0, <1>1 DEF Coming, ScreenInv, Targets, BatchInv, InMode
<1>4. BackBuffer' = BackBuffer /\ Now' = {Toggle(Coming)}
  BY <1>0, <1>3 DEF BackBuffer, BackBufferIndex, Now
<1>5. RunningDraw' /\ EarlyDraws' /\ LateDraws' /\ Fresh'
  BY <1>0, <1>2, <1>3, <1>4 DEF RunningDraw, EarlyDraws, LateDraws, Fresh
<1>6. Targets'
  BY <1>2 DEF Targets, IsFlip, IsBarrier
<1>7. Latest'
  BY <1>0, <1>3 DEF Latest
<1> QED BY <1>0, <1>2, <1>3, <1>5, <1>6, <1>7 DEF ScreenInv

LEMMA ScreenTakesQueued ==
    ASSUME TypeOK, CmdqInv, BatchInv, ScreenInv, CmdqPresentQueued
    PROVE  ScreenInv'
<1>0. /\ UNCHANGED <<front_idx, buffer_count, last_presented, previous_presented,
                     present_pending, presents_completed, unfenced_flip,
                     three_buffer_primed>>
      /\ queue # <<>> /\ queue' = Tail(queue) /\ command'.op = "NONE"
      /\ Head(queue).op = "PRESENT_QUEUED" /\ present_state = "IDLE"
  BY DEF CmdqPresentQueued, CmdqTakes, Offered, PresentStart, PresentBusy, NoCommand
<1>1. 1 \in Index /\ queue[1].op = "PRESENT_QUEUED" /\ Head(queue) = queue[1]
  BY <1>0, Taking
<1>2. BackBuffer' = BackBuffer /\ Coming = front_idx /\ buffer_count = 3 /\ three_buffer_primed
  BY <1>0, <1>1 DEF BackBuffer, BackBufferIndex, Coming, BatchInv, InMode
<1>3. \A i \in Index' : queue'[i].op = "DRAW" => queue'[i].buf = BackBuffer
  BY <1>0, <1>1, PresentTaken
<1>4. \A i \in Index' : ~IsFlip(queue'[i])
  BY <1>0, <1>1, PresentTaken DEF IsFlip, IsBarrier
<1>5. CASE IsBarrier(queue[1])
  <2>1. \A i \in Index' : queue'[i].op = "DRAW"
    BY <1>0, <1>1, <1>5, PresentTaken DEF IsFlip, IsBarrier
  <2>2. \A i \in Index : ~IsFlip(queue[i])
    <3> SUFFICES ASSUME NEW i \in Index, i # 1 PROVE ~IsFlip(queue[i])
      BY <1>5 DEF IsFlip, IsBarrier
    <3>1. i - 1 \in Index' /\ queue'[i - 1] = queue[i]
      BY <1>0, Taking
    <3> QED BY <2>1, <3>1 DEF IsFlip
  <2>3. BackBuffer # Coming /\ Coming = last_presented
    BY <1>1, <1>2, <1>5, <2>2 DEF ScreenInv, Targets, Latest
  <2>4. Coming' = Coming /\ Now' = {Coming}
    BY <1>0, <1>1, <1>2, <1>5 DEF CmdqPresentQueued, IsBarrier, Coming, Now
  <2>5. RunningDraw' /\ EarlyDraws' /\ LateDraws' /\ Fresh'
    BY <1>0, <1>2, <1>3, <2>1, <2>3, <2>4 DEF RunningDraw, EarlyDraws, LateDraws, Fresh
  <2>6. Targets' /\ Latest'
    BY <1>0, <1>4, <2>1, <2>3, <2>4 DEF Targets, Latest, IsFlip, IsBarrier
  <2> QED BY <2>5, <2>6 DEF ScreenInv
<1>6. CASE IsFlip(queue[1])
  <2>1. Coming' = queue[1].buf /\ Now' = {front_idx, Coming'}
    BY <1>0, <1>1, <1>6 DEF CmdqPresentQueued, PresentStart, IsFlip, Coming, Now
  <2>2. BackBuffer # queue[1].buf /\ queue[1].buf = last_presented
    BY <1>1, <1>2, <1>6 DEF ScreenInv, Targets, Latest
  <2>3. Latest'
    BY <1>0, <1>4, <2>1, <2>2 DEF Latest
  <2>4. Targets'
    BY <1>2, <1>4, <2>1, <2>2, <1>0, <1>1, PresentTaken
       DEF Targets, IsBarrier, IsFlip
  <2>5. RunningDraw' /\ LateDraws'
    BY <1>0, <1>2, <1>3 DEF RunningDraw, LateDraws
  <2>6. EarlyDraws' /\ Fresh'
    <3>1. CASE unfenced_flip
      <4>1. BackBuffer \notin Now'
        BY <1>1, <1>2, <1>6, <2>1, <2>2, <3>1 DEF ScreenInv, Targets
      <4>2. \A i \in Index' : queue'[i].op = "DRAW"
        BY <1>0, <1>1, <3>1, PresentTaken
      <4> QED BY <1>2, <1>3, <4>1, <4>2 DEF EarlyDraws, Fresh
    <3>2. CASE ~unfenced_flip
      <4>1. 1 \in Index' /\ queue'[1].op # "DRAW"
        BY <1>0, <1>1, <1>6, <3>2, PresentTaken DEF IsBarrier
      <4>2. \A i \in Index' : 1 <= i
        BY DEF Index
      <4> QED BY <4>1, <4>2 DEF EarlyDraws, Fresh, NoFlip
    <3> QED BY <3>1, <3>2
  <2> QED BY <2>3, <2>4, <2>5, <2>6 DEF ScreenInv
<1> QED BY <1>1, <1>5, <1>6 DEF IsBarrier, IsFlip

\* The core's other steps leave the queue and the back buffer alone, and change
\* the front only to the buffer that was coming.
LEMMA CoreFrame ==
    ASSUME CmdqInv, [Next]_vars, ~HostStep, ~(CmdqDraw \/ CmdqPresent \/ CmdqPresentQueued)
    PROVE  /\ UNCHANGED <<queue, unfenced_flip, buffer_count, three_buffer_primed,
                          last_presented, previous_presented, present_pending,
                          presents_completed, next_idx, planned, painted>>
           /\ BackBuffer' = BackBuffer
           /\ Coming' = Coming /\ Now' \subseteq Now /\ front_idx' \in {front_idx, Coming}
           /\ \/ command' = command
              \/ CmdqIdle /\ command.op = "DRAW" /\ command'.op = "NONE"
              \/ command.op = "PRESENT" /\ command'.op = "NONE"
           /\ ~CmdqIdle => content' = content
<1>1. UNCHANGED <<queue, unfenced_flip, buffer_count, three_buffer_primed,
                  last_presented, previous_presented, present_pending,
                  presents_completed, next_idx, planned, painted>>
  BY DEF Next, CmdqStep, FenceStep, PresentStep, ScalerStep, CmdqAccept,
     EngineDone, CmdqIdle, FenceStart, FenceWrite, PresentAck, PresentFinish,
     SyncRetired, VblRise, ScalerLatch, ScalerRetire, ScalerBoundary
<1>2. BackBuffer' = BackBuffer
  BY <1>1 DEF BackBuffer, BackBufferIndex
<1>3. /\ Coming' = Coming /\ Now' \subseteq Now /\ front_idx' \in {front_idx, Coming}
      /\ \/ command' = command
         \/ CmdqIdle /\ command.op = "DRAW" /\ command'.op = "NONE"
         \/ command.op = "PRESENT" /\ command'.op = "NONE"
  <2>1. CASE VblRise
    <3>1. CASE present_state = "WAIT_VBL"
      BY <2>1, <3>1 DEF VblRise, Coming, Now
    <3>2. CASE present_state # "WAIT_VBL"
      BY <2>1, <3>2 DEF VblRise, Coming, Now
    <3> QED BY <3>1, <3>2
  <2>2. CASE PresentFinish
    <3>1. UNCHANGED <<front_idx, next_idx>> /\ present_state = "FINISH" /\ present_state' = "IDLE"
          /\ (command' = command \/ (command'.op = "NONE" /\ command.op = "PRESENT"))
      BY <2>2 DEF PresentFinish, NoCommand, CmdqInv
    <3>2. front_idx = next_idx
      BY <3>1 DEF CmdqInv
    <3> QED BY <3>1, <3>2 DEF Coming, Now
  <2>3. CASE CmdqIdle
    <3>1. UNCHANGED <<front_idx, next_idx, present_state>> /\ command'.op = "NONE"
          /\ command.op = "DRAW"
      BY <2>3 DEF CmdqIdle, NoCommand, CmdqInv
    <3> QED BY <2>3, <3>1 DEF Coming, Now
  <2>4. CASE PresentAck
    BY <2>4 DEF PresentAck, Coming, Now
  <2>5. CASE ~(VblRise \/ PresentFinish \/ CmdqIdle \/ PresentAck)
    <3>1. UNCHANGED <<front_idx, next_idx, present_state, command>>
      BY <2>5 DEF Next, CmdqStep, FenceStep, PresentStep, ScalerStep, CmdqAccept,
         EngineDone, FenceStart, FenceWrite, SyncRetired, ScalerLatch, ScalerRetire,
         ScalerBoundary
    <3> QED BY <3>1 DEF Coming, Now
  <2> QED BY <2>1, <2>2, <2>3, <2>4, <2>5
<1>4. ~CmdqIdle => content' = content
  BY DEF Next, CmdqStep, FenceStep, PresentStep, ScalerStep, CmdqAccept,
     EngineDone, FenceStart, FenceWrite, PresentAck, PresentFinish,
     SyncRetired, VblRise, ScalerLatch, ScalerRetire, ScalerBoundary
<1> QED BY <1>1, <1>2, <1>3, <1>4

LEMMA ScreenNext ==
    ASSUME TypeOK, CmdqInv, NumberInv, BatchInv, SettledInv, ScreenInv, [Next]_vars,
           RawPresents = FALSE
    PROVE  ScreenInv'
<1>1. CASE HostStep
  BY <1>1, ScreenDraw, ScreenPresent, ScreenQueued, ScreenFirst, ScreenQuiet
     DEF HostStep, HostQuiet
<1>2. CASE CmdqDraw \/ CmdqPresent \/ CmdqPresentQueued
  BY <1>2, ScreenTakesDraw, ScreenTakesPresent, ScreenTakesQueued
<1>3. CASE ~HostStep /\ ~(CmdqDraw \/ CmdqPresent \/ CmdqPresentQueued)
  <2>1. command' = command \/ command'.op # "DRAW"
    BY <1>3, CoreFrame
  <2> QED BY <1>3, <2>1, CoreFrame, ScreenFrame
<1> QED BY <1>1, <1>2, <1>3
-----------------------------------------------------------------------------
(* Scanout.                                                                *)

DisplayInv ==
    /\ TypeOK /\ RetireInv /\ CmdqInv /\ NumberInv
    /\ BatchInv /\ SettledInv /\ ScreenInv

LEMMA DisplayInit == Init => DisplayInv
BY TypeInit, RetireInit, CmdqInit, NumberInit, BatchInit, SettledInit, ScreenInit
   DEF DisplayInv

LEMMA DisplayNext ==
    ASSUME DisplayInv, [Next]_vars, BarrierOnClose = TRUE, RawPresents = FALSE
    PROVE  DisplayInv'
BY TypeNext, RetireNext, CmdqNext, NumberNext, BatchNext, SettledNext, ScreenNext
   DEF DisplayInv

LEMMA Undisturbed == DisplayInv => ScanoutUndisturbed
<1> SUFFICES ASSUME DisplayInv PROVE ScanoutUndisturbed
  OBVIOUS
<1> USE DEF DisplayInv
<1>1. OnScreen \subseteq {front_idx, Coming}
  BY DEF OnScreen, Coming, RetireInv
<1>2. command.op = "DRAW" => command.buf \notin {front_idx, Coming}
  BY DEF ScreenInv, RunningDraw
<1>3. host_pc = "cpu" => BackBuffer \notin {front_idx, Coming}
  <2> SUFFICES ASSUME host_pc = "cpu" PROVE BackBuffer \notin {front_idx, Coming}
    OBVIOUS
  <2>1. NoFlip /\ command.op = "NONE"
    BY DrainedIdle DEF NumberInv, NoFlip
  <2> QED BY <2>1 DEF ScreenInv, Fresh, Now
<1> QED BY <1>1, <1>2, <1>3 DEF ScanoutUndisturbed, Written

\* Nothing is drawn or copied into a buffer that is displayed or about to be:
\* for every queue size and every number of commands, in either mode, across
\* handles, whenever the scaler latches and retires, provided a handle with a
\* queued flip is closed behind a barrier and opcode 11 comes from
\* noodles_push_present only.
THEOREM ScanoutSafe ==
    ASSUME BarrierOnClose = TRUE, RawPresents = FALSE
    PROVE  Spec => []ScanoutUndisturbed
<1>1. DisplayInv /\ [Next]_vars => DisplayInv'
  BY DisplayNext
<1> QED BY <1>1, DisplayInit, Undisturbed, PTL DEF Spec
-----------------------------------------------------------------------------
(* Frames.  What the host has issued into a buffer is in the newest draw   *)
(* queued for it, in the draw that runs, or in its pixels.                 *)

DrawsInto(c, b) == c.op = "DRAW" /\ c.buf = b

NewestDraw == \A i \in Index :
    queue[i].op = "DRAW" /\ (\A j \in Index : j > i => ~DrawsInto(queue[j], queue[i].buf))
      => queue[i].paint = planned[queue[i].buf]

Drawn == \A b \in Buffer : (\A i \in Index : ~DrawsInto(queue[i], b)) =>
    IF DrawsInto(command, b) THEN command.paint = planned[b] ELSE content[b] = planned[b]

Presented == \A i \in Index :
    /\ IsFlip(queue[i]) => queue[i].paint = planned[queue[i].buf]
    /\ queue[i].op = "PRESENT" => queue[i].paint = planned[Toggle(Coming)]

FlipReady == present_state = "WAIT_VBL" => content[next_idx] = flip_paint

PaintInv == NewestDraw /\ Drawn /\ Presented /\ FlipReady /\ FrameIntact

LEMMA PaintInit == Init => PaintInv
<1> SUFFICES ASSUME Init PROVE PaintInv
  OBVIOUS
<1>1. Index = {} /\ command.op = "NONE" /\ \A b \in Buffer : content[b] = 0 /\ planned[b] = 0
  BY DEF Init, Index, NoCommand
<1>2. 0 \in Buffer
  BY DEF Buffer
<1> QED BY <1>1, <1>2 DEF Init, PaintInv, NewestDraw, Drawn, Presented, FlipReady,
        FrameIntact, DrawsInto

LEMMA PaintDraw ==
    ASSUME DisplayInv, PaintInv, HostDraw PROVE PaintInv'
<1>0. /\ UNCHANGED <<front_idx, next_idx, command, present_state, content, flip_paint, shown>>
      /\ Coming' = Coming
  BY ScreenHostFrame, HostFrame DEF HostStep, HostDraw, DisplayInv
<1>1. /\ BackBuffer \in Buffer /\ painted + 1 \in Nat
      /\ \A b \in Buffer : planned'[b] = IF b = BackBuffer THEN painted + 1 ELSE planned[b]
  BY BufferType, PaintUpdate DEF HostDraw, DisplayInv, TypeOK
<1>2. /\ Len(queue) \in Nat /\ Index' = Index \cup {Len(queue) + 1}
      /\ \A i \in Index : queue'[i] = queue[i] /\ i < Len(queue) + 1
      /\ queue'[Len(queue) + 1].op = "DRAW"
      /\ queue'[Len(queue) + 1].buf = BackBuffer
      /\ queue'[Len(queue) + 1].paint = painted + 1
  BY DrawEffect, QueueType DEF Index, DisplayInv
<1>3. NewestDraw'
  <2> SUFFICES ASSUME NEW i \in Index', queue'[i].op = "DRAW",
                      \A j \in Index' : j > i => ~DrawsInto(queue'[j], queue'[i].buf)
               PROVE  queue'[i].paint = planned'[queue'[i].buf]
    BY DEF NewestDraw
  <2>1. CASE i \in Index
    <3>1. queue[i].buf # BackBuffer
      BY <1>2, <2>1 DEF DrawsInto
    <3>2. queue[i].paint = planned[queue[i].buf] /\ queue[i].buf \in Buffer
      BY <1>2, <2>1 DEF PaintInv, NewestDraw, DisplayInv, CmdqInv
    <3> QED BY <1>1, <1>2, <2>1, <3>1, <3>2
  <2>2. CASE i = Len(queue) + 1
    BY <1>1, <1>2, <2>2
  <2> QED BY <1>2, <2>1, <2>2
<1>4. Drawn'
  <2> SUFFICES ASSUME NEW b \in Buffer, \A i \in Index' : ~DrawsInto(queue'[i], b)
               PROVE  IF DrawsInto(command, b) THEN command.paint = planned'[b]
                                               ELSE content[b] = planned'[b]
    BY <1>0 DEF Drawn
  <2>1. b # BackBuffer /\ \A i \in Index : ~DrawsInto(queue[i], b)
    BY <1>2 DEF DrawsInto
  <2> QED BY <1>1, <2>1 DEF PaintInv, Drawn
<1>5. Presented'
  <2> SUFFICES ASSUME NEW i \in Index
               PROVE  /\ IsFlip(queue[i]) => queue[i].paint = planned'[queue[i].buf]
                      /\ queue[i].op = "PRESENT" => queue[i].paint = planned'[Toggle(Coming)]
    BY <1>0, <1>2 DEF Presented, IsFlip
  <2>1. Toggle(Coming) \in Buffer /\ (IsFlip(queue[i]) => queue[i].buf \in Buffer)
    BY ScreenTypes, QueueType DEF DisplayInv, IsFlip
  <2>2. /\ IsFlip(queue[i]) => BackBuffer # queue[i].buf
        /\ queue[i].op = "PRESENT" => BackBuffer # Toggle(Coming)
    BY DEF DisplayInv, ScreenInv, Targets
  <2> QED BY <1>1, <2>1, <2>2 DEF PaintInv, Presented
<1>6. FlipReady' /\ FrameIntact'
  BY <1>0 DEF PaintInv, FlipReady, FrameIntact
<1> QED BY <1>3, <1>4, <1>5, <1>6 DEF PaintInv

\* Commands other than draws leave the paints as they are.
LEMMA PaintPublished ==
    ASSUME PaintInv, UNCHANGED <<command, content, planned>>,
           Index \subseteq Index', Index' \subseteq Nat,
           \A i \in Index : queue'[i] = queue[i],
           \A i \in Index' \ Index : queue'[i].op # "DRAW"
    PROVE  NewestDraw' /\ Drawn'
<1>1. NewestDraw'
  <2> SUFFICES ASSUME NEW i \in Index', queue'[i].op = "DRAW",
                      \A j \in Index' : j > i => ~DrawsInto(queue'[j], queue'[i].buf)
               PROVE  queue'[i].paint = planned[queue'[i].buf]
    BY DEF NewestDraw
  <2>1. i \in Index
    OBVIOUS
  <2>2. \A j \in Index : j > i => ~DrawsInto(queue[j], queue[i].buf)
    BY <2>1
  <2> QED BY <2>1, <2>2 DEF PaintInv, NewestDraw
<1>2. Drawn'
  <2> SUFFICES ASSUME NEW b \in Buffer, \A i \in Index' : ~DrawsInto(queue'[i], b)
               PROVE  IF DrawsInto(command, b) THEN command.paint = planned[b]
                                               ELSE content[b] = planned[b]
    BY DEF Drawn
  <2>1. \A i \in Index : ~DrawsInto(queue[i], b)
    OBVIOUS
  <2> QED BY <2>1 DEF PaintInv, Drawn
<1> QED BY <1>1, <1>2

LEMMA PaintPresent ==
    ASSUME DisplayInv, PaintInv,
           HostPresent \/ HostPresentFirst \/ HostPresentQueued \/ HostBarrier
    PROVE  PaintInv'
<1>0. /\ UNCHANGED <<front_idx, next_idx, command, present_state, content, flip_paint, shown,
                     planned>>
      /\ Coming' = Coming
  <2>1. HostStep /\ ~HostTransferEnd
    BY DEF HostStep, HostPresent, HostPresentFirst, HostPresentQueued, HostBarrier,
       HostTransferEnd
  <2>2. planned' = planned
    BY DEF HostPresent, HostPresentFirst, HostPresentQueued, HostBarrier
  <2> QED BY <2>1, <2>2, ScreenHostFrame, HostFrame DEF DisplayInv
<1>1. /\ Len(queue) \in Nat /\ Index \subseteq Index' /\ Index' \subseteq Nat
      /\ \A i \in Index : queue'[i] = queue[i]
      /\ \A i \in Index' \ Index : queue'[i].op # "DRAW"
  <2>1. /\ Len(queue) \in Nat /\ Index \subseteq Nat
        /\ Len(queue) + 1 \in Nat /\ Len(queue) + 2 \in Nat
        /\ \/ Index' = Index \cup {Len(queue) + 1}
           \/ Index' = Index \cup {Len(queue) + 1, Len(queue) + 2}
    BY PresentEffect, FirstEffect, QueuedEffect, BarrierEffect DEF DisplayInv, Index
  <2>2. \A i \in Index : queue'[i] = queue[i]
    BY PresentEffect, FirstEffect, QueuedEffect, BarrierEffect DEF DisplayInv
  <2>3. \A i \in Index' \ Index : queue'[i].op # "DRAW"
    BY PresentEffect, FirstEffect, QueuedEffect, BarrierEffect DEF DisplayInv
  <2>4. Index \subseteq Index' /\ Index' \subseteq Nat
    BY <2>1
  <2> QED BY <2>1, <2>2, <2>3, <2>4
<1>2. NewestDraw' /\ Drawn'
  BY <1>0, <1>1, PaintPublished
<1>3. \A i \in Index' \ Index :
        /\ IsFlip(queue'[i]) => queue'[i].paint = planned[queue'[i].buf]
        /\ queue'[i].op = "PRESENT" => queue'[i].paint = planned[Toggle(Coming)]
  <2>1. CASE HostPresent
    <3>1. BackBuffer = Toggle(Coming)
      BY <2>1, ScreenPresent DEF DisplayInv
    <3> QED BY <2>1, <3>1, PresentEffect DEF IsFlip, DisplayInv
  <2>2. CASE HostPresentFirst
    BY <2>2, FirstEffect DEF IsFlip, DisplayInv
  <2>3. CASE HostPresentQueued
    BY <2>3, QueuedEffect DEF IsFlip, DisplayInv
  <2>4. CASE HostBarrier
    BY <2>4, BarrierEffect DEF IsFlip, DisplayInv
  <2> QED BY <2>1, <2>2, <2>3, <2>4
<1>4. Presented'
  BY <1>0, <1>1, <1>3 DEF PaintInv, Presented
<1>5. FlipReady' /\ FrameIntact'
  BY <1>0 DEF PaintInv, FlipReady, FrameIntact
<1> QED BY <1>2, <1>4, <1>5 DEF PaintInv

LEMMA PaintQuiet ==
    ASSUME DisplayInv, PaintInv, HostQuiet PROVE PaintInv'
<1>0. /\ UNCHANGED <<front_idx, next_idx, command, present_state, flip_paint, shown, queue>>
      /\ Coming' = Coming /\ (~HostTransferEnd => content' = content)
  BY ScreenHostFrame, HostFrame, QuietFrame DEF HostStep, HostQuiet, DisplayInv
<1>1. CASE HostTransferEnd
  <2>1. /\ Index = {} /\ Index' = {} /\ command.op = "NONE" /\ NoFlip
    BY <1>0, <1>1, DrainedIdle DEF HostTransferEnd, DisplayInv, NumberInv, NoFlip, Index
  <2>2. BackBuffer \in Buffer /\ BackBuffer # front_idx /\ BackBuffer # Coming
    BY <2>1, BufferType DEF DisplayInv, ScreenInv, Fresh, Now
  <2>3. \A b \in Buffer :
          /\ planned'[b] = IF b = BackBuffer THEN painted + 1 ELSE planned[b]
          /\ content'[b] = IF b = BackBuffer THEN painted + 1 ELSE content[b]
    <3>1. painted + 1 \in Nat
      BY DEF DisplayInv, TypeOK
    <3> QED BY <1>1, <2>2, <3>1, PaintUpdate DEF HostTransferEnd, DisplayInv, TypeOK
  <2>4. Drawn'
    BY <1>0, <2>1, <2>3 DEF PaintInv, Drawn, DrawsInto
  <2>5. FlipReady' /\ FrameIntact'
    BY <1>0, <2>2, <2>3, ScreenTypes DEF PaintInv, FlipReady, FrameIntact, Coming, DisplayInv
  <2> QED BY <2>1, <2>4, <2>5 DEF PaintInv, NewestDraw, Presented
<1>2. CASE ~HostTransferEnd
  <2>1. planned' = planned
    BY <1>2 DEF HostQuiet, HostPoll, HostEnableThree, HostTransfer, HostClose, HostOpen
  <2>2. Index' = Index
    BY <1>0 DEF Index
  <2>3. NewestDraw' /\ Drawn'
    BY <1>0, <1>2, <2>1, <2>2 DEF PaintInv, NewestDraw, Drawn
  <2>4. Presented' /\ FlipReady' /\ FrameIntact'
    BY <1>0, <1>2, <2>1, <2>2 DEF PaintInv, Presented, FlipReady, FrameIntact
  <2> QED BY <2>3, <2>4 DEF PaintInv
<1> QED BY <1>1, <1>2
LEMMA PaintTakesDraw ==
    ASSUME DisplayInv, PaintInv, CmdqDraw PROVE PaintInv'
<1>0. /\ UNCHANGED <<front_idx, next_idx, present_state, flip_paint, shown, content, planned>>
      /\ queue # <<>> /\ queue' = Tail(queue) /\ command' = Head(queue)
      /\ Head(queue).op = "DRAW" /\ command.op = "NONE"
  BY DEF CmdqDraw, CmdqTakes, Offered, CmdqInv, DisplayInv
<1>1. /\ 1 \in Index /\ command' = queue[1] /\ queue[1].op = "DRAW"
      /\ \A i \in Index' : /\ queue'[i] = queue[i + 1] /\ i + 1 \in Index
                           /\ i \in Nat
      /\ \A i \in Index : i \in Nat
  BY <1>0, Taking, QueueType DEF Index, DisplayInv
<1>2. \A i \in Index : i = 1 \/ \E k \in Index' : queue'[k] = queue[i] /\ i = k + 1
  <2> SUFFICES ASSUME NEW i \in Index, i # 1
               PROVE  \E k \in Index' : queue'[k] = queue[i] /\ i = k + 1
    OBVIOUS
  <2>1. i - 1 \in Index' /\ queue'[i - 1] = queue[i]
    BY <1>0, Taking DEF DisplayInv
  <2>2. i = (i - 1) + 1
    BY <1>1
  <2> QED BY <2>1, <2>2
<1>3. NewestDraw'
  <2> SUFFICES ASSUME NEW i \in Index', queue'[i].op = "DRAW",
                      \A j \in Index' : j > i => ~DrawsInto(queue'[j], queue'[i].buf)
               PROVE  queue'[i].paint = planned[queue'[i].buf]
    BY <1>0 DEF NewestDraw
  <2>1. \A j \in Index : j > i + 1 => ~DrawsInto(queue[j], queue[i + 1].buf)
    BY <1>1, <1>2
  <2> QED BY <1>1, <2>1 DEF PaintInv, NewestDraw
<1>4. Drawn'
  <2> SUFFICES ASSUME NEW b \in Buffer, \A i \in Index' : ~DrawsInto(queue'[i], b)
               PROVE  IF DrawsInto(queue[1], b) THEN queue[1].paint = planned[b]
                                                ELSE content[b] = planned[b]
    BY <1>0, <1>1 DEF Drawn
  <2>1. \A j \in Index : j # 1 => ~DrawsInto(queue[j], b)
    BY <1>2
  <2>2. CASE DrawsInto(queue[1], b)
    <3>1. \A j \in Index : j > 1 => ~DrawsInto(queue[j], queue[1].buf)
      BY <2>1, <2>2 DEF DrawsInto
    <3> QED BY <1>1, <2>2, <3>1 DEF PaintInv, NewestDraw, DrawsInto
  <2>3. CASE ~DrawsInto(queue[1], b)
    <3>1. \A j \in Index : ~DrawsInto(queue[j], b)
      BY <2>1, <2>3
    <3>2. ~DrawsInto(command, b)
      BY <1>0 DEF DrawsInto
    <3> QED BY <2>3, <3>1, <3>2 DEF PaintInv, Drawn
  <2> QED BY <2>2, <2>3
<1>5. Presented'
  <2>1. Coming' = Coming
    BY <1>0 DEF Coming
  <2> QED BY <1>0, <1>1, <2>1 DEF PaintInv, Presented
<1>6. FlipReady' /\ FrameIntact'
  BY <1>0 DEF PaintInv, FlipReady, FrameIntact
<1> QED BY <1>3, <1>4, <1>5, <1>6 DEF PaintInv

\* Taking a present moves no pixels, and the buffer it shows is complete.
LEMMA PaintTaken ==
    ASSUME DisplayInv, PaintInv, CmdqPresent \/ CmdqPresentQueued
    PROVE  /\ NewestDraw' /\ Drawn' /\ Presented' /\ FrameIntact'
           /\ \A b \in Buffer : b # BackBuffer => content[b] = planned[b]
<1>0. /\ UNCHANGED <<front_idx, shown, content, planned>>
      /\ queue # <<>> /\ queue' = Tail(queue) /\ command.op = "NONE"
      /\ command'.op # "DRAW"
      /\ Head(queue).op # "DRAW"
  BY DEF CmdqPresent, CmdqPresentQueued, CmdqTakes, Offered, CmdqInv, DisplayInv, NoCommand,
     PresentStart
<1>1. /\ 1 \in Index /\ queue[1].op # "DRAW"
      /\ \A i \in Index' : /\ queue'[i] = queue[i + 1] /\ i + 1 \in Index
                           /\ i \in Nat
      /\ \A i \in Index : i \in Nat
  BY <1>0, Taking, QueueType DEF Index, DisplayInv
<1>2. \A i \in Index : i = 1 \/ \E k \in Index' : queue'[k] = queue[i] /\ i = k + 1
  <2> SUFFICES ASSUME NEW i \in Index, i # 1
               PROVE  \E k \in Index' : queue'[k] = queue[i] /\ i = k + 1
    OBVIOUS
  <2>1. i - 1 \in Index' /\ queue'[i - 1] = queue[i]
    BY <1>0, Taking DEF DisplayInv
  <2>2. i = (i - 1) + 1
    BY <1>1
  <2> QED BY <2>1, <2>2
<1>3. NewestDraw'
  <2> SUFFICES ASSUME NEW i \in Index', queue'[i].op = "DRAW",
                      \A j \in Index' : j > i => ~DrawsInto(queue'[j], queue'[i].buf)
               PROVE  queue'[i].paint = planned[queue'[i].buf]
    BY <1>0 DEF NewestDraw
  <2>1. \A j \in Index : j > i + 1 => ~DrawsInto(queue[j], queue[i + 1].buf)
    BY <1>1, <1>2
  <2> QED BY <1>1, <2>1 DEF PaintInv, NewestDraw
<1>4. ASSUME NEW b \in Buffer, \A i \in Index' : ~DrawsInto(queue'[i], b)
      PROVE  content[b] = planned[b]
  <2>1. \A j \in Index : ~DrawsInto(queue[j], b)
    BY <1>1, <1>2, <1>4 DEF DrawsInto
  <2>2. ~DrawsInto(command, b)
    BY <1>0 DEF DrawsInto
  <2> QED BY <2>1, <2>2 DEF PaintInv, Drawn
<1>5. Drawn'
  BY <1>0, <1>4 DEF Drawn, DrawsInto
<1>6. /\ \A i \in Index' : queue'[i].op = "DRAW" => queue'[i].buf = BackBuffer
      /\ \A i \in Index' : queue'[i].op # "DRAW" => IsBarrier(queue'[i])
  BY <1>0, <1>1, PresentTaken DEF DisplayInv
<1>7. Presented'
  BY <1>6 DEF Presented, IsFlip, IsBarrier
<1>8. FrameIntact'
  BY <1>0 DEF PaintInv, FrameIntact
<1>9. \A b \in Buffer : b # BackBuffer => content[b] = planned[b]
  <2> SUFFICES ASSUME NEW b \in Buffer, b # BackBuffer PROVE content[b] = planned[b]
    OBVIOUS
  <2>1. \A i \in Index' : ~DrawsInto(queue'[i], b)
    BY <1>6 DEF DrawsInto
  <2> QED BY <1>4, <2>1
<1> QED BY <1>3, <1>5, <1>7, <1>8, <1>9

LEMMA PaintTakes ==
    ASSUME DisplayInv, PaintInv, CmdqPresent \/ CmdqPresentQueued
    PROVE  PaintInv'
<1>1. FlipReady'
  <2>1. 1 \in Index /\ Head(queue) = queue[1] /\ queue # <<>> /\ content' = content
    BY TakingStep, Taking DEF DisplayInv, CmdqPresent, CmdqPresentQueued
  <2>2. CASE CmdqPresent
    <3>1. queue[1].op = "PRESENT" /\ flip_paint' = queue[1].paint
      BY <2>1, <2>2 DEF CmdqPresent, CmdqTakes, Offered, PresentStart
    <3>2. next_idx' = Toggle(Coming) /\ BackBuffer # Toggle(Coming) /\ Toggle(Coming) \in Buffer
      BY <2>2, ScreenTakesPresent, ScreenTypes DEF DisplayInv
    <3>3. queue[1].paint = planned[Toggle(Coming)]
      BY <2>1, <3>1 DEF PaintInv, Presented
    <3> QED BY <2>1, <3>1, <3>2, <3>3, PaintTaken DEF FlipReady
  <2>3. CASE CmdqPresentQueued /\ IsFlip(queue[1])
    <3>1. flip_paint' = queue[1].paint /\ next_idx' = queue[1].buf
      BY <2>1, <2>3 DEF CmdqPresentQueued, PresentStart, IsFlip
    <3>2. queue[1].buf \in Buffer /\ BackBuffer # queue[1].buf
      BY <2>1, <2>3, QueueType DEF DisplayInv, ScreenInv, Targets, IsFlip
    <3>3. queue[1].paint = planned[queue[1].buf]
      BY <2>1, <2>3 DEF PaintInv, Presented
    <3> QED BY <2>1, <3>1, <3>2, <3>3, PaintTaken DEF FlipReady
  <2>4. CASE CmdqPresentQueued /\ ~IsFlip(queue[1])
    <3>1. UNCHANGED <<present_state, next_idx, flip_paint>>
      BY <2>1, <2>4 DEF CmdqPresentQueued, CmdqTakes, Offered, IsFlip
    <3> QED BY <2>1, <3>1 DEF PaintInv, FlipReady
  <2> QED BY <2>2, <2>3, <2>4
<1> QED BY <1>1, PaintTaken DEF PaintInv

LEMMA PaintNext ==
    ASSUME DisplayInv, PaintInv, [Next]_vars PROVE PaintInv'
<1>1. CASE HostStep
  BY <1>1, PaintDraw, PaintPresent, PaintQuiet DEF HostStep, HostQuiet
<1>2. CASE CmdqDraw \/ CmdqPresent \/ CmdqPresentQueued
  BY <1>2, PaintTakesDraw, PaintTakes
<1>3. CASE ~HostStep /\ ~(CmdqDraw \/ CmdqPresent \/ CmdqPresentQueued)
  <2>0. /\ UNCHANGED <<queue, planned, next_idx>> /\ Index' = Index /\ Coming' = Coming
        /\ \/ command' = command
           \/ CmdqIdle /\ command.op = "DRAW" /\ command'.op = "NONE"
           \/ command.op = "PRESENT" /\ command'.op = "NONE"
        /\ ~CmdqIdle => content' = content
    BY <1>3, CoreFrame DEF DisplayInv, Index
  <2>1. NewestDraw' /\ Presented'
    BY <2>0 DEF PaintInv, NewestDraw, Presented
  <2>2. CASE CmdqIdle
    <3>1. /\ UNCHANGED <<present_state, front_idx, flip_paint, shown>>
          /\ content' = [content EXCEPT ![command.buf] = command.paint]
          /\ command.op = "DRAW" /\ command'.op = "NONE"
      BY <2>2 DEF CmdqIdle, NoCommand, DisplayInv, CmdqInv
    <3>2. /\ command.buf \in Buffer /\ command.buf # front_idx /\ command.buf # Coming
          /\ content \in [Buffer -> Nat] /\ command.paint \in Nat
      BY <3>1 DEF DisplayInv, CmdqInv, ScreenInv, RunningDraw, TypeOK, Running
    <3>3. \A b \in Buffer : content'[b] = IF b = command.buf THEN command.paint ELSE content[b]
      BY <3>1, <3>2, PaintUpdate
    <3>4. Drawn'
      BY <2>0, <3>1, <3>2, <3>3 DEF PaintInv, Drawn, DrawsInto
    <3>5. FlipReady' /\ FrameIntact'
      BY <2>0, <3>1, <3>2, <3>3, ScreenTypes
         DEF PaintInv, FlipReady, FrameIntact, Coming, DisplayInv
    <3> QED BY <2>1, <3>4, <3>5 DEF PaintInv
  <2>3. CASE ~CmdqIdle
    <3>1. Drawn'
      BY <2>0, <2>3 DEF PaintInv, Drawn, DrawsInto
    <3>2. UNCHANGED flip_paint /\ content' = content
      BY <1>3, <2>0, <2>3 DEF Next, CmdqStep, FenceStep, PresentStep, ScalerStep,
         CmdqAccept, EngineDone, FenceStart, FenceWrite, PresentAck, PresentFinish,
         SyncRetired, VblRise, ScalerLatch, ScalerRetire, ScalerBoundary
    <3>3. CASE VblRise
      <4>1. CASE present_state = "WAIT_VBL"
        <5>1. front_idx' = next_idx /\ shown' = flip_paint /\ present_state' = "WAIT_ACK"
          BY <3>3, <4>1 DEF VblRise
        <5> QED BY <2>1, <3>1, <3>2, <4>1, <5>1 DEF PaintInv, FlipReady, FrameIntact
      <4>2. CASE present_state # "WAIT_VBL"
        <5>1. UNCHANGED <<front_idx, shown, present_state>>
          BY <3>3, <4>2 DEF VblRise
        <5> QED BY <2>0, <2>1, <3>1, <3>2, <4>2, <5>1 DEF PaintInv, FlipReady, FrameIntact
      <4> QED BY <4>1, <4>2
    <3>4. CASE ~VblRise
      <4>1. UNCHANGED <<front_idx, shown>>
        BY <1>3, <2>3, <3>4 DEF Next, CmdqStep, FenceStep, PresentStep, ScalerStep,
           CmdqAccept, EngineDone, FenceStart, FenceWrite, PresentAck, PresentFinish,
           SyncRetired, ScalerLatch, ScalerRetire, ScalerBoundary
      <4>2. present_state' = "WAIT_VBL" => present_state = "WAIT_VBL"
        BY <1>3, <2>3, <3>4 DEF Next, CmdqStep, FenceStep, PresentStep, ScalerStep,
           CmdqAccept, EngineDone, FenceStart, FenceWrite, PresentAck, PresentFinish,
           SyncRetired, ScalerLatch, ScalerRetire, ScalerBoundary
      <4>3. next_idx' = next_idx
        BY <2>0
      <4>4. FlipReady'
        BY <3>2, <4>2, <4>3 DEF PaintInv, FlipReady
      <4>5. FrameIntact'
        BY <3>2, <4>1 DEF PaintInv, FrameIntact
      <4> QED BY <2>1, <3>1, <4>4, <4>5 DEF PaintInv
    <3> QED BY <3>3, <3>4
  <2> QED BY <2>2, <2>3
<1> QED BY <1>1, <1>2, <1>3

\* The front buffer holds exactly what the host had issued into it when it
\* presented it, for every queue size and every number of draws and frames, in
\* either mode and across handles, under the same two conditions.
THEOREM FramesIntact ==
    ASSUME BarrierOnClose = TRUE, RawPresents = FALSE
    PROVE  Spec => []FrameIntact
<1>1. DisplayInv /\ [Next]_vars => DisplayInv'
  BY DisplayNext
<1>2. DisplayInv /\ PaintInv /\ [Next]_vars => PaintInv'
  BY PaintNext
<1>3. PaintInv => FrameIntact
  BY DEF PaintInv
<1> QED BY <1>1, <1>2, <1>3, DisplayInit, PaintInit, PTL DEF Spec

=============================================================================
