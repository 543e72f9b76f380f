------------------------- MODULE CommandRing_proof -------------------------
(***************************************************************************)
(* Proofs about CommandRing, for every ring size, slot width, fence modulus *)
(* and bound.  The inductive invariant has two halves.  TransportInv says   *)
(* where each submitted command is (slots, fetch register, engine) in terms *)
(* of modular distances to the write pointer; CountInv says how old each    *)
(* copy of the completion count is, in distances to the last token.         *)
(***************************************************************************)
EXTENDS CommandRing, TLAPS

LEMMA FenceModPositive == FenceMod \in Nat /\ FenceMod >= 2
BY FenceAssumption DEF FenceMod

\* Slot indices stay in the ring.
LEMMA SlotArithmetic ==
    ASSUME NEW p \in Slot, NEW q \in Slot
    PROVE  /\ NextSlot(p) \in Slot
           /\ SlotsFrom(p, q) \in 0 .. RingSlots - 1
           /\ SlotsFrom(p, q) = 0 <=> p = q
           /\ SlotsFrom(p, q) > 0 => SlotsFrom(NextSlot(p), q) = SlotsFrom(p, q) - 1
           /\ SlotsFrom(p, q) < RingSlots - 1 => SlotsFrom(p, NextSlot(q)) = SlotsFrom(p, q) + 1
           /\ NextSlot(q) = p <=> SlotsFrom(p, q) = RingSlots - 1
BY RingAssumption DEF Slot, NextSlot, SlotsFrom, Inc, Dist

LEMMA NextSlotType == ASSUME NEW p \in Slot PROVE NextSlot(p) \in Slot
BY RingAssumption DEF Slot, NextSlot, Inc

LEMMA WordArithmetic ==
    /\ 0 \in Word /\ SlotWords - 1 \in Word
    /\ \A w \in Word : w # SlotWords - 1 => w + 1 \in Word
    /\ \A w \in 0 .. SlotWords : w < SlotWords <=> w \in Word
BY RingAssumption DEF Word

LEMMA IncType == ASSUME NEW a \in Fence PROVE Inc(a, FenceMod) \in Fence
BY FenceModPositive DEF Fence, Inc

\* A distance to the write pointer splits at the read pointer.
LEMMA SlotDistance ==
    ASSUME NEW r \in Slot, NEW s \in Slot, NEW w \in Slot,
           SlotsFrom(r, s) < SlotsFrom(r, w)
    PROVE  s # w
BY RingAssumption DEF Slot, SlotsFrom, Dist

LEMMA FenceArithmetic ==
    ASSUME NEW a \in Fence, NEW b \in Fence
    PROVE  /\ Inc(a, FenceMod) \in Fence
           /\ CountFrom(a, b) \in 0 .. FenceMod - 1
           /\ CountFrom(a, b) = 0 <=> a = b
           /\ CountFrom(a, b) > 0
                => CountFrom(Inc(a, FenceMod), b) = CountFrom(a, b) - 1
           /\ CountFrom(a, b) < FenceMod - 1
                => CountFrom(a, Inc(b, FenceMod)) = CountFrom(a, b) + 1
BY FenceModPositive DEF Fence, CountFrom, Inc, Dist

LEMMA TokenType ==
    ASSUME TypeOK, NEW n \in RetainedNumbers
    PROVE  /\ n \in 0 .. submitted
           /\ TokenOf(n) \in Fence
           /\ CountFrom(TokenOf(n), last_fence) = submitted - n
           /\ submitted - n < HalfRange
BY FenceAssumption DEF TypeOK, RetainedNumbers, TokenOf, Back, Fence, FenceMod, CountFrom, Dist

-----------------------------------------------------------------------------
(* Type correctness.                                                       *)

LEMMA TypeInit == Init => TypeOK
<1> SUFFICES ASSUME Init PROVE TypeOK
  OBVIOUS
<1>1. 0 \in Word /\ 0 \in Fence /\ 0 \in 0 .. SlotWords /\ Baselines \subseteq Fence
  BY RingAssumption, FenceAssumption, FenceModPositive DEF Word, Fence
<1>2. write_queue \in Seq(QueuedWrite)
  BY DEF Init
<1>3. /\ slots \in [Slot -> [Word -> Nat]]
      /\ slot_reg \in [Word -> Nat]
      /\ command \in [Word -> Nat]
  BY DEF Init
<1> QED BY <1>1, <1>2, <1>3 DEF Init, TypeOK, RingStates

USE DEF host, dram, ring, cmdq, fence, vars

LEMMA PollType ==
    ASSUME TypeOK, NEW t \in Fence,
           PollComplete(t) \/ (PollChallenge(t) /\ UNCHANGED observed)
    PROVE  /\ ping' \in {"none", "requested", "echoed"}
           /\ confirmed_done' \in Fence
           /\ observed' \in Nat
<1>1. NumberOf(t) \in Int
  <2>1. CountFrom(t, last_fence) \in Int /\ submitted \in Int
    <3>1. last_fence \in Fence /\ submitted \in Nat
      BY DEF TypeOK
    <3>2. CountFrom(t, last_fence) \in 0 .. FenceMod - 1
      BY <3>1, FenceArithmetic
    <3> QED BY <3>1, <3>2, FenceModPositive
  <2> QED BY <2>1 DEF NumberOf
<1> QED
  BY <1>1 DEF TypeOK, PollComplete, PollChallenge, PollConfirmed, PollRaw

LEMMA TypeStep == TypeOK /\ [Next]_vars => TypeOK'
<1> SUFFICES ASSUME TypeOK, [Next]_vars PROVE TypeOK'
  OBVIOUS
<1> USE RingAssumption, FenceAssumption
<1>1. CASE HostPush
  BY <1>1 DEF TypeOK, HostPush
<1>2. CASE HostWriteWord
  <2>1. slots' \in [Slot -> [Word -> Nat]]
    <3>1. write_ptr \in Slot /\ host_word \in Word /\ submitted + 1 \in Nat
      BY <1>2 DEF TypeOK, HostWriteWord, Word
    <3> QED BY <1>2, <3>1 DEF TypeOK, HostWriteWord
  <2>2. host_word' \in 0 .. SlotWords
    BY <1>2 DEF TypeOK, HostWriteWord
  <2> QED BY <1>2, <2>1, <2>2 DEF TypeOK, HostWriteWord
<1>3. CASE HostPublish
  BY <1>3, NextSlotType, IncType DEF TypeOK, HostPublish
<1>4. ASSUME NEW n \in RetainedNumbers, HostPoll(n) PROVE TypeOK'
  <2>1. /\ ping' \in {"none", "requested", "echoed"}
        /\ confirmed_done' \in Fence
        /\ observed' \in Nat
    BY <1>4, TokenType, PollType DEF HostPoll
  <2> QED BY <1>4, <2>1 DEF TypeOK, HostPoll
<1>5. ASSUME NEW n \in RetainedNumbers, HostWait(n) PROVE TypeOK'
  BY <1>5, TokenType DEF TypeOK, HostWait
<1>6. CASE HostProgressSample
  BY <1>6 DEF TypeOK, HostProgressSample
<1>7. CASE HostProgressTarget
  BY <1>7, IncType DEF TypeOK, HostProgressTarget
<1>8. CASE HostWaitPoll
  <2>1. /\ ping' \in {"none", "requested", "echoed"}
        /\ confirmed_done' \in Fence
        /\ observed' \in Nat
        /\ host_pc' \in {"idle", "fill", "progress", "wait"}
    <3>1. wait_target \in Fence
      BY DEF TypeOK
    <3>2. PollComplete(wait_target) \/ (PollChallenge(wait_target) /\ UNCHANGED observed)
      BY <1>8 DEF HostWaitPoll
    <3>3. host_pc' \in {"idle", "fill", "progress", "wait"}
      BY <1>8 DEF HostWaitPoll, TypeOK
    <3> QED BY <3>1, <3>2, <3>3, PollType
  <2> QED BY <1>8, <2>1 DEF TypeOK, HostWaitPoll
<1>9. CASE HostTimeout
  BY <1>9 DEF TypeOK, HostTimeout
<1>10. CASE RingStartPoll
  BY <1>10 DEF TypeOK, RingStartPoll, RingStates
<1>11. CASE RingReadPointer
  BY <1>11 DEF TypeOK, RingReadPointer, RingStates, Slot
<1>19. CASE RingComparePointer
  <2>1. word_idx' \in Word /\ ring_state' \in RingStates
    BY <1>19, WordArithmetic DEF TypeOK, RingComparePointer, RingStates
  <2> QED BY <1>19, <2>1 DEF TypeOK, RingComparePointer
<1>20. CASE RingReadWord
  BY <1>20 DEF TypeOK, RingReadWord, RingStates
<1>21. CASE RingStoreWord
  <2>1. slot_reg' \in [Word -> Nat]
    BY <1>21 DEF TypeOK, RingStoreWord
  <2>2. word_idx' \in Word /\ ring_state' \in RingStates
    BY <1>21, WordArithmetic DEF TypeOK, RingStoreWord, RingStates
  <2> QED BY <1>21, <2>1, <2>2 DEF TypeOK, RingStoreWord
<1>12. CASE Dispatch
  BY <1>12, NextSlotType DEF TypeOK, Dispatch, RingStates
<1>13. CASE RingWriteBack
  <2>1. write_queue' \in Seq(QueuedWrite)
    BY <1>13 DEF TypeOK, RingWriteBack, QueuedWrite
  <2> QED BY <1>13, <2>1 DEF TypeOK, RingWriteBack, RingStates
<1>14. CASE EngineDone
  BY <1>14, IncType DEF TypeOK, EngineDone
<1>22. CASE CmdqIdle \/ FenceStart
  BY <1>22 DEF TypeOK, CmdqIdle, FenceStart
<1>15. CASE FenceWrite
  <2>1. write_queue' \in Seq(QueuedWrite)
    BY <1>15 DEF TypeOK, FenceWrite, QueuedWrite
  <2> QED BY <1>15, <2>1 DEF TypeOK, FenceWrite
<1>16. CASE DramWrite
  <2>1. Head(write_queue) \in QueuedWrite /\ Tail(write_queue) \in Seq(QueuedWrite)
    BY <1>16 DEF TypeOK, DramWrite
  <2>2. hdr_fence' \in Fence /\ hdr_read' \in Slot
    BY <1>16, <2>1 DEF TypeOK, DramWrite, QueuedWrite
  <2> QED BY <1>16, <2>1, <2>2 DEF TypeOK, DramWrite
<1>17. CASE ControlEcho
  BY <1>17 DEF TypeOK, ControlEcho
<1>18. CASE UNCHANGED vars
  BY <1>18 DEF TypeOK
<1> QED
  BY <1>1, <1>2, <1>3, <1>4, <1>5, <1>6, <1>7, <1>8, <1>9, <1>10, <1>11, <1>12,
     <1>13, <1>14, <1>15, <1>16, <1>17, <1>18,
     <1>19, <1>20, <1>21, <1>22
     DEF Next, HostStep, CoreStep

\* Every variable keeps its type: slot indices stay inside the ring and counts
\* inside the fence's 31 bits, whatever the sizes.
THEOREM TypeCorrect == Spec => []TypeOK
BY TypeInit, TypeStep, PTL DEF Spec
-----------------------------------------------------------------------------
(* Where the commands are.                                                 *)

Waiting == submitted - accepted
Pointers == {i \in 1 .. Len(write_queue) : write_queue[i].reg = "read_ptr"}
Behind(p) == SlotsFrom(p, write_ptr)

\* Every copy of the read pointer is as far behind the write pointer as the
\* real one, or further: oldest in DRAM, then in the order of the queue.
PointerInv ==
    /\ hdr_write = write_ptr
    /\ Behind(read_ptr) = Waiting
    /\ Behind(read_ptr) <= Behind(hdr_read)
    /\ \A i \in Pointers : /\ Behind(read_ptr) <= Behind(write_queue[i].val)
                          /\ Behind(write_queue[i].val) <= Behind(hdr_read)
    /\ \A i, j \in Pointers :
          i < j => Behind(write_queue[j].val) <= Behind(write_queue[i].val)
    /\ host_pc = "fill" => Behind(hdr_read) < RingSlots - 1

Whole(n) == [w \in Word |-> n]

\* The slots from the read pointer to the write pointer hold the submitted
\* commands in order; the slot being filled holds its words so far.
ContentInv ==
    /\ \A s \in Slot : SlotsFrom(read_ptr, s) < Waiting =>
          slots[s] = Whole(accepted + 1 + SlotsFrom(read_ptr, s))
    /\ host_pc = "fill" =>
          \A w \in Word : w < host_word => slots[write_ptr][w] = submitted + 1

FetchInv ==
    /\ ring_state = "POLL_WAIT" => rd_data = read_ptr \/ Waiting > 0
    /\ ring_state \in {"FETCH_REQ", "FETCH_WAIT", "DISPATCH"} => Waiting > 0
    /\ ring_state \in {"FETCH_REQ", "FETCH_WAIT"} =>
          \A w \in Word : w < word_idx => slot_reg[w] = accepted + 1
    /\ ring_state = "FETCH_WAIT" => rd_data = accepted + 1
    /\ ring_state = "DISPATCH" => slot_reg = Whole(accepted + 1)

EngineInv ==
    /\ engine = "RUN" => accepted = completed + 1 /\ command = Whole(accepted)
    /\ engine # "RUN" => accepted = completed

TransportInv == PointerInv /\ ContentInv /\ FetchInv /\ EngineInv
LEMMA QueueFacts ==
    ASSUME TypeOK
    PROVE  /\ Len(write_queue) \in Nat
           /\ \A i \in 1 .. Len(write_queue) : write_queue[i] \in QueuedWrite
           /\ \A i \in Pointers : i \in 1 .. Len(write_queue) /\ write_queue[i].val \in Slot
<1>1. write_queue \in Seq(QueuedWrite)
  BY DEF TypeOK
<1>2. /\ Len(write_queue) \in Nat
      /\ \A i \in 1 .. Len(write_queue) : write_queue[i] \in QueuedWrite
  BY <1>1
<1>3. \A e \in QueuedWrite : e.reg = "read_ptr" => e.val \in Slot
  BY DEF QueuedWrite
<1> QED BY <1>2, <1>3 DEF Pointers

LEMMA TransportInit == Init => TransportInv
<1> SUFFICES ASSUME Init PROVE TransportInv
  OBVIOUS
<1>1. read_ptr \in Slot /\ write_ptr = read_ptr /\ hdr_read = read_ptr /\ hdr_write = read_ptr
  BY DEF Init
<1>2. Behind(read_ptr) = 0 /\ Waiting = 0
  BY <1>1, SlotArithmetic DEF Behind, Waiting, Init
<1>3. Pointers = {}
  BY DEF Init, Pointers
<1>4. PointerInv
  BY <1>1, <1>2, <1>3 DEF PointerInv, Init
<1>5. \A s \in Slot : ~(SlotsFrom(read_ptr, s) < Waiting)
  BY <1>1, <1>2, SlotArithmetic, RingAssumption
<1> QED BY <1>2, <1>4, <1>5 DEF TransportInv, ContentInv, FetchInv, EngineInv, Init

\* Steps that move no pointer and queue no write.
LEMMA PointerFrame ==
    ASSUME PointerInv,
           UNCHANGED <<hdr_write, write_ptr, read_ptr, hdr_read, write_queue,
                       submitted, accepted>>,
           host_pc' = "fill" => host_pc = "fill"
    PROVE  PointerInv'
BY DEF PointerInv, Behind, Waiting, Pointers

LEMMA PointerStep ==
    ASSUME TypeOK, TransportInv, [Next]_vars
    PROVE  PointerInv'
<1> USE DEF TransportInv
<1>t. /\ read_ptr \in Slot /\ write_ptr \in Slot /\ hdr_read \in Slot
      /\ submitted \in Nat /\ accepted \in Nat
      /\ \A p \in Slot : Behind(p) \in 0 .. RingSlots - 1
  BY SlotArithmetic DEF TypeOK, Behind
<1>q. \A i \in Pointers : write_queue[i].val \in Slot
  BY QueueFacts
<1>1. CASE HostPush
  <2>1. Behind(hdr_read) < RingSlots - 1
    BY <1>1, <1>t, SlotArithmetic, RingAssumption DEF HostPush, RingHasSpace, Behind
  <2> QED BY <1>1, <2>1 DEF PointerInv, HostPush, Behind, Waiting, Pointers
<1>2. CASE HostPublish
  <2>1. \A p \in Slot : Behind(p) < RingSlots - 1 => Behind(p)' = Behind(p) + 1
    BY <1>2, <1>t, SlotArithmetic DEF HostPublish, Behind
  <2>2. Behind(hdr_read) < RingSlots - 1
    BY <1>2 DEF HostPublish, PointerInv
  <2>3. \A i \in Pointers : Behind(write_queue[i].val) < RingSlots - 1
    BY <1>t, <1>q, <2>2, RingAssumption DEF PointerInv
  <2>4. Behind(read_ptr) < RingSlots - 1
    BY <1>t, <2>2, RingAssumption DEF PointerInv
  <2>5. /\ hdr_write' = write_ptr' /\ host_pc' # "fill" /\ Waiting' = Waiting + 1
        /\ read_ptr' = read_ptr /\ hdr_read' = hdr_read /\ write_queue' = write_queue
    BY <1>2, <1>t DEF HostPublish, Waiting
  <2>6. Pointers' = Pointers
    BY <2>5 DEF Pointers
  <2>7. /\ Behind(read_ptr)' = Behind(read_ptr) + 1
        /\ Behind(hdr_read)' = Behind(hdr_read) + 1
        /\ \A i \in Pointers : Behind(write_queue[i].val)' = Behind(write_queue[i].val) + 1
    BY <1>t, <1>q, <2>1, <2>2, <2>3, <2>4, <2>5 DEF Behind
  <2> QED BY <1>t, <1>q, <2>5, <2>6, <2>7 DEF PointerInv
<1>3. CASE Dispatch
  <2>1. Behind(read_ptr) > 0
    BY <1>3 DEF Dispatch, PointerInv, FetchInv
  <2>2. Behind(read_ptr)' = Behind(read_ptr) - 1 /\ Waiting' = Waiting - 1
    BY <1>3, <1>t, <2>1, SlotArithmetic DEF Dispatch, Behind, Waiting
  <2>3. \A p \in Slot : Behind(p)' = Behind(p)
    BY <1>3 DEF Dispatch, Behind
  <2>4. /\ hdr_write' = hdr_write /\ write_ptr' = write_ptr /\ host_pc' = host_pc
        /\ hdr_read' = hdr_read /\ write_queue' = write_queue /\ Pointers' = Pointers
    BY <1>3 DEF Dispatch, Pointers
  <2> QED BY <1>t, <1>q, <2>1, <2>2, <2>3, <2>4 DEF PointerInv, Behind
<1>4. CASE RingWriteBack
  <2> DEFINE n == Len(write_queue)
  <2>1. /\ n \in Nat /\ Len(write_queue') = n + 1
        /\ \A i \in 1 .. n : write_queue'[i] = write_queue[i]
        /\ write_queue'[n + 1] = [reg |-> "read_ptr", val |-> read_ptr]
    BY <1>4, QueueFacts DEF RingWriteBack, TypeOK
  <2>2. Pointers' = Pointers \cup {n + 1} /\ \A i \in Pointers : i \in 1 .. n
    BY <2>1 DEF Pointers
  <2>3. UNCHANGED <<hdr_write, write_ptr, read_ptr, hdr_read, host_pc, submitted, accepted>>
    BY <1>4 DEF RingWriteBack
  <2>4. \A i \in Pointers' :
           \/ i \in Pointers /\ write_queue'[i].val = write_queue[i].val
           \/ i = n + 1 /\ write_queue'[i].val = read_ptr
    <3>1. \A i \in Pointers : write_queue'[i] = write_queue[i]
      BY <2>1 DEF Pointers
    <3>2. write_queue'[n + 1].val = read_ptr
      BY <2>1
    <3> QED BY <2>2, <3>1, <3>2
  <2> QED BY <1>t, <1>q, <2>1, <2>2, <2>3, <2>4 DEF PointerInv, Behind, Waiting
<1>5. CASE FenceWrite
  <2> DEFINE n == Len(write_queue)
  <2>1. /\ n \in Nat /\ Len(write_queue') = n + 1
        /\ \A i \in 1 .. n : write_queue'[i] = write_queue[i]
        /\ write_queue'[n + 1].reg = "fence"
    BY <1>5, QueueFacts DEF FenceWrite, TypeOK
  <2>2. Pointers' = Pointers /\ \A i \in Pointers : write_queue'[i] = write_queue[i]
    BY <2>1 DEF Pointers
  <2>3. UNCHANGED <<hdr_write, write_ptr, read_ptr, hdr_read, host_pc, submitted, accepted>>
    BY <1>5 DEF FenceWrite
  <2> QED BY <2>2, <2>3 DEF PointerInv, Behind, Waiting
<1>6. CASE DramWrite
  <2> DEFINE n == Len(write_queue)
  <2>1. /\ n \in Nat /\ n > 0 /\ Len(write_queue') = n - 1
        /\ \A i \in 1 .. n - 1 : write_queue'[i] = write_queue[i + 1]
        /\ Head(write_queue) = write_queue[1]
    BY <1>6, QueueFacts DEF DramWrite, TypeOK
  <2>w. /\ write_queue[1].reg = "fence" => hdr_read' = hdr_read
        /\ write_queue[1].reg # "fence" => hdr_read' = write_queue[1].val
    BY <1>6, <2>1 DEF DramWrite
  <2>r. write_queue[1].reg \in {"read_ptr", "fence"}
    <3>1. write_queue[1] \in QueuedWrite
      BY <2>1, QueueFacts
    <3> QED BY <3>1 DEF QueuedWrite
  <2>2. \A i \in Pointers' : i + 1 \in Pointers /\ write_queue'[i] = write_queue[i + 1]
                            /\ i \in Nat
    BY <2>1 DEF Pointers
  <2>3. UNCHANGED <<hdr_write, write_ptr, read_ptr, host_pc, submitted, accepted>>
    BY <1>6 DEF DramWrite
  <2>4. CASE write_queue[1].reg = "read_ptr"
    <3>1. 1 \in Pointers /\ hdr_read' = write_queue[1].val
      BY <2>1, <2>w, <2>4 DEF Pointers
    <3>2. /\ Behind(read_ptr) <= Behind(hdr_read)'
          /\ Behind(hdr_read)' <= Behind(hdr_read)
          /\ Behind(hdr_read)' \in 0 .. RingSlots - 1
      BY <1>t, <1>q, <2>3, <3>1 DEF PointerInv, Behind
    <3>3. \A i \in Pointers' : Behind(write_queue[i + 1].val) <= Behind(hdr_read)'
      <4> TAKE i \in Pointers'
      <4>1. i + 1 \in Pointers /\ 1 < i + 1
        BY <2>1, <2>2 DEF Pointers
      <4>2. Behind(write_queue[i + 1].val) <= Behind(write_queue[1].val)
        BY <3>1, <4>1 DEF PointerInv
      <4> QED BY <2>3, <3>1, <4>2 DEF Behind
    <3> QED BY <1>t, <1>q, <2>2, <2>3, <3>2, <3>3, RingAssumption DEF PointerInv, Behind, Waiting
  <2>5. CASE write_queue[1].reg # "read_ptr"
    <3>1. hdr_read' = hdr_read
      BY <2>5, <2>w, <2>r
    <3> QED BY <2>2, <2>3, <3>1 DEF PointerInv, Behind, Waiting
  <2> QED BY <2>4, <2>5
<1>7. CASE HostWriteWord \/ HostProgressSample \/ HostProgressTarget \/ HostWaitPoll \/ HostTimeout
  BY <1>7, PointerFrame
     DEF HostWriteWord, HostProgressSample, HostProgressTarget, HostWaitPoll, HostTimeout
<1>8. ASSUME NEW m \in RetainedNumbers, HostPoll(m) \/ HostWait(m) PROVE PointerInv'
  BY <1>8, PointerFrame DEF HostPoll, HostWait
<1>9. CASE RingStartPoll \/ RingReadPointer \/ RingComparePointer \/ RingReadWord \/ RingStoreWord
  BY <1>9, PointerFrame
     DEF RingStartPoll, RingReadPointer, RingComparePointer, RingReadWord, RingStoreWord
<1>10. CASE EngineDone \/ CmdqIdle \/ FenceStart \/ ControlEcho \/ UNCHANGED vars
  BY <1>10, PointerFrame DEF EngineDone, CmdqIdle, FenceStart, ControlEcho
<1> QED
  BY <1>1, <1>2, <1>3, <1>4, <1>5, <1>6, <1>7, <1>8, <1>9, <1>10
     DEF Next, HostStep, CoreStep

LEMMA SlotInjective ==
    ASSUME NEW r \in Slot, NEW s \in Slot, NEW w \in Slot
    PROVE  /\ SlotsFrom(r, s) = SlotsFrom(r, w) => s = w
           /\ s # r => SlotsFrom(NextSlot(r), s) = SlotsFrom(r, s) - 1
BY RingAssumption DEF Slot, SlotsFrom, NextSlot, Inc, Dist

LEMMA ContentFrame ==
    ASSUME ContentInv,
           UNCHANGED <<slots, write_ptr, read_ptr, submitted, accepted>>,
           UNCHANGED <<host_pc, host_word>> \/ host_pc' # "fill"
    PROVE  ContentInv'
BY DEF ContentInv, Waiting, Whole

LEMMA ContentStep ==
    ASSUME TypeOK, TransportInv, [Next]_vars
    PROVE  ContentInv'
<1> USE DEF TransportInv
<1>t. /\ read_ptr \in Slot /\ write_ptr \in Slot
      /\ submitted \in Nat /\ accepted \in Nat /\ host_word \in 0 .. SlotWords
      /\ slots \in [Slot -> [Word -> Nat]]
      /\ SlotsFrom(read_ptr, write_ptr) = Waiting
      /\ \A s \in Slot : SlotsFrom(read_ptr, s) \in 0 .. RingSlots - 1
  BY SlotArithmetic DEF TypeOK, PointerInv, Behind
<1>1. CASE HostPush
  <2>1. \A w \in Word : ~(w < 0)
    BY RingAssumption DEF Word
  <2> QED BY <1>1, <2>1 DEF ContentInv, HostPush, Waiting, Whole
<1>2. CASE HostWriteWord
  <2>1. /\ host_word \in Word /\ host_word' = host_word + 1 /\ host_pc' = "fill"
        /\ host_pc = "fill"
        /\ UNCHANGED <<write_ptr, read_ptr, submitted, accepted>>
    BY <1>2, <1>t, WordArithmetic DEF HostWriteWord
  <2>2. \A s \in Slot : s # write_ptr => slots'[s] = slots[s]
    BY <1>2, <1>t DEF HostWriteWord
  <2>3. /\ slots'[write_ptr][host_word] = submitted + 1
        /\ \A w \in Word : w # host_word => slots'[write_ptr][w] = slots[write_ptr][w]
    BY <1>2, <1>t, <2>1 DEF HostWriteWord
  <2>4. \A s \in Slot : SlotsFrom(read_ptr, s) < Waiting => s # write_ptr
    BY <1>t
  <2>5. \A w \in Word : w < host_word + 1 => w = host_word \/ w < host_word
    BY <1>t, RingAssumption DEF Word
  <2>6. \A w \in Word : w < host_word' => slots'[write_ptr][w] = submitted + 1
    BY <2>1, <2>3, <2>5 DEF ContentInv
  <2> QED BY <2>1, <2>2, <2>4, <2>6 DEF ContentInv, Waiting, Whole
<1>3. CASE HostPublish
  <2>1. /\ Waiting' = Waiting + 1 /\ host_pc' # "fill"
        /\ UNCHANGED <<slots, read_ptr, accepted>>
    BY <1>3, <1>t DEF HostPublish, Waiting
  <2>2. slots[write_ptr] = Whole(submitted + 1)
    <3>1. \A w \in Word : w < host_word
      BY <1>3, RingAssumption DEF HostPublish, Word
    <3>2. \A w \in Word : slots[write_ptr][w] = submitted + 1
      BY <1>3, <3>1 DEF HostPublish, ContentInv
    <3> QED BY <1>t, <3>2 DEF Whole
  <2>3. submitted + 1 = accepted + 1 + SlotsFrom(read_ptr, write_ptr)
    BY <1>t DEF Waiting
  <2>4. \A s \in Slot : SlotsFrom(read_ptr, s) < Waiting + 1 =>
                         SlotsFrom(read_ptr, s) < Waiting \/ s = write_ptr
    <3> TAKE s \in Slot
    <3>1. SlotsFrom(read_ptr, s) = SlotsFrom(read_ptr, write_ptr) => s = write_ptr
      BY <1>t, SlotInjective
    <3> QED BY <1>t, <3>1, RingAssumption
  <2>5. \A s \in Slot : SlotsFrom(read_ptr, s) < Waiting' =>
          slots'[s] = Whole(accepted + 1 + SlotsFrom(read_ptr, s))'
    BY <2>1, <2>2, <2>3, <2>4, ZenonT(40) DEF ContentInv, Whole
  <2> QED BY <2>1, <2>5 DEF ContentInv
<1>4. CASE Dispatch
  <2>1. /\ Waiting > 0 /\ Waiting' = Waiting - 1 /\ accepted' = accepted + 1
        /\ read_ptr' = NextSlot(read_ptr)
        /\ UNCHANGED <<slots, write_ptr, submitted, host_pc, host_word>>
    BY <1>4, <1>t DEF Dispatch, FetchInv, Waiting
  <2>2. ASSUME NEW s \in Slot, SlotsFrom(read_ptr', s) < Waiting'
        PROVE  slots'[s] = Whole(accepted' + 1 + SlotsFrom(read_ptr', s))
    <3>1. s # read_ptr
      <4>1. SUFFICES ASSUME s = read_ptr PROVE FALSE
        OBVIOUS
      <4>2. SlotsFrom(NextSlot(s), s) = RingSlots - 1
        BY RingAssumption DEF Slot, SlotsFrom, NextSlot, Inc, Dist
      <4>3. Waiting <= RingSlots - 1
        BY <1>t
      <4> QED BY <1>t, <2>1, <2>2, <4>1, <4>2, <4>3, RingAssumption
    <3>2. SlotsFrom(read_ptr', s) = SlotsFrom(read_ptr, s) - 1
      BY <1>t, <2>1, <3>1, SlotInjective
    <3>3. SlotsFrom(read_ptr, s) < Waiting
      BY <1>t, <2>1, <2>2, <3>2 DEF Waiting
    <3>4. accepted' + 1 + SlotsFrom(read_ptr', s) = accepted + 1 + SlotsFrom(read_ptr, s)
      BY <1>t, <2>1, <3>2
    <3> QED BY <2>1, <3>3, <3>4 DEF ContentInv
  <2> QED BY <2>1, <2>2 DEF ContentInv, Whole
<1>5. CASE HostProgressSample \/ HostProgressTarget \/ HostWaitPoll \/ HostTimeout
  BY <1>5, ContentFrame DEF HostProgressSample, HostProgressTarget, HostWaitPoll, HostTimeout
<1>6. ASSUME NEW m \in RetainedNumbers, HostPoll(m) \/ HostWait(m) PROVE ContentInv'
  BY <1>6, ContentFrame DEF HostPoll, HostWait
<1>7. CASE RingStartPoll \/ RingReadPointer \/ RingComparePointer \/ RingReadWord
           \/ RingStoreWord \/ RingWriteBack
  BY <1>7, ContentFrame
     DEF RingStartPoll, RingReadPointer, RingComparePointer, RingReadWord, RingStoreWord,
         RingWriteBack
<1>8. CASE EngineDone \/ CmdqIdle \/ FenceStart \/ FenceWrite \/ ControlEcho \/ UNCHANGED vars
  BY <1>8, ContentFrame DEF EngineDone, CmdqIdle, FenceStart, FenceWrite, ControlEcho
<1>9. CASE DramWrite
  BY <1>9, ContentFrame DEF DramWrite
<1> QED
  BY <1>1, <1>2, <1>3, <1>4, <1>5, <1>6, <1>7, <1>8, <1>9
     DEF Next, HostStep, CoreStep

LEMMA FetchFrame ==
    ASSUME TypeOK, FetchInv,
           UNCHANGED <<ring, accepted>>,
           submitted' = submitted \/ submitted' = submitted + 1
    PROVE  FetchInv'
BY DEF FetchInv, Waiting, Whole, TypeOK

LEMMA FetchStep ==
    ASSUME TypeOK, TransportInv, [Next]_vars
    PROVE  FetchInv'
<1> USE DEF TransportInv
<1>t. /\ read_ptr \in Slot /\ write_ptr \in Slot /\ word_idx \in Word
      /\ submitted \in Nat /\ accepted \in Nat
      /\ slot_reg \in [Word -> Nat]
      /\ SlotsFrom(read_ptr, write_ptr) = Waiting
      /\ hdr_write = write_ptr
  BY DEF TypeOK, PointerInv, Behind
<1>1. CASE RingStartPoll
  BY <1>1 DEF FetchInv, RingStartPoll
<1>2. CASE RingReadPointer
  <2>1. write_ptr = read_ptr \/ Waiting > 0
    BY <1>t, SlotArithmetic, RingAssumption DEF Waiting
  <2> QED BY <1>2, <1>t, <2>1 DEF FetchInv, RingReadPointer, Waiting
<1>3. CASE RingComparePointer
  <2>1. CASE rd_data = read_ptr
    BY <1>3, <2>1 DEF FetchInv, RingComparePointer
  <2>2. CASE rd_data # read_ptr
    <3>1. Waiting > 0 /\ \A w \in Word : ~(w < 0)
      BY <1>3, <2>2, RingAssumption DEF FetchInv, RingComparePointer, Word
    <3> QED BY <1>3, <2>2, <3>1 DEF FetchInv, RingComparePointer, Waiting
  <2> QED BY <2>1, <2>2
<1>4. CASE RingReadWord
  <2>1. Waiting > 0 /\ SlotsFrom(read_ptr, read_ptr) = 0
    BY <1>4, <1>t, SlotArithmetic DEF FetchInv, RingReadWord
  <2>2. slots[read_ptr] = Whole(accepted + 1)
    BY <1>t, <2>1 DEF ContentInv
  <2>3. slots[read_ptr][word_idx] = accepted + 1
    BY <1>t, <2>2 DEF Whole
  <2> QED BY <1>4, <2>1, <2>3 DEF FetchInv, RingReadWord, Waiting
<1>5. CASE RingStoreWord
  <2>1. /\ Waiting > 0 /\ rd_data = accepted + 1
        /\ \A w \in Word : w < word_idx => slot_reg[w] = accepted + 1
    BY <1>5 DEF FetchInv, RingStoreWord
  <2>2. /\ slot_reg'[word_idx] = accepted + 1
        /\ \A w \in Word : w # word_idx => slot_reg'[w] = slot_reg[w]
        /\ DOMAIN slot_reg' = Word /\ slot_reg' = [w \in Word |-> slot_reg'[w]]
    BY <1>5, <1>t, <2>1 DEF RingStoreWord
  <2>3. \A w \in Word : w < word_idx + 1 => slot_reg'[w] = accepted + 1
    <3>1. \A w \in Word : w < word_idx + 1 => w = word_idx \/ w < word_idx
      BY <1>t, RingAssumption DEF Word
    <3>2. \A w \in Word : w < word_idx => w # word_idx
      BY <1>t, RingAssumption DEF Word
    <3> QED BY <2>1, <2>2, <3>1, <3>2
  <2>4. CASE word_idx = SlotWords - 1
    <3>1. \A w \in Word : w < word_idx + 1
      BY <2>4, RingAssumption DEF Word
    <3>2. \A w \in Word : slot_reg'[w] = accepted + 1
      BY <2>3, <3>1
    <3>3. slot_reg' = Whole(accepted + 1)
      BY <2>2, <3>2 DEF Whole
    <3> QED BY <1>5, <2>1, <2>4, <3>3 DEF FetchInv, RingStoreWord, Waiting, Whole
  <2>5. CASE word_idx # SlotWords - 1
    BY <1>5, <2>1, <2>3, <2>5 DEF FetchInv, RingStoreWord, Waiting
  <2> QED BY <2>4, <2>5
<1>6. CASE Dispatch
  BY <1>6 DEF FetchInv, Dispatch
<1>7. CASE RingWriteBack
  BY <1>7 DEF FetchInv, RingWriteBack
<1>8. CASE HostPush \/ HostWriteWord \/ HostProgressSample \/ HostProgressTarget
           \/ HostWaitPoll \/ HostTimeout
  BY <1>8, FetchFrame
     DEF HostPush, HostWriteWord, HostProgressSample, HostProgressTarget, HostWaitPoll,
         HostTimeout
<1>9. CASE HostPublish
  BY <1>9, FetchFrame DEF HostPublish
<1>10. ASSUME NEW m \in RetainedNumbers, HostPoll(m) \/ HostWait(m) PROVE FetchInv'
  BY <1>10, FetchFrame DEF HostPoll, HostWait
<1>11. CASE EngineDone \/ CmdqIdle \/ FenceStart \/ FenceWrite \/ ControlEcho \/ UNCHANGED vars
  BY <1>11, FetchFrame DEF EngineDone, CmdqIdle, FenceStart, FenceWrite, ControlEcho
<1>12. CASE DramWrite
  BY <1>12, FetchFrame DEF DramWrite
<1> QED
  BY <1>1, <1>2, <1>3, <1>4, <1>5, <1>6, <1>7, <1>8, <1>9, <1>10, <1>11, <1>12
     DEF Next, HostStep, CoreStep

LEMMA EngineStep ==
    ASSUME TypeOK, TransportInv, [Next]_vars
    PROVE  EngineInv'
<1> USE DEF TransportInv, EngineInv, Whole
<1>1. CASE Dispatch
  BY <1>1 DEF Dispatch, CmdReady, FetchInv, TypeOK
<1>2. CASE EngineDone
  BY <1>2 DEF EngineDone
<1>3. CASE CmdqIdle
  BY <1>3 DEF CmdqIdle
<1>4. CASE HostStep
  BY <1>4 DEF HostStep, HostPush, HostWriteWord, HostPublish, HostPoll, HostWait,
       HostProgressSample, HostProgressTarget, HostWaitPoll, HostTimeout
<1>5. CASE RingStartPoll \/ RingReadPointer \/ RingComparePointer \/ RingReadWord
           \/ RingStoreWord \/ RingWriteBack
  BY <1>5
     DEF RingStartPoll, RingReadPointer, RingComparePointer, RingReadWord, RingStoreWord,
         RingWriteBack
<1>6. CASE FenceStart \/ FenceWrite \/ ControlEcho \/ DramWrite \/ UNCHANGED vars
  BY <1>6 DEF FenceStart, FenceWrite, ControlEcho, DramWrite
<1> QED
  BY <1>1, <1>2, <1>3, <1>4, <1>5, <1>6 DEF Next, CoreStep

LEMMA TransportStep == TypeOK /\ TransportInv /\ [Next]_vars => TransportInv'
BY PointerStep, ContentStep, FetchStep, EngineStep DEF TransportInv

\* Where every submitted command is, at any time: in its slot, in the fetch
\* register or in the engine, with the copies of the read pointer in order.
THEOREM TransportCorrect == Spec => []TransportInv
BY TransportInit, TransportStep, TypeCorrect, PTL DEF Spec

\* cmdq is only ever offered the next submitted command, whole: no store of
\* the host and no lagging read pointer can tear, skip or repeat one.
THEOREM NoTornCommand == Spec => []DispatchedWhole
<1>1. TransportInv => DispatchedWhole
  BY DEF TransportInv, FetchInv, DispatchedWhole, Whole
<1> QED BY <1>1, TransportCorrect, PTL

\* Equal header pointers mean that every published command was accepted.
THEOREM NeverFullAndEqual == Spec => []EqualPointersMeanEmpty
<1>1. TypeOK /\ TransportInv => EqualPointersMeanEmpty
  <2> SUFFICES ASSUME TypeOK, TransportInv, hdr_write = hdr_read PROVE accepted = submitted
    BY DEF EqualPointersMeanEmpty
  <2>1. /\ read_ptr \in Slot /\ write_ptr \in Slot /\ hdr_read \in Slot
        /\ submitted \in Nat /\ accepted \in Nat
    BY DEF TypeOK
  <2>2. /\ SlotsFrom(hdr_read, write_ptr) = 0
        /\ SlotsFrom(read_ptr, write_ptr) \in 0 .. RingSlots - 1
        /\ SlotsFrom(read_ptr, write_ptr) = Waiting
        /\ SlotsFrom(read_ptr, write_ptr) <= SlotsFrom(hdr_read, write_ptr)
    <3>1. hdr_read = write_ptr
      BY DEF TransportInv, PointerInv
    <3>2. SlotsFrom(hdr_read, write_ptr) = 0
      BY <2>1, <3>1, SlotArithmetic
    <3>3. SlotsFrom(read_ptr, write_ptr) \in 0 .. RingSlots - 1
      BY <2>1, SlotArithmetic
    <3>4. /\ SlotsFrom(read_ptr, write_ptr) = Waiting
          /\ SlotsFrom(read_ptr, write_ptr) <= SlotsFrom(hdr_read, write_ptr)
      BY DEF TransportInv, PointerInv, Behind
    <3> QED BY <3>2, <3>3, <3>4
  <2> QED BY <2>1, <2>2, RingAssumption DEF Waiting
<1> QED BY <1>1, TypeCorrect, TransportCorrect, PTL

\* The slot of a published command that was not yet handed over is never
\* stored into.
THEOREM NeverOverwritten == Spec => SlotKeptUntilFetched
<1>1. ASSUME TypeOK, TransportInv, [Next]_vars
      PROVE  [\A s \in Slot : SlotsFrom(read_ptr, s) < submitted - accepted
                 => slots'[s] = slots[s]]_vars
  <2>1. submitted - accepted = SlotsFrom(read_ptr, write_ptr)
    BY <1>1 DEF TransportInv, PointerInv, Behind, Waiting
  <2>2. CASE HostWriteWord
    <3>1. read_ptr \in Slot /\ write_ptr \in Slot /\ slots \in [Slot -> [Word -> Nat]]
      BY <1>1 DEF TypeOK
    <3>2. \A s \in Slot : SlotsFrom(read_ptr, s) < SlotsFrom(read_ptr, write_ptr) => s # write_ptr
      BY <3>1, SlotDistance
    <3>3. \A s \in Slot : s # write_ptr => slots'[s] = slots[s]
      BY <2>2, <3>1 DEF HostWriteWord
    <3>4. \A s \in Slot : SlotsFrom(read_ptr, s) < submitted - accepted => s # write_ptr
      BY <2>1, <3>2
    <3> QED BY <3>3, <3>4
  <2>3. CASE ~HostWriteWord
    <3>1. slots' = slots
      BY <1>1, <2>3
         DEF Next, HostStep, CoreStep, HostPush, HostPublish, HostPoll, HostWait,
             HostProgressSample, HostProgressTarget, HostWaitPoll, HostTimeout,
             RingStartPoll, RingReadPointer, RingComparePointer, RingReadWord, RingStoreWord,
             Dispatch, RingWriteBack, EngineDone, CmdqIdle, FenceStart, FenceWrite,
             ControlEcho, DramWrite
    <3> QED BY <3>1
  <2> QED BY <2>2, <2>3
<1> QED BY <1>1, TypeCorrect, TransportCorrect, PTL DEF Spec, SlotKeptUntilFetched

-----------------------------------------------------------------------------
(* How old the copies of the completion count are.                         *)

Unseen(v) == CountFrom(v, last_fence)
Counts == {i \in 1 .. Len(write_queue) : write_queue[i].reg = "fence"}

\* From newest to oldest: the count itself, the write being requested, the
\* queued writes from the last to the first, the fence word, the confirmed
\* count.  Nothing was reported beyond the confirmed count.
AgeInv ==
    /\ Unseen(done_count) = submitted - completed
    /\ Unseen(done_count) <= Unseen(hdr_fence)
    /\ Unseen(hdr_fence) <= Unseen(confirmed_done)
    /\ Unseen(confirmed_done) <= MaxUnconfirmed
    /\ \A i \in Counts : /\ Unseen(done_count) <= Unseen(write_queue[i].val)
                        /\ Unseen(write_queue[i].val) <= Unseen(hdr_fence)
    /\ \A i, j \in Counts :
          i < j => Unseen(write_queue[j].val) <= Unseen(write_queue[i].val)
    /\ fence_state = "WRITE_REQ" =>
          /\ Unseen(done_count) <= Unseen(write_value)
          /\ Unseen(write_value) <= Unseen(hdr_fence)
          /\ \A i \in Counts : Unseen(write_value) <= Unseen(write_queue[i].val)

CallInv ==
    /\ observed <= submitted - Unseen(confirmed_done)
    /\ host_pc = "fill" => Unseen(confirmed_done) < MaxUnconfirmed
    /\ host_pc = "progress" => /\ Unseen(hdr_fence) <= Unseen(host_raw)
                               /\ Unseen(host_raw) <= Unseen(confirmed_done)
    /\ host_pc = "wait" => Unseen(wait_target) <= HalfRange

CountInv == AgeInv /\ CallInv

LEMMA UnseenType ==
    ASSUME TypeOK
    PROVE  /\ last_fence \in Fence /\ hdr_fence \in Fence /\ confirmed_done \in Fence
           /\ done_count \in Fence /\ write_value \in Fence /\ host_raw \in Fence
           /\ wait_target \in Fence
           /\ submitted \in Nat /\ completed \in Nat /\ observed \in Nat
           /\ \A v \in Fence : Unseen(v) \in 0 .. FenceMod - 1 /\ Unseen(v) \in Nat
           /\ \A i \in Counts : i \in 1 .. Len(write_queue) /\ write_queue[i].val \in Fence
<1>1. /\ last_fence \in Fence /\ hdr_fence \in Fence /\ confirmed_done \in Fence
      /\ done_count \in Fence /\ write_value \in Fence /\ host_raw \in Fence
      /\ wait_target \in Fence
      /\ submitted \in Nat /\ completed \in Nat /\ observed \in Nat
  BY DEF TypeOK
<1>2. \A v \in Fence : Unseen(v) \in 0 .. FenceMod - 1
  BY <1>1, FenceArithmetic DEF Unseen
<1>3. \A v \in Fence : Unseen(v) \in Nat
  BY <1>2, FenceModPositive
<1>4. \A e \in QueuedWrite : e.reg = "fence" => e.val \in Fence
  BY DEF QueuedWrite
<1>5. \A i \in Counts : i \in 1 .. Len(write_queue) /\ write_queue[i].val \in Fence
  BY <1>4, QueueFacts DEF Counts
<1> QED BY <1>1, <1>2, <1>3, <1>5

\* Whether the comparison of the SDK is right for a count that is at most half
\* the range behind the last token.
LEMMA Comparison ==
    ASSUME TypeOK, NEW c \in Fence, NEW t \in Fence, Unseen(c) <= HalfRange
    PROVE  /\ ReachedBy(c, t) => Unseen(t) >= Unseen(c)
           /\ Unseen(t) >= Unseen(c) => CountFrom(t, c) = Unseen(t) - Unseen(c)
<1>1. last_fence \in Fence
  BY DEF TypeOK
<1> QED
  BY <1>1, FenceAssumption DEF Unseen, ReachedBy, CountFrom, Dist, Fence, FenceMod

\* What a poll that reports its target complete has established.
LEMMA PollSound ==
    ASSUME Confirming, TypeOK, CountInv, NEW t \in Fence, PollComplete(t)
    PROVE  /\ confirmed_done' = confirmed_done \/ confirmed_done' = hdr_fence
           /\ Unseen(confirmed_done)' = CountFrom(confirmed_done', last_fence')
           /\ CountFrom(confirmed_done', last_fence) <= Unseen(confirmed_done)
           /\ observed' <= submitted - CountFrom(confirmed_done', last_fence)
<1>1. /\ Unseen(confirmed_done) \in Nat /\ Unseen(hdr_fence) \in Nat /\ Unseen(t) \in Nat
      /\ confirmed_done \in Fence /\ hdr_fence \in Fence
      /\ submitted \in Nat /\ observed \in Nat
  BY UnseenType
<1>2. /\ Unseen(hdr_fence) <= Unseen(confirmed_done)
      /\ Unseen(confirmed_done) <= HalfRange /\ Unseen(hdr_fence) <= HalfRange
      /\ observed <= submitted - Unseen(confirmed_done)
  BY <1>1, FenceAssumption DEF CountInv, AgeInv, CallInv, Confirming
<1>3. /\ NumberOf(t) = submitted - Unseen(t)
      /\ observed' = NumberOf(t) \/ observed' = observed
  BY DEF NumberOf, Unseen, PollComplete
<1>4. CASE PollConfirmed(t)
  <2>1. Unseen(t) >= Unseen(confirmed_done) /\ confirmed_done' = confirmed_done
    BY <1>1, <1>2, <1>4, Comparison DEF PollConfirmed, ConfirmedReached
  <2> QED BY <1>1, <1>2, <1>3, <2>1 DEF Unseen
<1>5. CASE PollRaw(t)
  <2>1. Unseen(t) >= Unseen(hdr_fence) /\ confirmed_done' = hdr_fence
    BY <1>1, <1>2, <1>5, Comparison DEF PollRaw, RawReached
  <2> QED BY <1>1, <1>2, <1>3, <2>1 DEF Unseen
<1> QED BY <1>4, <1>5 DEF PollComplete

LEMMA CountInit == Init => CountInv
<1> SUFFICES ASSUME Init PROVE CountInv
  OBVIOUS
<1>1. /\ last_fence \in Fence /\ done_count = last_fence /\ hdr_fence = last_fence
      /\ confirmed_done = last_fence
  BY FenceAssumption DEF Init
<1>2. Unseen(last_fence) = 0
  BY <1>1, FenceArithmetic DEF Unseen
<1>3. Counts = {}
  BY DEF Init, Counts
<1> QED BY <1>1, <1>2, <1>3, FenceAssumption DEF Init, CountInv, AgeInv, CallInv

\* Steps that leave every count and the write queue alone.
LEMMA AgeFrame ==
    ASSUME AgeInv,
           UNCHANGED <<last_fence, hdr_fence, confirmed_done, write_queue, done_count,
                       write_value, submitted, completed>>,
           fence_state' = "WRITE_REQ" => fence_state = "WRITE_REQ"
    PROVE  AgeInv'
BY DEF AgeInv, Unseen, Counts

\* Confirming a newer count.
LEMMA AgePoll ==
    ASSUME TypeOK, AgeInv,
           UNCHANGED <<last_fence, hdr_fence, write_queue, done_count,
                       write_value, submitted, completed, fence_state>>,
           confirmed_done' = confirmed_done \/ confirmed_done' = hdr_fence
    PROVE  AgeInv'
<1>1. Unseen(confirmed_done) \in Nat /\ Unseen(hdr_fence) \in Nat
  BY UnseenType
<1>2. /\ Unseen(hdr_fence)' <= Unseen(confirmed_done)'
      /\ Unseen(confirmed_done)' <= MaxUnconfirmed
  BY <1>1, FenceAssumption DEF AgeInv, Unseen
<1> QED BY <1>2 DEF AgeInv, Unseen, Counts

LEMMA PollAge ==
    ASSUME AgeInv, TypeOK, NEW t \in Fence,
           PollComplete(t) \/ PollChallenge(t)
    PROVE  confirmed_done' = confirmed_done \/ confirmed_done' = hdr_fence
BY DEF PollComplete, PollChallenge, PollConfirmed, PollRaw

LEMMA AgeStep ==
    ASSUME Confirming, TypeOK, TransportInv, CountInv, [Next]_vars
    PROVE  AgeInv'
<1> USE DEF CountInv
<1>t. /\ \A v \in Fence : Unseen(v) \in Nat
      /\ \A i \in Counts : i \in 1 .. Len(write_queue) /\ write_queue[i].val \in Fence
      /\ last_fence \in Fence /\ hdr_fence \in Fence /\ confirmed_done \in Fence
      /\ done_count \in Fence /\ write_value \in Fence
      /\ submitted \in Nat /\ completed \in Nat
      /\ MaxUnconfirmed \in Nat
  BY UnseenType, FenceAssumption
<1>1. CASE HostPublish
  <2>1. Unseen(confirmed_done) < FenceMod - 1
    BY <1>1, <1>t, FenceAssumption DEF HostPublish, CallInv, Confirming, FenceMod
  <2>2. \A v \in Fence : Unseen(v) <= Unseen(confirmed_done) =>
                            Unseen(v)' = Unseen(v) + 1
    <3> TAKE v \in Fence
    <3> SUFFICES ASSUME Unseen(v) <= Unseen(confirmed_done) PROVE Unseen(v)' = Unseen(v) + 1
      OBVIOUS
    <3>1. Unseen(v) < FenceMod - 1
      BY <1>t, <2>1, FenceModPositive
    <3> QED BY <1>1, <1>t, <3>1, FenceArithmetic DEF Unseen, HostPublish
  <2>3. /\ UNCHANGED <<hdr_fence, confirmed_done, write_queue, done_count, write_value,
                       completed, fence_state>>
        /\ submitted' = submitted + 1 /\ Counts' = Counts
    BY <1>1 DEF HostPublish, Counts
  <2>4. /\ Unseen(done_count)' = Unseen(done_count) + 1
        /\ Unseen(hdr_fence)' = Unseen(hdr_fence) + 1
        /\ Unseen(confirmed_done)' = Unseen(confirmed_done) + 1
    <3>1. /\ Unseen(done_count) <= Unseen(confirmed_done)
          /\ Unseen(hdr_fence) <= Unseen(confirmed_done)
      BY <1>t DEF AgeInv
    <3> QED BY <1>t, <2>2, <2>3, <3>1 DEF Unseen
  <2>5. \A i \in Counts : Unseen(write_queue[i].val)' = Unseen(write_queue[i].val) + 1
    <3> TAKE i \in Counts
    <3>1. Unseen(write_queue[i].val) <= Unseen(confirmed_done) /\ write_queue[i].val \in Fence
      BY <1>t DEF AgeInv
    <3> QED BY <2>2, <2>3, <3>1 DEF Unseen
  <2>6. fence_state = "WRITE_REQ" => Unseen(write_value)' = Unseen(write_value) + 1
    <3>1. fence_state = "WRITE_REQ" => Unseen(write_value) <= Unseen(confirmed_done)
      BY <1>t DEF AgeInv
    <3> QED BY <1>t, <2>2, <2>3, <3>1 DEF Unseen
  <2>7. Unseen(confirmed_done) < MaxUnconfirmed
    BY <1>1 DEF HostPublish, CallInv
  <2>8. /\ Unseen(done_count)' = (submitted - completed)'
        /\ Unseen(done_count)' <= Unseen(hdr_fence)'
        /\ Unseen(hdr_fence)' <= Unseen(confirmed_done)'
        /\ Unseen(confirmed_done)' <= MaxUnconfirmed
    BY <1>t, <2>3, <2>4, <2>7 DEF AgeInv
  <2>9. \A i \in Counts : /\ Unseen(done_count)' <= Unseen(write_queue[i].val)'
                         /\ Unseen(write_queue[i].val)' <= Unseen(hdr_fence)'
    BY <1>t, <2>4, <2>5, SMTT(20) DEF AgeInv
  <2>10. \A i, j \in Counts :
           i < j => Unseen(write_queue[j].val)' <= Unseen(write_queue[i].val)'
    <3> SUFFICES ASSUME NEW i \in Counts, NEW j \in Counts, i < j
                 PROVE  Unseen(write_queue[j].val)' <= Unseen(write_queue[i].val)'
      OBVIOUS
    <3>1. Unseen(write_queue[j].val) <= Unseen(write_queue[i].val)
      BY DEF AgeInv
    <3>2. Unseen(write_queue[i].val) \in Nat /\ Unseen(write_queue[j].val) \in Nat
      BY <1>t
    <3>3. /\ Unseen(write_queue[i].val)' = Unseen(write_queue[i].val) + 1
          /\ Unseen(write_queue[j].val)' = Unseen(write_queue[j].val) + 1
      BY <2>5
    <3> HIDE DEF Unseen, Counts
    <3> QED BY <3>1, <3>2, <3>3
  <2>11. fence_state' = "WRITE_REQ" =>
           /\ Unseen(done_count)' <= Unseen(write_value)'
           /\ Unseen(write_value)' <= Unseen(hdr_fence)'
           /\ \A i \in Counts : Unseen(write_value)' <= Unseen(write_queue[i].val)'
    BY <1>t, <2>3, <2>4, <2>5, <2>6, SMTT(20) DEF AgeInv
  <2> QED BY <2>3, <2>8, <2>9, <2>10, <2>11 DEF AgeInv
<1>2. CASE EngineDone
  <2>1. Unseen(done_count) > 0
    <3>1. accepted = completed + 1 /\ Behind(read_ptr) = submitted - accepted
      BY <1>2 DEF EngineDone, TransportInv, EngineInv, PointerInv, Waiting
    <3>2. Behind(read_ptr) \in Nat /\ accepted \in Nat
      <4>1. read_ptr \in Slot /\ write_ptr \in Slot /\ accepted \in Nat
        BY DEF TypeOK
      <4>2. Behind(read_ptr) \in 0 .. RingSlots - 1
        BY <4>1, SlotArithmetic DEF Behind
      <4> QED BY <4>1, <4>2, RingAssumption
    <3> QED BY <1>t, <3>1, <3>2 DEF AgeInv
  <2>2. Unseen(done_count)' = Unseen(done_count) - 1
    BY <1>2, <1>t, <2>1, FenceArithmetic DEF EngineDone, Unseen
  <2>3. /\ UNCHANGED <<hdr_fence, confirmed_done, write_queue, write_value, last_fence,
                       submitted, fence_state>>
        /\ completed' = completed + 1 /\ Counts' = Counts
    BY <1>2 DEF EngineDone, Counts
  <2>4. \A v \in Fence : Unseen(v)' = Unseen(v)
    BY <2>3 DEF Unseen
  <2>5. /\ Unseen(hdr_fence)' = Unseen(hdr_fence)
        /\ Unseen(confirmed_done)' = Unseen(confirmed_done)
        /\ Unseen(write_value)' = Unseen(write_value)
        /\ \A i \in Counts : Unseen(write_queue[i].val)' = Unseen(write_queue[i].val)
    BY <2>3 DEF Unseen
  <2> QED BY <1>t, <2>2, <2>3, <2>5 DEF AgeInv
<1>3. CASE FenceStart
  <2>1. /\ UNCHANGED <<hdr_fence, confirmed_done, write_queue, last_fence, done_count,
                       submitted, completed>>
        /\ write_value' = done_count /\ Counts' = Counts
    BY <1>3 DEF FenceStart, Counts
  <2>2. Unseen(write_value)' = Unseen(done_count)
    BY <2>1 DEF Unseen
  <2> QED BY <1>t, <2>1, <2>2 DEF AgeInv, Unseen
<1>4. CASE FenceWrite
  <2> DEFINE n == Len(write_queue)
  <2>1. /\ n \in Nat /\ Len(write_queue') = n + 1
        /\ \A i \in 1 .. n : write_queue'[i] = write_queue[i]
        /\ write_queue'[n + 1] = [reg |-> "fence", val |-> write_value]
    BY <1>4, QueueFacts DEF FenceWrite, TypeOK
  <2>2. Counts' = Counts \cup {n + 1} /\ \A i \in Counts : i \in 1 .. n
    BY <2>1 DEF Counts
  <2>3. /\ UNCHANGED <<hdr_fence, confirmed_done, last_fence, done_count, write_value,
                       submitted, completed>>
        /\ fence_state = "WRITE_REQ" /\ fence_state' # "WRITE_REQ"
    BY <1>4 DEF FenceWrite
  <2>4. \A i \in Counts' :
           \/ i \in Counts /\ write_queue'[i].val = write_queue[i].val
           \/ i = n + 1 /\ write_queue'[i].val = write_value
    <3>1. \A i \in Counts : write_queue'[i] = write_queue[i]
      BY <2>1 DEF Counts
    <3>2. write_queue'[n + 1].val = write_value
      BY <2>1
    <3> QED BY <2>2, <3>1, <3>2
  <2> QED BY <1>t, <2>1, <2>2, <2>3, <2>4 DEF AgeInv, Unseen
<1>5. CASE RingWriteBack
  <2> DEFINE n == Len(write_queue)
  <2>1. /\ n \in Nat /\ Len(write_queue') = n + 1
        /\ \A i \in 1 .. n : write_queue'[i] = write_queue[i]
        /\ write_queue'[n + 1].reg = "read_ptr"
    BY <1>5, QueueFacts DEF RingWriteBack, TypeOK
  <2>2. Counts' = Counts /\ \A i \in Counts : write_queue'[i] = write_queue[i]
    BY <2>1 DEF Counts
  <2>3. UNCHANGED <<hdr_fence, confirmed_done, last_fence, done_count, write_value,
                    submitted, completed, fence_state>>
    BY <1>5 DEF RingWriteBack
  <2> QED BY <2>2, <2>3 DEF AgeInv, Unseen
<1>6. CASE DramWrite
  <2> DEFINE n == Len(write_queue)
  <2>1. /\ n \in Nat /\ n > 0 /\ Len(write_queue') = n - 1
        /\ \A i \in 1 .. n - 1 : write_queue'[i] = write_queue[i + 1]
        /\ Head(write_queue) = write_queue[1]
    BY <1>6, QueueFacts DEF DramWrite, TypeOK
  <2>2. \A i \in Counts' : /\ i + 1 \in Counts /\ 1 < i + 1 /\ i \in Nat
                          /\ write_queue'[i] = write_queue[i + 1]
    BY <2>1 DEF Counts
  <2>3. UNCHANGED <<confirmed_done, last_fence, done_count, write_value, submitted,
                    completed, fence_state>>
    BY <1>6 DEF DramWrite
  <2>4. /\ write_queue[1].reg = "fence" => hdr_fence' = write_queue[1].val
        /\ write_queue[1].reg # "fence" => hdr_fence' = hdr_fence
    BY <1>6, <2>1 DEF DramWrite
  <2>5. CASE write_queue[1].reg = "fence"
    <3>1. 1 \in Counts /\ hdr_fence' = write_queue[1].val
      BY <2>1, <2>4, <2>5 DEF Counts
    <3>2. /\ Unseen(done_count) <= Unseen(hdr_fence)'
          /\ Unseen(hdr_fence)' <= Unseen(hdr_fence)
          /\ Unseen(hdr_fence)' = Unseen(write_queue[1].val)
      BY <2>3, <3>1 DEF AgeInv, Unseen
    <3>3. \A i \in Counts' : Unseen(write_queue[i + 1].val) <= Unseen(hdr_fence)'
      BY <2>2, <3>1, <3>2 DEF AgeInv
    <3>4. fence_state = "WRITE_REQ" => Unseen(write_value) <= Unseen(hdr_fence)'
      BY <3>1, <3>2 DEF AgeInv
    <3>5. Unseen(hdr_fence)' <= Unseen(confirmed_done)
      BY <1>t, <3>1, <3>2 DEF AgeInv
    <3> QED BY <2>2, <2>3, <3>2, <3>3, <3>4, <3>5 DEF AgeInv, Unseen
  <2>6. CASE write_queue[1].reg # "fence"
    BY <2>2, <2>3, <2>4, <2>6 DEF AgeInv, Unseen
  <2> QED BY <2>5, <2>6
<1>7. ASSUME NEW m \in RetainedNumbers, HostPoll(m) PROVE AgeInv'
  <2>1. TokenOf(m) \in Fence
    BY TokenType
  <2> QED BY <1>7, <2>1, PollAge, AgePoll DEF HostPoll
<1>8. CASE HostWaitPoll
  <2>1. wait_target \in Fence
    BY DEF TypeOK
  <2> QED BY <1>8, <2>1, PollAge, AgePoll DEF HostWaitPoll
<1>9. ASSUME NEW m \in RetainedNumbers, HostWait(m) PROVE AgeInv'
  BY <1>9, AgeFrame DEF HostWait
<1>10. CASE HostPush \/ HostWriteWord \/ HostProgressSample \/ HostProgressTarget \/ HostTimeout
  BY <1>10, AgeFrame
     DEF HostPush, HostWriteWord, HostProgressSample, HostProgressTarget, HostTimeout
<1>11. CASE RingStartPoll \/ RingReadPointer \/ RingComparePointer \/ RingReadWord
            \/ RingStoreWord \/ Dispatch
  BY <1>11, AgeFrame
     DEF RingStartPoll, RingReadPointer, RingComparePointer, RingReadWord, RingStoreWord,
         Dispatch
<1>12. CASE CmdqIdle \/ ControlEcho \/ UNCHANGED vars
  BY <1>12, AgeFrame DEF CmdqIdle, ControlEcho
<1> QED
  BY <1>1, <1>2, <1>3, <1>4, <1>5, <1>6, <1>7, <1>8, <1>9, <1>10, <1>11, <1>12
     DEF Next, HostStep, CoreStep

\* Steps of the core that only move counts the SDK has not looked at.
LEMMA CallFrame ==
    ASSUME CallInv,
           UNCHANGED <<last_fence, confirmed_done, host_raw, wait_target, submitted,
                       observed, hdr_fence, host_pc>>
    PROVE  CallInv'
BY DEF CallInv, Unseen

LEMMA CallStep ==
    ASSUME Confirming, TypeOK, CountInv, [Next]_vars
    PROVE  CallInv'
<1>t. /\ \A v \in Fence : Unseen(v) \in Nat /\ Unseen(v) \in 0 .. FenceMod - 1
      /\ last_fence \in Fence /\ hdr_fence \in Fence /\ confirmed_done \in Fence
      /\ host_raw \in Fence /\ wait_target \in Fence
      /\ submitted \in Nat /\ observed \in Nat
      /\ MaxUnconfirmed \in Nat /\ HalfRange \in Nat /\ MaxUnconfirmed <= HalfRange
  BY UnseenType, FenceAssumption DEF Confirming
<1>a. /\ Unseen(hdr_fence) <= Unseen(confirmed_done)
      /\ Unseen(confirmed_done) <= MaxUnconfirmed
  BY DEF CountInv, AgeInv
<1>c. CallInv
  BY DEF CountInv
<1>1. CASE HostPush
  BY <1>1, <1>c DEF HostPush, CallInv, Unseen
<1>2. CASE HostPublish
  <2>1. Unseen(confirmed_done) < MaxUnconfirmed
    BY <1>2, <1>c DEF HostPublish, CallInv
  <2>2. Unseen(confirmed_done) < FenceMod - 1
    BY <1>t, <2>1, FenceAssumption DEF FenceMod
  <2>3. Unseen(confirmed_done)' = Unseen(confirmed_done) + 1
    BY <1>2, <1>t, <2>2, FenceArithmetic DEF HostPublish, Unseen
  <2> QED BY <1>2, <1>t, <1>c, <2>3 DEF HostPublish, CallInv
<1>3. ASSUME NEW m \in RetainedNumbers, HostPoll(m) PROVE CallInv'
  <2>1. TokenOf(m) \in Fence
    BY TokenType
  <2>2. CASE PollComplete(TokenOf(m))
    BY <1>3, <1>t, <1>c, <2>1, <2>2, PollSound DEF HostPoll, CallInv, Unseen
  <2>3. CASE PollChallenge(TokenOf(m)) /\ UNCHANGED observed
    BY <1>3, <1>c, <2>3 DEF HostPoll, PollChallenge, CallInv, Unseen
  <2> QED BY <1>3, <2>2, <2>3 DEF HostPoll
<1>4. CASE HostWaitPoll
  <2>1. CASE PollComplete(wait_target) /\ host_pc' = "idle"
    BY <1>4, <1>t, <1>c, <2>1, PollSound DEF HostWaitPoll, CallInv, Unseen
  <2>2. CASE PollChallenge(wait_target) /\ UNCHANGED <<observed, host_pc>>
    BY <1>4, <1>c, <2>2 DEF HostWaitPoll, PollChallenge, CallInv, Unseen
  <2> QED BY <1>4, <2>1, <2>2 DEF HostWaitPoll
<1>5. ASSUME NEW m \in RetainedNumbers, HostWait(m) PROVE CallInv'
  <2>1. Unseen(TokenOf(m)) <= HalfRange
    BY <1>t, TokenType DEF Unseen
  <2> QED BY <1>5, <1>c, <2>1 DEF HostWait, CallInv, Unseen
<1>6. CASE HostProgressSample
  <2>1. Unseen(host_raw)' = Unseen(hdr_fence) /\ Unseen(hdr_fence)' = Unseen(hdr_fence)
    BY <1>6 DEF HostProgressSample, Unseen
  <2>2. Unseen(confirmed_done)' = Unseen(confirmed_done)
    BY <1>6 DEF HostProgressSample, Unseen
  <2> QED BY <1>6, <1>t, <1>a, <1>c, <2>1, <2>2 DEF HostProgressSample, CallInv
<1>7. CASE HostProgressTarget
  <2>1. /\ Unseen(hdr_fence) <= Unseen(host_raw)
        /\ Unseen(host_raw) <= HalfRange
    BY <1>7, <1>t, <1>a, <1>c DEF HostProgressTarget, CallInv
  <2>2. Unseen(wait_target') <= HalfRange
    <3>1. CASE RawReached(last_fence)
      <4>1. wait_target' = last_fence /\ Unseen(last_fence) = 0
        BY <1>7, <1>t, <3>1, FenceArithmetic DEF HostProgressTarget, Unseen
      <4> QED BY <1>t, <4>1
    <3>2. CASE ~RawReached(last_fence)
      <4>1. Unseen(hdr_fence) > 0
        <5>1. SUFFICES ASSUME Unseen(hdr_fence) = 0 PROVE FALSE
          BY <1>t
        <5>2. hdr_fence = last_fence
          BY <1>t, <5>1, FenceArithmetic DEF Unseen
        <5>3. CountFrom(last_fence, hdr_fence) = 0
          BY <1>t, <5>2, FenceArithmetic
        <5> QED BY <3>2, <5>3, FenceAssumption DEF RawReached, ReachedBy
      <4>2. Unseen(host_raw) > 0
        BY <1>t, <2>1, <4>1
      <4>3. Unseen(Inc(host_raw, FenceMod)) = Unseen(host_raw) - 1
        BY <1>t, <4>2, FenceArithmetic DEF Unseen
      <4>4. wait_target' = Inc(host_raw, FenceMod)
        BY <1>7, <3>2 DEF HostProgressTarget
      <4> QED BY <1>t, <2>1, <4>3, <4>4
    <3> QED BY <3>1, <3>2
  <2>3. UNCHANGED <<last_fence, confirmed_done, submitted, observed>> /\ host_pc' = "wait"
    BY <1>7 DEF HostProgressTarget
  <2> QED BY <1>c, <2>2, <2>3 DEF CallInv, Unseen
<1>8. CASE HostWriteWord \/ HostTimeout
  BY <1>8, <1>c DEF HostWriteWord, HostTimeout, CallInv, Unseen
<1>9. CASE RingStartPoll \/ RingReadPointer \/ RingComparePointer \/ RingReadWord
           \/ RingStoreWord \/ Dispatch \/ RingWriteBack
  BY <1>9, <1>c, CallFrame
     DEF RingStartPoll, RingReadPointer, RingComparePointer, RingReadWord, RingStoreWord,
         Dispatch, RingWriteBack
<1>10. CASE EngineDone \/ CmdqIdle \/ FenceStart \/ FenceWrite \/ ControlEcho \/ UNCHANGED vars
  BY <1>10, <1>c, CallFrame DEF EngineDone, CmdqIdle, FenceStart, FenceWrite, ControlEcho
<1>11. CASE DramWrite
  <2>1. UNCHANGED <<last_fence, confirmed_done, host_raw, wait_target, submitted, observed,
                    host_pc>>
    BY <1>11 DEF DramWrite
  <2>2. host_pc = "progress" => Unseen(hdr_fence)' <= Unseen(host_raw)
    <3> SUFFICES ASSUME host_pc = "progress" PROVE Unseen(hdr_fence)' <= Unseen(host_raw)
      OBVIOUS
    <3>1. Unseen(hdr_fence)' <= Unseen(hdr_fence)
      <4> DEFINE n == Len(write_queue)
      <4>1. n > 0 /\ n \in Nat /\ Head(write_queue) = write_queue[1]
        BY <1>11, QueueFacts DEF DramWrite, TypeOK
      <4>2. \/ hdr_fence' = hdr_fence
            \/ 1 \in Counts /\ hdr_fence' = write_queue[1].val
        BY <1>11, <4>1 DEF DramWrite, Counts
      <4>3. 1 \in Counts => Unseen(write_queue[1].val) <= Unseen(hdr_fence)
        BY DEF CountInv, AgeInv
      <4>4. Unseen(hdr_fence)' = Unseen(hdr_fence')
        BY <2>1 DEF Unseen
      <4> QED BY <1>t, <4>2, <4>3, <4>4
    <3>2. Unseen(hdr_fence) <= Unseen(host_raw)
      BY <1>c DEF CallInv
    <3>3. hdr_fence' \in Fence
      BY <1>11, TypeStep DEF TypeOK
    <3>4. Unseen(hdr_fence)' \in Nat
      <4>1. Unseen(hdr_fence') \in Nat
        BY <1>t, <3>3
      <4> QED BY <2>1, <4>1 DEF Unseen
    <3> QED BY <1>t, <3>1, <3>2, <3>4
  <2> QED BY <1>c, <2>1, <2>2 DEF CallInv, Unseen
<1> QED
  BY <1>1, <1>2, <1>3, <1>4, <1>5, <1>6, <1>7, <1>8, <1>9, <1>10, <1>11
     DEF Next, HostStep, CoreStep

LEMMA CountStep ==
    ASSUME Confirming
    PROVE  TypeOK /\ TransportInv /\ CountInv /\ [Next]_vars => CountInv'
BY AgeStep, CallStep DEF CountInv

\* How old every copy of the completion count is, at any time, for an
\* application that has a token confirmed within half the fence range.
THEOREM CountCorrect ==
    ASSUME Confirming
    PROVE  Spec => []CountInv
<1>1. TypeOK /\ TransportInv /\ CountInv /\ [Next]_vars => CountInv'
  BY CountStep
<1> QED BY <1>1, CountInit, TypeCorrect, TransportCorrect, PTL DEF Spec

\* No poll and no wait ever reports a command that has not finished, for an
\* application that has a token confirmed within each half of the fence range.
THEOREM ReportsSound ==
    ASSUME Confirming
    PROVE  Spec => []ReportedIsFinished
<1>1. TypeOK /\ CountInv => ReportedIsFinished
  <2> SUFFICES ASSUME TypeOK, CountInv PROVE observed <= completed
    BY DEF ReportedIsFinished
  <2>1. /\ Unseen(confirmed_done) \in Nat /\ Unseen(done_count) \in Nat
        /\ Unseen(hdr_fence) \in Nat
        /\ submitted \in Nat /\ completed \in Nat /\ observed \in Nat
    BY UnseenType
  <2>2. /\ Unseen(done_count) = submitted - completed
        /\ Unseen(done_count) <= Unseen(hdr_fence)
        /\ Unseen(hdr_fence) <= Unseen(confirmed_done)
        /\ observed <= submitted - Unseen(confirmed_done)
    BY DEF CountInv, AgeInv, CallInv
  <2> QED BY <2>1, <2>2
<1> QED BY <1>1, TypeCorrect, CountCorrect, PTL

\* What was once reported complete is never again reported incomplete.
THEOREM ReportsStable ==
    ASSUME Confirming
    PROVE  Spec => []ReportedStaysReported
<1>1. TypeOK /\ CountInv => ReportedStaysReported
  <2> SUFFICES ASSUME TypeOK, CountInv, NEW n \in RetainedNumbers, n <= observed
               PROVE  ConfirmedReached(TokenOf(n))
    BY DEF ReportedStaysReported
  <2>1. /\ n \in 0 .. submitted /\ TokenOf(n) \in Fence
        /\ Unseen(TokenOf(n)) = submitted - n /\ submitted - n < HalfRange
    BY TokenType DEF Unseen
  <2>2. /\ Unseen(confirmed_done) \in Nat /\ confirmed_done \in Fence
        /\ submitted \in Nat /\ observed \in Nat
    BY UnseenType
  <2>3. /\ observed <= submitted - Unseen(confirmed_done)
        /\ Unseen(confirmed_done) <= HalfRange
    BY <2>2, FenceAssumption DEF CountInv, AgeInv, CallInv, Confirming
  <2>4. Unseen(TokenOf(n)) >= Unseen(confirmed_done)
    BY <2>1, <2>2, <2>3
  <2>5. CountFrom(TokenOf(n), confirmed_done) = Unseen(TokenOf(n)) - Unseen(confirmed_done)
    BY <2>1, <2>2, <2>3, <2>4, Comparison
  <2> QED BY <2>1, <2>2, <2>5, FenceAssumption DEF ConfirmedReached, ReachedBy
<1> QED BY <1>1, TypeCorrect, CountCorrect, PTL

\* Every wait is for a command that was submitted.
THEOREM WaitsEnd ==
    ASSUME Confirming
    PROVE  Spec => []WaitTargetSubmitted
<1>1. CountInv => WaitTargetSubmitted
  BY DEF CountInv, CallInv, Unseen, WaitTargetSubmitted
<1> QED BY <1>1, CountCorrect, PTL

-----------------------------------------------------------------------------
(* The transport implements the queue.                                     *)

LEMMA RunningIs ==
    ASSUME TypeOK, EngineInv
    PROVE  /\ engine = "RUN" => Running = completed + 1
           /\ engine # "RUN" => Running = 0
BY WordArithmetic DEF EngineInv, Running, Whole

LEMMA QueueStep ==
    ASSUME Confirming, TypeOK, TransportInv, CountInv, [Next]_vars,
           TypeOK', TransportInv', CountInv'
    PROVE  [Queue!Next]_(Queue!vars)
<1> USE DEF Queue!Next, Queue!vars
<1>t. /\ submitted \in Nat /\ completed \in Nat /\ accepted \in Nat /\ observed \in Nat
      /\ observed' \in Nat /\ completed' \in Nat /\ submitted' \in Nat
  BY DEF TypeOK
<1>r. /\ engine = "RUN" => Running = completed + 1
      /\ engine # "RUN" => Running = 0
      /\ engine' = "RUN" => Running' = completed' + 1
      /\ engine' # "RUN" => Running' = 0
  <2>1. /\ engine = "RUN" => Running = completed + 1
        /\ engine # "RUN" => Running = 0
    BY RunningIs DEF TransportInv
  <2>2. /\ engine' = "RUN" => Running' = completed' + 1
        /\ engine' # "RUN" => Running' = 0
    <3>1. 0 \in Word
      BY WordArithmetic
    <3>2. engine' = "RUN" => /\ command' = [w \in Word |-> accepted']
                             /\ accepted' = completed' + 1
      BY DEF TransportInv, EngineInv, Whole
    <3> QED BY <3>1, <3>2 DEF Running
  <2> QED BY <2>1, <2>2
<1>o. observed' <= completed'
  <2>1. /\ Unseen(confirmed_done)' \in Nat /\ Unseen(done_count)' \in Nat
        /\ Unseen(hdr_fence)' \in Nat
    <3>1. /\ confirmed_done' \in Fence /\ done_count' \in Fence /\ hdr_fence' \in Fence
          /\ last_fence' \in Fence
      BY DEF TypeOK
    <3>2. \A a, b \in Fence : CountFrom(a, b) \in Nat
      <4> TAKE a, b \in Fence
      <4>1. CountFrom(a, b) \in 0 .. FenceMod - 1
        BY FenceArithmetic
      <4> QED BY <4>1, FenceModPositive
    <3> QED BY <3>1, <3>2 DEF Unseen
  <2>2. /\ Unseen(done_count)' = submitted' - completed'
        /\ Unseen(done_count)' <= Unseen(hdr_fence)'
        /\ Unseen(hdr_fence)' <= Unseen(confirmed_done)'
        /\ observed' <= submitted' - Unseen(confirmed_done)'
    BY DEF CountInv, AgeInv, CallInv
  <2> QED BY <1>t, <2>1, <2>2
<1>1. CASE HostPublish
  <2>1. /\ submitted' = submitted + 1
        /\ UNCHANGED <<engine, command, completed, observed>>
    BY <1>1 DEF HostPublish
  <2>2. submitted - accepted < RingSlots - 1
    <3>1. /\ Behind(read_ptr) = submitted - accepted
          /\ Behind(read_ptr) <= Behind(hdr_read)
          /\ Behind(hdr_read) < RingSlots - 1
      BY <1>1 DEF HostPublish, TransportInv, PointerInv, Waiting
    <3>2. read_ptr \in Slot /\ hdr_read \in Slot /\ write_ptr \in Slot
      BY DEF TypeOK
    <3>3. /\ Behind(read_ptr) \in 0 .. RingSlots - 1
          /\ Behind(hdr_read) \in 0 .. RingSlots - 1
      BY <3>2, SlotArithmetic DEF Behind
    <3> QED BY <1>t, <3>1, <3>3, RingAssumption
  <2>3. submitted - completed - (IF Running = 0 THEN 0 ELSE 1) < RingSlots - 1
    BY <1>t, <1>r, <2>2 DEF TransportInv, EngineInv
  <2>4. Running' = Running
    BY <2>1 DEF Running
  <2> QED BY <2>1, <2>3, <2>4 DEF Queue!Submit
<1>2. CASE Dispatch
  <2>1. /\ UNCHANGED <<submitted, completed, observed>>
        /\ engine # "RUN" /\ engine' = "RUN" /\ ring_state = "DISPATCH"
    BY <1>2 DEF Dispatch, CmdReady
  <2>2. completed < submitted
    BY <1>t, <2>1 DEF TransportInv, EngineInv, FetchInv, Waiting
  <2> QED BY <1>r, <2>1, <2>2 DEF Queue!Start
<1>3. CASE EngineDone
  <2>1. /\ UNCHANGED <<submitted, observed>> /\ completed' = completed + 1
        /\ engine = "RUN" /\ engine' # "RUN"
    BY <1>3 DEF EngineDone
  <2> QED BY <1>t, <1>r, <2>1 DEF Queue!Finish
<1>4. ASSUME UNCHANGED <<submitted, completed, engine, command>>,
             observed' = observed \/ observed' > observed
      PROVE  [Queue!Next]_(Queue!vars)
  <2>1. Running' = Running
    BY <1>4 DEF Running
  <2>2. CASE observed' = observed
    BY <1>4, <2>1, <2>2
  <2>3. CASE observed' > observed
    <3>1. observed' \in observed + 1 .. completed
      BY <1>t, <1>o, <1>4, <2>3
    <3> QED BY <1>4, <2>1, <3>1 DEF Queue!Observe
  <2> QED BY <1>4, <2>2, <2>3
<1>5. ASSUME NEW m \in RetainedNumbers, HostPoll(m) PROVE [Queue!Next]_(Queue!vars)
  BY <1>4, <1>5 DEF HostPoll, PollComplete
<1>6. CASE HostWaitPoll
  BY <1>4, <1>6 DEF HostWaitPoll, PollComplete
<1>7. ASSUME NEW m \in RetainedNumbers, HostWait(m) PROVE [Queue!Next]_(Queue!vars)
  BY <1>4, <1>7 DEF HostWait
<1>8. CASE HostPush \/ HostWriteWord \/ HostProgressSample \/ HostProgressTarget \/ HostTimeout
  BY <1>4, <1>8
     DEF HostPush, HostWriteWord, HostProgressSample, HostProgressTarget, HostTimeout
<1>9. CASE RingStartPoll \/ RingReadPointer \/ RingComparePointer \/ RingReadWord
           \/ RingStoreWord \/ RingWriteBack
  BY <1>4, <1>9
     DEF RingStartPoll, RingReadPointer, RingComparePointer, RingReadWord, RingStoreWord,
         RingWriteBack
<1>10. CASE FenceStart \/ FenceWrite \/ ControlEcho \/ DramWrite \/ UNCHANGED vars
  BY <1>4, <1>10 DEF FenceStart, FenceWrite, ControlEcho, DramWrite
<1>11. CASE CmdqIdle
  <2>1. /\ engine # "RUN" /\ engine' # "RUN"
        /\ UNCHANGED <<submitted, completed, observed>>
    BY <1>11 DEF CmdqIdle
  <2> QED BY <1>r, <2>1
<1> QED
  BY <1>1, <1>2, <1>3, <1>5, <1>6, <1>7, <1>8, <1>9, <1>10, <1>11
     DEF Next, HostStep, CoreStep

\* Ring, fetcher, dispatcher, fence and polling together are a FIFO queue of
\* at most RingSlots - 1 waiting commands that runs each exactly once.
THEOREM Implementation ==
    ASSUME Confirming
    PROVE  Spec => ImplementsQueue
<1>1. Init => Queue!Init
  BY DEF Init, Queue!Init, Running
<1>2. TypeOK /\ TransportInv /\ CountInv /\ [Next]_vars /\ TypeOK' /\ TransportInv' /\ CountInv'
        => [Queue!Next]_(Queue!vars)
  BY QueueStep
<1> QED
  BY <1>1, <1>2, TypeCorrect, TransportCorrect, CountCorrect, PTL
     DEF Spec, ImplementsQueue, Queue!Spec
=============================================================================
