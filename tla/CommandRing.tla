---------------------------- MODULE CommandRing ----------------------------
(***************************************************************************)
(* One open session of the command transport: the SDK process that pushes  *)
(* commands into the DRAM ring and polls the completion fence              *)
(* (lib/noodles_link.c), the fetcher that reads the ring                   *)
(* (rtl/link_ring.sv), the dispatcher that runs one command at a time      *)
(* (rtl/cmdq.sv) and the publisher of the completion count                 *)
(* (rtl/link_fence.sv).  The two sides share only DRAM: the slots, the     *)
(* write pointer, the read pointer and the fence word.  FPGA writes reach  *)
(* DRAM in order through one write queue, some time after they are issued. *)
(*                                                                         *)
(* The payload of a command is its submission number, so a command that is *)
(* lost, repeated, reordered or mixed from two slots can be told apart.    *)
(* What the session protocol adds (claim, reset, reopen) is LinkSession's. *)
(***************************************************************************)
EXTENDS Integers, Sequences

CONSTANTS
    RingSlots,      \* slots of the ring; one always stays empty
    SlotWords,      \* 32-bit words of a slot, written and fetched one by one
    HalfRange,      \* half of the fence modulus: 2^30 in the code
    QueueDepth,     \* entries of the FPGA's DRAM write queue
    MaxUnconfirmed, \* submissions the application makes between confirmations
    MaxRetained,    \* age, in submissions, of the oldest token it still polls
    MaxCommands,    \* bound on the submissions of a behaviour
    Baselines,      \* fence counts a session may be opened at
    Verified        \* noodles_link_open (TRUE) or noodles_link_open_legacy

FenceMod == 2 * HalfRange
Slot == 0 .. RingSlots - 1
Word == 0 .. SlotWords - 1
Fence == 0 .. FenceMod - 1

ASSUME RingAssumption ==
    /\ RingSlots \in Nat /\ RingSlots >= 2
    /\ SlotWords \in Nat \ {0}
    /\ QueueDepth \in Nat \ {0}
    /\ MaxCommands \in Nat
    /\ Verified \in BOOLEAN

ASSUME FenceAssumption ==
    /\ HalfRange \in Nat \ {0}
    /\ MaxUnconfirmed \in Nat
    /\ MaxRetained \in Nat /\ MaxRetained < HalfRange
    /\ Baselines \subseteq Fence

\* Modular arithmetic, by wrapping instead of %.
Inc(x, m) == IF x = m - 1 THEN 0 ELSE x + 1
Dist(x, y, m) == IF y >= x THEN y - x ELSE y - x + m
Back(x, d, m) == IF x >= d THEN x - d ELSE x - d + m

\* Mutant: the slot index is not wrapped.
NextSlotUnwrapped(p) == p + 1
NextSlot(p) == Inc(p, RingSlots)
SlotsFrom(p, q) == Dist(p, q, RingSlots)
CountFrom(a, b) == Dist(a, b, FenceMod)

\* The rule the fence comparison rests on: an application does not let half
\* the range of submissions pass without having one reported complete.
Confirming == MaxUnconfirmed <= HalfRange

VARIABLES
    host_pc,        \* what the (single-threaded) SDK is doing
    host_word,      \* words of the current slot already stored
    host_raw,       \* raw fence sampled by noodles_link_wait_progress
    wait_target,    \* target of the wait in progress
    write_ptr,      \* link->write_ptr
    last_fence,     \* noodles_link_last_fence(link)
    confirmed_done, \* link->confirmed_done
    ping,           \* link->ping_pending, and whether the core has echoed it
    fault,          \* link->fault is set
    slots,          \* DRAM: the ring
    hdr_write,      \* DRAM: header[0]
    hdr_read,       \* DRAM: header[2]
    hdr_fence,      \* DRAM: header[3] bits 30:0
    write_queue,    \* FPGA writes on their way to DRAM
    ring_state, read_ptr, word_idx, slot_reg, rd_data,  \* link_ring
    engine, command,                                    \* cmdq
    done_count, published_count, write_value, fence_state,  \* link_fence
    submitted,      \* commands published so far (link->submitted)
    accepted,       \* history: commands cmdq has accepted
    completed,      \* history: commands that have finished
    observed        \* history: newest command reported complete

host == <<host_pc, host_word, host_raw, wait_target, write_ptr, last_fence,
          confirmed_done, ping, fault, submitted, observed>>
dram == <<slots, hdr_write, hdr_read, hdr_fence>>
ring == <<ring_state, read_ptr, word_idx, slot_reg, rd_data>>
cmdq == <<engine, command, accepted, completed>>
fence == <<done_count, published_count, write_value, fence_state>>
vars == <<host, dram, write_queue, ring, cmdq, fence>>

RingStates == {"IDLE", "POLL_REQ", "POLL_WAIT", "FETCH_REQ", "FETCH_WAIT",
               "DISPATCH", "WRITE_BACK"}
RingReads == {"POLL_REQ", "POLL_WAIT", "FETCH_REQ", "FETCH_WAIT"}
QueuedWrite == [reg : {"read_ptr"}, val : Slot] \cup
               [reg : {"fence"}, val : Fence]

\* A handle has just been opened on a drained ring: every pointer agrees, and
\* the fence count of earlier sessions is the baseline.
Init ==
    /\ \E p \in Slot :
         /\ write_ptr = p /\ hdr_write = p /\ hdr_read = p /\ read_ptr = p
    /\ \E b \in Baselines :
         /\ last_fence = b /\ confirmed_done = b /\ hdr_fence = b
         /\ done_count = b /\ published_count = b /\ write_value = b
    /\ host_pc = "idle" /\ host_word = 0 /\ host_raw = 0 /\ wait_target = 0
    /\ ping = "none" /\ fault = FALSE
    /\ slots = [s \in Slot |-> [w \in Word |-> 0]]
    /\ write_queue = <<>>
    /\ ring_state = "IDLE" /\ word_idx = 0 /\ rd_data = 0
    /\ slot_reg = [w \in Word |-> 0]
    /\ engine = "IDLE" /\ command = [w \in Word |-> 0]
    /\ fence_state = "IDLE"
    /\ submitted = 0 /\ accepted = 0 /\ completed = 0 /\ observed = 0

-----------------------------------------------------------------------------
(* The SDK: publishing a command.                                          *)

\* Mutant: every slot may be used.
RingHasSpaceUnchecked == TRUE
RingHasSpace == NextSlot(write_ptr) # hdr_read

\* push_command: the checks.  The application is assumed to have some token
\* reported complete at least every MaxUnconfirmed submissions.
HostPush ==
    /\ host_pc = "idle" /\ ~fault
    /\ RingHasSpace
    /\ submitted < MaxCommands
    /\ CountFrom(confirmed_done, last_fence) < MaxUnconfirmed
    /\ host_pc' = "fill" /\ host_word' = 0
    /\ UNCHANGED <<host_raw, wait_target, write_ptr, last_fence,
                   confirmed_done, ping, fault, submitted, observed,
                   dram, write_queue, ring, cmdq, fence>>

\* publish_command: the slot is stored word by word ...
HostWriteWord ==
    /\ host_pc = "fill" /\ host_word < SlotWords
    /\ slots' = [slots EXCEPT ![write_ptr][host_word] = submitted + 1]
    /\ host_word' = host_word + 1
    /\ UNCHANGED <<host_pc, host_raw, wait_target, write_ptr, last_fence,
                   confirmed_done, ping, fault, submitted, observed,
                   hdr_write, hdr_read, hdr_fence, write_queue, ring, cmdq,
                   fence>>

\* Mutant: the write pointer is published before the last word is stored.
HostPublishEarly ==
    /\ host_pc = "fill" /\ host_word = SlotWords - 1
    /\ host_pc' = "idle"
    /\ hdr_write' = NextSlot(write_ptr)
    /\ write_ptr' = NextSlot(write_ptr)
    /\ submitted' = submitted + 1
    /\ last_fence' = Inc(last_fence, FenceMod)
    /\ UNCHANGED <<host_word, host_raw, wait_target, confirmed_done, ping,
                   fault, observed, slots, hdr_read, hdr_fence, write_queue,
                   ring, cmdq, fence>>

\* ... and only then made visible by the write pointer.
HostPublish ==
    /\ host_pc = "fill" /\ host_word = SlotWords
    /\ host_pc' = "idle"
    /\ hdr_write' = NextSlot(write_ptr)
    /\ write_ptr' = NextSlot(write_ptr)
    /\ submitted' = submitted + 1
    /\ last_fence' = Inc(last_fence, FenceMod)
    /\ UNCHANGED <<host_word, host_raw, wait_target, confirmed_done, ping,
                   fault, observed, slots, hdr_read, hdr_fence, write_queue,
                   ring, cmdq, fence>>

-----------------------------------------------------------------------------
(* The SDK: polling and waiting.                                           *)

\* Mutants: counts compared without the wrap, and for equality.
ReachedByOrder(count, target) == count >= target
ReachedByEquality(count, target) == count = target

\* A count has reached a target when it is less than half the range ahead.
ReachedBy(count, target) == CountFrom(target, count) < HalfRange
ConfirmedReached(target) == ReachedBy(confirmed_done, target)
RawReached(target) == ReachedBy(hdr_fence, target)

TokenOf(n) == Back(last_fence, submitted - n, FenceMod)
NumberOf(target) == submitted - CountFrom(target, last_fence)

PollConfirmed(target) ==
    /\ ConfirmedReached(target)
    /\ UNCHANGED <<confirmed_done, ping>>

\* A raw completion counts on a verified handle once a fresh challenge has
\* been echoed, at once on a legacy one.
PollRaw(target) ==
    /\ ~ConfirmedReached(target) /\ RawReached(target)
    /\ Verified => ping = "echoed"
    /\ ping' = "none"
    /\ confirmed_done' = hdr_fence

PollChallenge(target) ==
    /\ ~ConfirmedReached(target) /\ RawReached(target)
    /\ Verified /\ ping = "none"
    /\ ping' = "requested"
    /\ UNCHANGED confirmed_done

\* noodles_link_poll sets *complete.
PollComplete(target) ==
    /\ PollConfirmed(target) \/ PollRaw(target)
    /\ observed' = IF NumberOf(target) > observed THEN NumberOf(target)
                                                   ELSE observed

\* noodles_link_poll on the token of command n.
HostPoll(n) ==
    /\ host_pc = "idle" /\ ~fault
    /\ \/ PollComplete(TokenOf(n))
       \/ PollChallenge(TokenOf(n)) /\ UNCHANGED observed
    /\ UNCHANGED <<host_pc, host_word, host_raw, wait_target, write_ptr,
                   last_fence, fault, submitted, dram, write_queue, ring,
                   cmdq, fence>>

\* noodles_link_wait, or noodles_link_drain when n is the last command.
HostWait(n) ==
    /\ host_pc = "idle" /\ ~fault
    /\ host_pc' = "wait" /\ wait_target' = TokenOf(n)
    /\ UNCHANGED <<host_word, host_raw, write_ptr, last_fence,
                   confirmed_done, ping, fault, submitted, observed, dram,
                   write_queue, ring, cmdq, fence>>

\* noodles_link_wait_progress samples the raw fence ...
HostProgressSample ==
    /\ host_pc = "idle" /\ ~fault
    /\ ~ConfirmedReached(last_fence)
    /\ host_pc' = "progress" /\ host_raw' = hdr_fence
    /\ UNCHANGED <<host_word, wait_target, write_ptr, last_fence,
                   confirmed_done, ping, fault, submitted, observed, dram,
                   write_queue, ring, cmdq, fence>>

\* Mutant: the second read is left out.
HostProgressTargetBlind ==
    /\ host_pc = "progress"
    /\ host_pc' = "wait"
    /\ wait_target' = Inc(host_raw, FenceMod)
    /\ UNCHANGED <<host_word, host_raw, write_ptr, last_fence,
                   confirmed_done, ping, fault, submitted, observed, dram,
                   write_queue, ring, cmdq, fence>>

\* ... and reads it once more to choose what to wait for.
HostProgressTarget ==
    /\ host_pc = "progress"
    /\ host_pc' = "wait"
    /\ wait_target' = IF RawReached(last_fence) THEN last_fence
                                                ELSE Inc(host_raw, FenceMod)
    /\ UNCHANGED <<host_word, host_raw, write_ptr, last_fence,
                   confirmed_done, ping, fault, submitted, observed, dram,
                   write_queue, ring, cmdq, fence>>

HostWaitPoll ==
    /\ host_pc = "wait"
    /\ \/ PollComplete(wait_target) /\ host_pc' = "idle"
       \/ PollChallenge(wait_target) /\ UNCHANGED <<observed, host_pc>>
    /\ UNCHANGED <<host_word, host_raw, wait_target, write_ptr, last_fence,
                   fault, submitted, dram, write_queue, ring, cmdq, fence>>

\* The deadline passes: the handle is faulted, the queued work is not
\* cancelled.
HostTimeout ==
    /\ host_pc = "wait"
    /\ host_pc' = "idle" /\ fault' = TRUE
    /\ UNCHANGED <<host_word, host_raw, wait_target, write_ptr, last_fence,
                   confirmed_done, ping, submitted, observed, dram,
                   write_queue, ring, cmdq, fence>>

-----------------------------------------------------------------------------
(* link_ring.  A read is answered with what DRAM holds at some moment      *)
(* between its request and the cycle its data is used.                     *)

CmdReady == engine = "IDLE"

RingStartPoll ==
    /\ ring_state = "IDLE" /\ CmdReady
    /\ ring_state' = "POLL_REQ"
    /\ UNCHANGED <<host, dram, write_queue, read_ptr, word_idx, slot_reg,
                   rd_data, cmdq, fence>>

RingReadPointer ==
    /\ ring_state = "POLL_REQ"
    /\ ring_state' = "POLL_WAIT" /\ rd_data' = hdr_write
    /\ UNCHANGED <<host, dram, write_queue, read_ptr, word_idx, slot_reg,
                   cmdq, fence>>

RingComparePointer ==
    /\ ring_state = "POLL_WAIT"
    /\ IF rd_data = read_ptr
         THEN ring_state' = "IDLE" /\ UNCHANGED word_idx
         ELSE ring_state' = "FETCH_REQ" /\ word_idx' = 0
    /\ UNCHANGED <<host, dram, write_queue, read_ptr, slot_reg, rd_data,
                   cmdq, fence>>

RingReadWord ==
    /\ ring_state = "FETCH_REQ"
    /\ ring_state' = "FETCH_WAIT" /\ rd_data' = slots[read_ptr][word_idx]
    /\ UNCHANGED <<host, dram, write_queue, read_ptr, word_idx, slot_reg,
                   cmdq, fence>>

RingStoreWord ==
    /\ ring_state = "FETCH_WAIT"
    /\ slot_reg' = [slot_reg EXCEPT ![word_idx] = rd_data]
    /\ IF word_idx = SlotWords - 1
         THEN ring_state' = "DISPATCH" /\ UNCHANGED word_idx
         ELSE ring_state' = "FETCH_REQ" /\ word_idx' = word_idx + 1
    /\ UNCHANGED <<host, dram, write_queue, read_ptr, rd_data, cmdq, fence>>

\* Mutant: the read pointer is not advanced, so the slot is fetched again.
DispatchAgain ==
    /\ ring_state = "DISPATCH" /\ CmdReady
    /\ ring_state' = "WRITE_BACK"
    /\ engine' = "RUN" /\ command' = slot_reg
    /\ accepted' = accepted + 1
    /\ UNCHANGED <<host, dram, write_queue, read_ptr, word_idx, slot_reg,
                   rd_data, completed, fence>>

\* The command is handed to cmdq, which latches it and starts an engine.
Dispatch ==
    /\ ring_state = "DISPATCH" /\ CmdReady
    /\ read_ptr' = NextSlot(read_ptr)
    /\ ring_state' = "WRITE_BACK"
    /\ engine' = "RUN" /\ command' = slot_reg
    /\ accepted' = accepted + 1
    /\ UNCHANGED <<host, dram, write_queue, word_idx, slot_reg, rd_data,
                   completed, fence>>

RingWriteBack ==
    /\ ring_state = "WRITE_BACK"
    /\ Len(write_queue) < QueueDepth
    /\ write_queue' = Append(write_queue,
                             [reg |-> "read_ptr", val |-> read_ptr])
    /\ ring_state' = "IDLE"
    /\ UNCHANGED <<host, dram, read_ptr, word_idx, slot_reg, rd_data, cmdq,
                   fence>>

-----------------------------------------------------------------------------
(* cmdq and link_fence.                                                    *)

\* The engine pulses done: the fence counts it at once, cmdq still waits for
\* the engine's writes to drain.
EngineDone ==
    /\ engine = "RUN"
    /\ engine' = "WAIT_MEMORY"
    /\ done_count' = Inc(done_count, FenceMod)
    /\ completed' = completed + 1
    /\ UNCHANGED <<host, dram, write_queue, ring, command, accepted,
                   published_count, write_value, fence_state>>

CmdqIdle ==
    /\ engine = "WAIT_MEMORY" /\ write_queue = <<>>
    /\ engine' = "IDLE"
    /\ UNCHANGED <<host, dram, write_queue, ring, command, accepted,
                   completed, fence>>

FenceStart ==
    /\ fence_state = "IDLE" /\ done_count # published_count
    /\ fence_state' = "WRITE_REQ" /\ write_value' = done_count
    /\ UNCHANGED <<host, dram, write_queue, ring, cmdq, done_count,
                   published_count>>

\* The fence has the lowest priority of the write port's clients.
FenceWrite ==
    /\ fence_state = "WRITE_REQ" /\ ring_state # "WRITE_BACK"
    /\ Len(write_queue) < QueueDepth
    /\ write_queue' = Append(write_queue,
                             [reg |-> "fence", val |-> write_value])
    /\ published_count' = write_value /\ fence_state' = "IDLE"
    /\ UNCHANGED <<host, dram, ring, cmdq, done_count, write_value>>

\* The adapter's oldest write lands in DRAM.
DramWrite ==
    /\ write_queue # <<>>
    /\ LET w == Head(write_queue) IN
         IF w.reg = "fence"
           THEN hdr_fence' = w.val /\ UNCHANGED hdr_read
           ELSE hdr_read' = w.val /\ UNCHANGED hdr_fence
    /\ write_queue' = Tail(write_queue)
    /\ UNCHANGED <<host, slots, hdr_write, ring, cmdq, fence>>

\* link_control reads the request only while cmdq and the bus are idle.
ControlEcho ==
    /\ ping = "requested"
    /\ CmdReady /\ ring_state \notin RingReads /\ write_queue = <<>>
    /\ ping' = "echoed"
    /\ UNCHANGED <<host_pc, host_word, host_raw, wait_target, write_ptr,
                   last_fence, confirmed_done, fault, submitted, observed,
                   dram, write_queue, ring, cmdq, fence>>

-----------------------------------------------------------------------------
\* Tokens the application still holds.
RetainedNumbers == {n \in 0 .. submitted : submitted - n <= MaxRetained}

HostStep ==
    \/ HostPush \/ HostWriteWord \/ HostPublish
    \/ \E n \in RetainedNumbers : HostPoll(n) \/ HostWait(n)
    \/ HostProgressSample \/ HostProgressTarget
    \/ HostWaitPoll \/ HostTimeout

CoreStep ==
    \/ RingStartPoll \/ RingReadPointer \/ RingComparePointer
    \/ RingReadWord \/ RingStoreWord \/ Dispatch \/ RingWriteBack
    \/ EngineDone \/ CmdqIdle \/ FenceStart \/ FenceWrite \/ DramWrite
    \/ ControlEcho

Next == HostStep \/ CoreStep

Spec == Init /\ [][Next]_vars

\* An SDK call that has started runs on; the application owes nothing.  The
\* core's state machines advance on every clock.  link_control samples its
\* condition on every clock too, so a condition that keeps recurring is seen.
Fairness ==
    /\ WF_vars(HostWriteWord) /\ WF_vars(HostPublish)
    /\ WF_vars(HostProgressTarget) /\ WF_vars(HostWaitPoll)
    /\ WF_vars(RingStartPoll) /\ WF_vars(RingReadPointer)
    /\ WF_vars(RingComparePointer) /\ WF_vars(RingReadWord)
    /\ WF_vars(RingStoreWord) /\ WF_vars(Dispatch)
    /\ WF_vars(RingWriteBack) /\ WF_vars(EngineDone) /\ WF_vars(CmdqIdle)
    /\ WF_vars(FenceStart) /\ WF_vars(FenceWrite) /\ WF_vars(DramWrite)
    /\ SF_vars(ControlEcho)

FairSpec == Spec /\ Fairness
-----------------------------------------------------------------------------
(* Properties.                                                             *)

\* Types: pointers name slots, every copy of the completion count is a fence
\* value, and the write queue holds read pointers and counts.
TypeOK ==
    /\ host_pc \in {"idle", "fill", "progress", "wait"}
    /\ host_word \in 0 .. SlotWords
    /\ host_raw \in Fence /\ wait_target \in Fence
    /\ write_ptr \in Slot /\ last_fence \in Fence
    /\ confirmed_done \in Fence
    /\ ping \in {"none", "requested", "echoed"} /\ fault \in BOOLEAN
    /\ slots \in [Slot -> [Word -> Nat]]
    /\ hdr_write \in Slot /\ hdr_read \in Slot /\ hdr_fence \in Fence
    /\ write_queue \in Seq(QueuedWrite)
    /\ ring_state \in RingStates /\ read_ptr \in Slot /\ word_idx \in Word
    /\ slot_reg \in [Word -> Nat] /\ rd_data \in Nat
    /\ engine \in {"IDLE", "RUN", "WAIT_MEMORY"}
    /\ command \in [Word -> Nat]
    /\ done_count \in Fence /\ published_count \in Fence
    /\ write_value \in Fence /\ fence_state \in {"IDLE", "WRITE_REQ"}
    /\ submitted \in Nat /\ accepted \in Nat /\ completed \in Nat
    /\ observed \in Nat

\* The command offered to cmdq is the next one submitted, whole: none of its
\* words is left over from the slot's previous use or taken from a later one,
\* however the host's stores interleave with link_ring's eight reads.
DispatchedWhole ==
    ring_state = "DISPATCH" => slot_reg = [w \in Word |-> accepted + 1]

\* The host never stores into the slot of a published command that link_ring
\* has yet to hand over, although it checks for space against a read pointer
\* that lags the real one.
SlotKeptUntilFetched ==
    [][\A s \in Slot :
          SlotsFrom(read_ptr, s) < submitted - accepted
              => slots'[s] = slots[s]]_vars

\* Equal pointers mean an empty ring, never a full one: initialize_transport
\* and link_ring's POLL_WAIT both read them that way.
EqualPointersMeanEmpty == hdr_write = hdr_read => accepted = submitted

\* No poll or wait reports a command complete before it has finished, across
\* wraps of the count, old confirmed counts and delayed fence writes.
ReportedIsFinished == observed <= completed

\* A token that was reported complete, and everything submitted before it,
\* stays reported complete for as long as the token may be kept.
ReportedStaysReported ==
    \A n \in RetainedNumbers : n <= observed => ConfirmedReached(TokenOf(n))

\* wait, drain and wait_progress only ever wait for a submitted command, so
\* none waits for a completion nothing will produce.
WaitTargetSubmitted ==
    host_pc = "wait" =>
        CountFrom(wait_target, last_fence) <= HalfRange

\* Every published command is eventually executed, whatever the host does.
EveryCommandFinishes ==
    \A n \in 1 .. MaxCommands : submitted >= n ~> completed >= n

\* A wait returns: the count reaches the target and, on a verified handle, the
\* challenge is echoed even while link_ring keeps polling the shared bus.
WaitReturns == host_pc \in {"wait", "progress"} ~> host_pc = "idle"

\* The transport implements the queue the SDK promises.
Running ==
    IF engine # "RUN" THEN 0
    ELSE IF \A w \in Word : command[w] = command[0] THEN command[0] ELSE -1

Queue == INSTANCE CommandQueue WITH
             running <- Running, Capacity <- RingSlots - 1

ImplementsQueue == Queue!Spec
=============================================================================
