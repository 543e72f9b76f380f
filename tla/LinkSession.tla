---------------------------- MODULE LinkSession ----------------------------
(***************************************************************************)
(* The life of a device session: verified open, the claim, the liveness    *)
(* challenge, close and process death on the host (lib/noodles_link.c),    *)
(* and on the core the session control (rtl/link_control.sv), the ring and *)
(* the fence as far as the session arms and initialises them               *)
(* (rtl/link_ring.sv, rtl/link_fence.sv, the write mux of Noodles.sv).     *)
(* The core may be reset at any time; the shared words survive in DRAM.    *)
(*                                                                         *)
(* The process lock admits one handle at a time.  A handle is its random   *)
(* token; the two halves of the token are stored and read separately.      *)
(* CommandRing models one session of the same transport in more detail:    *)
(* here a slot is stored and fetched whole.                                *)
(***************************************************************************)
EXTENDS Integers, FiniteSets

CONSTANTS
    Slots,          \* NOODLES_RING_SLOTS
    FenceMod,       \* NOODLES_FENCE_MASK + 1
    MaxHandles,     \* bound on the handles opened
    MaxCommands,    \* bound on the commands of one handle
    MaxResets,      \* bound on the core resets
    MaxPings,       \* bound on the challenges of one handle
    RacingStores    \* a reset may fall between a check and the store after it

ASSUME LinkSessionAssumption ==
    /\ Slots \in Nat /\ Slots >= 2 /\ FenceMod \in Nat /\ FenceMod >= 4
    /\ MaxHandles \in Nat /\ MaxCommands \in Nat /\ MaxResets \in Nat
    /\ MaxPings \in Nat /\ RacingStores \in BOOLEAN

Handle == 1 .. MaxHandles
NoToken == 0
Token == 0 .. MaxHandles
Closed == 0             \* request and response sequence 0
Claim == MaxPings + 1   \* NOODLES_CONTROL_CLAIM, never a ping
Sequence == 0 .. Claim
Command == [handle : Handle, n : 1 .. MaxCommands]
NoCommand == [handle |-> NoToken, n |-> 0]
Header == [magic : BOOLEAN, write_ptr : 0 .. Slots - 1,
           read_ptr : 0 .. Slots - 1, count : 0 .. FenceMod - 1,
           request : Sequence, request_lo : Token, request_hi : Token,
           response : Sequence, response_lo : Token, response_hi : Token]

VARIABLES
    host_pc, handle, next_handle,
    write_ptr, submitted, done_baseline, confirmed_done,
    ping_seq, ping_pending,
    header,             \* the shared words
    slots,              \* the command in each slot
    ring_state, read_ptr, slot_reg,             \* link_ring
    engine,             \* the command cmdq runs, or NoCommand
    done_count, published_count, fence_initialized,     \* link_fence
    control_state, request_seq, last_request_seq,       \* link_control
    candidate_lo, session_lo, session_hi, session_active,
    resets,             \* core resets so far
    executed, finished, \* commands dispatched and completed by the core
    reported            \* commands a poll reported complete

local == <<write_ptr, submitted, done_baseline, confirmed_done,
           ping_seq, ping_pending>>
host == <<host_pc, handle, next_handle, local>>
ring == <<ring_state, read_ptr, slot_reg>>
fence == <<done_count, published_count, fence_initialized>>
session == <<session_lo, session_hi, session_active>>
control == <<control_state, request_seq, last_request_seq, candidate_lo,
             session>>
ghost == <<executed, finished, reported>>
vars == <<host, header, slots, ring, engine, fence, control, resets, ghost>>

\* Power-up: the core has just been reset and the shared words are clear.
Init ==
    /\ host_pc = "closed" /\ handle = NoToken /\ next_handle = 1
    /\ write_ptr = 0 /\ submitted = 0
    /\ done_baseline = 0 /\ confirmed_done = 0
    /\ ping_seq = 0 /\ ping_pending = FALSE
    /\ header = [magic |-> FALSE, write_ptr |-> 0, read_ptr |-> 0, count |-> 0,
                 request |-> Closed, request_lo |-> NoToken,
                 request_hi |-> NoToken, response |-> Closed,
                 response_lo |-> NoToken, response_hi |-> NoToken]
    /\ slots = [s \in 0 .. Slots - 1 |-> NoCommand]
    /\ ring_state = "INIT_WPTR" /\ read_ptr = 0 /\ slot_reg = NoCommand
    /\ engine = NoCommand
    /\ done_count = 0 /\ published_count = 0 /\ fence_initialized = FALSE
    /\ control_state = "INIT_MAGIC_CLEAR"
    /\ request_seq = Closed /\ last_request_seq = Closed
    /\ candidate_lo = NoToken
    /\ session_lo = NoToken /\ session_hi = NoToken /\ session_active = FALSE
    /\ resets = 0 /\ executed = {} /\ finished = {} /\ reported = {}

-----------------------------------------------------------------------------
(* The core.  Writes reach DRAM through one mux: link_ring first, then     *)
(* link_control, then link_fence.                                          *)

LinkWrites == ring_state \in {"INIT_WPTR", "INIT_RPTR", "WRITE_BACK"}
ControlWrites == control_state \in
    {"INIT_MAGIC_CLEAR", "INIT_REQUEST_CLEAR", "INIT_RESPONSE_CLEAR",
     "INIT_MAGIC", "WRITE_TOKEN_LO", "WRITE_TOKEN_HI", "WRITE_RESPONSE"}
RingInitialized == ring_state \notin {"INIT_WPTR", "INIT_RPTR"}
CmdReady == engine = NoCommand
ControlReads == control_state \in {"POLL_SEQ", "TOKEN_LO", "TOKEN_HI"}

\* Mutant: the write pointer survives the reset.
RingInitWritePtrKept ==
    /\ ring_state = "INIT_WPTR"
    /\ ring_state' = "INIT_RPTR" /\ UNCHANGED header
    /\ UNCHANGED <<host, slots, read_ptr, slot_reg, engine, fence, control,
                   resets, ghost>>

RingInitWritePtr ==
    /\ ring_state = "INIT_WPTR"
    /\ ring_state' = "INIT_RPTR" /\ header' = [header EXCEPT !.write_ptr = 0]
    /\ UNCHANGED <<host, slots, read_ptr, slot_reg, engine, fence, control,
                   resets, ghost>>

RingInitReadPtr ==
    /\ ring_state = "INIT_RPTR"
    /\ ring_state' = "IDLE" /\ header' = [header EXCEPT !.read_ptr = 0]
    /\ UNCHANGED <<host, slots, read_ptr, slot_reg, engine, fence, control,
                   resets, ghost>>

RingStartPoll ==
    /\ ring_state = "IDLE" /\ session_active /\ CmdReady
    /\ ring_state' = "POLL"
    /\ UNCHANGED <<host, header, slots, read_ptr, slot_reg, engine, fence,
                   control, resets, ghost>>

\* The pointer is read, and the slot if the pointers differ.
RingFetch ==
    /\ ring_state = "POLL" /\ ~ControlReads
    /\ IF header.write_ptr = read_ptr
         THEN ring_state' = "IDLE" /\ UNCHANGED slot_reg
         ELSE ring_state' = "DISPATCH" /\ slot_reg' = slots[read_ptr]
    /\ UNCHANGED <<host, header, slots, read_ptr, engine, fence, control,
                   resets, ghost>>

\* Mutant: the ring does not move past the command.
RingDispatchAgain ==
    /\ ring_state = "DISPATCH" /\ CmdReady
    /\ ring_state' = "WRITE_BACK" /\ UNCHANGED read_ptr
    /\ engine' = slot_reg /\ executed' = executed \cup {slot_reg}
    /\ UNCHANGED <<host, header, slots, slot_reg, fence, control, resets,
                   finished, reported>>

RingDispatch ==
    /\ ring_state = "DISPATCH" /\ CmdReady
    /\ ring_state' = "WRITE_BACK" /\ read_ptr' = (read_ptr + 1) % Slots
    /\ engine' = slot_reg /\ executed' = executed \cup {slot_reg}
    /\ UNCHANGED <<host, header, slots, slot_reg, fence, control, resets,
                   finished, reported>>

RingWriteBack ==
    /\ ring_state = "WRITE_BACK"
    /\ ring_state' = "IDLE"
    /\ header' = [header EXCEPT !.read_ptr = read_ptr]
    /\ UNCHANGED <<host, slots, read_ptr, slot_reg, engine, fence, control,
                   resets, ghost>>

EngineDone ==
    /\ engine # NoCommand
    /\ engine' = NoCommand /\ finished' = finished \cup {engine}
    /\ done_count' = (done_count + 1) % FenceMod
    /\ UNCHANGED <<host, header, slots, ring, published_count,
                   fence_initialized, control, resets, executed, reported>>

FencePending == ~fence_initialized \/ done_count # published_count

FenceWrite ==
    /\ FencePending /\ ~LinkWrites /\ ~ControlWrites
    /\ fence_initialized' = TRUE /\ published_count' = done_count
    /\ header' = [header EXCEPT !.count = done_count]
    /\ UNCHANGED <<host, slots, ring, engine, done_count, control, resets,
                   ghost>>

ControlWrite(from, to, hdr) ==
    /\ control_state = from /\ ~LinkWrites
    /\ control_state' = to /\ header' = hdr
    /\ UNCHANGED <<host, slots, ring, engine, fence, request_seq,
                   candidate_lo, session, resets, ghost>>

\* Mutant: the old answer is not cleared.
ControlInitKeepsResponse ==
    /\ \/ ControlWrite("INIT_MAGIC_CLEAR", "INIT_REQUEST_CLEAR",
                       [header EXCEPT !.magic = FALSE])
       \/ ControlWrite("INIT_REQUEST_CLEAR", "INIT_RESPONSE_CLEAR",
                       [header EXCEPT !.request = Closed])
       \/ ControlWrite("INIT_RESPONSE_CLEAR", "INIT_MAGIC",
                       header)
       \/ ControlWrite("INIT_MAGIC", "IDLE", [header EXCEPT !.magic = TRUE])
    /\ UNCHANGED last_request_seq

\* After a reset: the magic goes first and comes back last.
ControlInit ==
    /\ \/ ControlWrite("INIT_MAGIC_CLEAR", "INIT_REQUEST_CLEAR",
                       [header EXCEPT !.magic = FALSE])
       \/ ControlWrite("INIT_REQUEST_CLEAR", "INIT_RESPONSE_CLEAR",
                       [header EXCEPT !.request = Closed])
       \/ ControlWrite("INIT_RESPONSE_CLEAR", "INIT_MAGIC",
                       [header EXCEPT !.response = Closed])
       \/ ControlWrite("INIT_MAGIC", "IDLE", [header EXCEPT !.magic = TRUE])
    /\ UNCHANGED last_request_seq

\* The answer's sequence is stored after its token.
ControlAnswer ==
    \/ /\ \/ ControlWrite("WRITE_TOKEN_LO", "WRITE_TOKEN_HI",
                          [header EXCEPT !.response_lo = session_lo])
          \/ ControlWrite("WRITE_TOKEN_HI", "WRITE_RESPONSE",
                          [header EXCEPT !.response_hi = session_hi])
       /\ UNCHANGED last_request_seq
    \/ /\ ControlWrite("WRITE_RESPONSE", "IDLE",
                       [header EXCEPT !.response = request_seq])
       /\ last_request_seq' = request_seq

\* bus_available: the command queue and the ring's reads are idle.
ControlStartPoll ==
    /\ control_state = "IDLE" /\ CmdReady /\ ring_state # "POLL"
    /\ control_state' = "POLL_SEQ"
    /\ UNCHANGED <<host, header, slots, ring, engine, fence, request_seq,
                   last_request_seq, candidate_lo, session, resets, ghost>>

\* Mutant: a claim does not wait for the fence.
DeviceInitializedByRing == RingInitialized

DeviceInitialized == RingInitialized /\ fence_initialized

\* Mutant: only claims are considered.
ConsideredClaim ==
    /\ header.request # last_request_seq /\ header.request # Closed
    /\ DeviceInitialized /\ header.request = Claim

\* A request is considered if it needs an answer: any while a session is
\* active, else a claim once the ring and the fence have been initialised.
Considered ==
    /\ header.request # last_request_seq /\ header.request # Closed
    /\ session_active \/ (DeviceInitialized /\ header.request = Claim)

SessionEnds ==
    /\ header.request # last_request_seq
    /\ session_active /\ header.request = Closed

ControlReadSequence ==
    /\ control_state = "POLL_SEQ"
    /\ request_seq' = header.request
    /\ \/ /\ SessionEnds
          /\ control_state' = "WRITE_RESPONSE"
          /\ last_request_seq' = Closed /\ session_active' = FALSE
          /\ session_lo' = NoToken /\ session_hi' = NoToken
       \/ /\ ~SessionEnds
          /\ control_state' = IF Considered THEN "TOKEN_LO" ELSE "IDLE"
          /\ UNCHANGED <<last_request_seq, session>>
    /\ UNCHANGED <<host, header, slots, ring, engine, fence, candidate_lo,
                   resets, ghost>>

ControlReadTokenLo ==
    /\ control_state = "TOKEN_LO"
    /\ control_state' = "TOKEN_HI" /\ candidate_lo' = header.request_lo
    /\ UNCHANGED <<host, header, slots, ring, engine, fence, request_seq,
                   last_request_seq, session, resets, ghost>>

\* A claim opens a session; any other sequence must carry its token.
ControlReadTokenHi ==
    /\ control_state = "TOKEN_HI"
    /\ IF ~session_active /\ request_seq = Claim /\
          (candidate_lo # NoToken \/ header.request_hi # NoToken)
         THEN /\ control_state' = "WRITE_TOKEN_LO" /\ session_active' = TRUE
              /\ session_lo' = candidate_lo /\ session_hi' = header.request_hi
         ELSE /\ control_state' =
                   IF session_active /\ request_seq # Claim /\
                      candidate_lo = session_lo /\
                      header.request_hi = session_hi
                     THEN "WRITE_RESPONSE" ELSE "IDLE"
              /\ UNCHANGED session
    /\ UNCHANGED <<host, header, slots, ring, engine, fence, request_seq,
                   last_request_seq, candidate_lo, resets, ghost>>

\* A reset or reload of the core.  DRAM keeps the shared words.
CoreReset ==
    /\ resets < MaxResets
    /\ RacingStores \/ host_pc # "push"
    /\ resets' = resets + 1
    /\ ring_state' = "INIT_WPTR" /\ read_ptr' = 0 /\ slot_reg' = NoCommand
    /\ engine' = NoCommand
    /\ done_count' = 0 /\ published_count' = 0 /\ fence_initialized' = FALSE
    /\ control_state' = "INIT_MAGIC_CLEAR" /\ candidate_lo' = NoToken
    /\ request_seq' = Closed /\ last_request_seq' = Closed
    /\ session_lo' = NoToken /\ session_hi' = NoToken
    /\ session_active' = FALSE
    /\ UNCHANGED <<host, header, slots, ghost>>

-----------------------------------------------------------------------------
(* The host.                                                               *)

HostMove(from, to) ==
    /\ host_pc = from /\ host_pc' = to
    /\ UNCHANGED <<ring, engine, fence, control, resets, executed, finished>>

Answering == control_state \in {"TOKEN_LO", "TOKEN_HI", "WRITE_TOKEN_LO",
                                "WRITE_TOKEN_HI", "WRITE_RESPONSE"}
Settled == session_active \/ (~Answering /\ ~Considered)

\* open_common: static identity first, then the response must be clear.  A
\* core without a session polls every POLL_CYCLES and has acted on the
\* request of the previous process before a new one has mapped the link.
OpenMagic ==
    /\ HostMove("closed", "opening") /\ header.magic /\ Settled
    /\ next_handle <= MaxHandles
    /\ handle' = next_handle /\ next_handle' = next_handle + 1
    /\ submitted' = 0 /\ ping_seq' = 0 /\ ping_pending' = FALSE
    /\ UNCHANGED <<write_ptr, done_baseline, confirmed_done, header, slots,
                   reported>>

\* EBUSY or EOWNERDEAD: some session is still active.
OpenBusy ==
    /\ HostMove("opening", "closed") /\ header.response # Closed
    /\ handle' = NoToken
    /\ UNCHANGED <<next_handle, local, header, slots, reported>>

OpenResponse ==
    /\ HostMove("opening", "token_lo") /\ header.response = Closed
    /\ UNCHANGED <<handle, next_handle, local, header, slots, reported>>

OpenTokenLo ==
    /\ HostMove("token_lo", "token_hi")
    /\ header' = [header EXCEPT !.request_lo = handle]
    /\ UNCHANGED <<handle, next_handle, local, slots, reported>>

OpenTokenHi ==
    /\ HostMove("token_hi", "claim")
    /\ header' = [header EXCEPT !.request_hi = handle]
    /\ UNCHANGED <<handle, next_handle, local, slots, reported>>

OpenClaim ==
    /\ HostMove("claim", "claim_wait")
    /\ header' = [header EXCEPT !.request = Claim]
    /\ UNCHANGED <<handle, next_handle, local, slots, reported>>

OwnResponse == header.response_lo = handle /\ header.response_hi = handle

OpenClaimed ==
    /\ HostMove("claim_wait", "transport")
    /\ header.response = Claim /\ OwnResponse
    /\ UNCHANGED <<handle, next_handle, local, header, slots, reported>>

\* initialize_transport reads the write pointer and the count ...
OpenBaseline ==
    /\ HostMove("transport", "transport_check")
    /\ write_ptr' = header.write_ptr
    /\ done_baseline' = header.count /\ confirmed_done' = header.count
    /\ UNCHANGED <<handle, next_handle, submitted, ping_seq, ping_pending,
                   header, slots, reported>>

\* ... and the ring must be empty.
OpenReady ==
    /\ HostMove("transport_check", "ready") /\ write_ptr = header.read_ptr
    /\ UNCHANGED <<handle, next_handle, local, header, slots, reported>>

\* A failed open withdraws its claim: a timeout, or a ring that is not empty.
OpenFailed ==
    /\ \/ HostMove("claim_wait", "closed")
       \/ HostMove("transport_check", "closed") /\ write_ptr # header.read_ptr
    /\ handle' = NoToken
    /\ header' = [header EXCEPT !.request = Closed]
    /\ UNCHANGED <<next_handle, local, slots, reported>>

SessionOk == header.response # Closed /\ OwnResponse

\* noodles_link_check: a lost session faults the handle for good.
CheckFails ==
    /\ HostMove("ready", "faulted") /\ ~SessionOk
    /\ UNCHANGED <<handle, next_handle, local, header, slots, reported>>

Last == (done_baseline + submitted) % FenceMod
Reached(count, target) == (count - target) % FenceMod < FenceMod \div 2

\* A submission checks the session; the half-range rule of the tokens holds.
PushCheck ==
    /\ HostMove("ready", "push") /\ SessionOk
    /\ submitted < MaxCommands
    /\ (Last + 1 - confirmed_done) % FenceMod <= FenceMod \div 2
    /\ RacingStores \/ session_active
    /\ UNCHANGED <<handle, next_handle, local, header, slots, reported>>

\* The slot and then the pointer are stored, if the ring has space.
PushStore ==
    /\ HostMove("push", "ready")
    /\ IF (write_ptr + 1) % Slots = header.read_ptr
         THEN UNCHANGED <<write_ptr, submitted, header, slots>>
         ELSE /\ slots' = [slots EXCEPT ![write_ptr] =
                             [handle |-> handle, n |-> submitted + 1]]
              /\ write_ptr' = (write_ptr + 1) % Slots
              /\ header' = [header EXCEPT !.write_ptr = (write_ptr + 1) % Slots]
              /\ submitted' = submitted + 1
    /\ UNCHANGED <<handle, next_handle, done_baseline, confirmed_done,
                   ping_seq, ping_pending, reported>>

Report == reported' = reported \cup {[handle |-> handle, n |-> submitted]}

\* noodles_link_poll for the last fence, read by read.
PollCheck ==
    /\ HostMove("ready", "poll") /\ SessionOk /\ submitted > 0
    /\ UNCHANGED <<handle, next_handle, local, header, slots, reported>>

PollCached ==
    /\ HostMove("poll", "ready") /\ Reached(confirmed_done, Last)
    /\ Report
    /\ UNCHANGED <<handle, next_handle, local, header, slots>>

PollUnreached ==
    /\ HostMove("poll", "ready")
    /\ ~Reached(confirmed_done, Last) /\ ~Reached(header.count, Last)
    /\ UNCHANGED <<handle, next_handle, local, header, slots, reported>>

\* Mutant: the raw count is believed without a challenge.
PollReachedUnchallenged ==
    /\ HostMove("poll", "confirm")
    /\ ~Reached(confirmed_done, Last) /\ Reached(header.count, Last)
    /\ UNCHANGED <<handle, next_handle, local, header, slots, reported>>

PollReached ==
    /\ HostMove("poll", IF ping_pending THEN "response" ELSE "ping")
    /\ ~Reached(confirmed_done, Last) /\ Reached(header.count, Last)
    /\ UNCHANGED <<handle, next_handle, local, header, slots, reported>>

\* Mutant: a challenge may take the value of a claim.
PollPingIntoClaim ==
    /\ HostMove("ping", "ready") /\ ping_seq <= MaxPings
    /\ ping_seq' = ping_seq + 1 /\ ping_pending' = TRUE
    /\ header' = [header EXCEPT !.request = ping_seq + 1]
    /\ UNCHANGED <<handle, next_handle, write_ptr, submitted, done_baseline,
                   confirmed_done, slots, reported>>

PollPing ==
    /\ HostMove("ping", "ready") /\ ping_seq < MaxPings
    /\ ping_seq' = ping_seq + 1 /\ ping_pending' = TRUE
    /\ header' = [header EXCEPT !.request = ping_seq + 1]
    /\ UNCHANGED <<handle, next_handle, write_ptr, submitted, done_baseline,
                   confirmed_done, slots, reported>>

PollResponse ==
    /\ HostMove("response", IF header.response = ping_seq THEN "confirm"
                                                          ELSE "ready")
    /\ ping_pending' = (header.response # ping_seq)
    /\ UNCHANGED <<handle, next_handle, write_ptr, submitted, done_baseline,
                   confirmed_done, ping_seq, header, slots, reported>>

PollConfirm ==
    /\ HostMove("confirm", "ready")
    /\ confirmed_done' = header.count /\ Report
    /\ UNCHANGED <<handle, next_handle, write_ptr, submitted, done_baseline,
                   ping_seq, ping_pending, header, slots>>

\* A deadline passes in a wait or in close: the handle is faulted.
HostTimeout ==
    /\ HostMove("ready", "faulted") /\ submitted > 0
    /\ UNCHANGED <<handle, next_handle, local, header, slots, reported>>

\* noodles_link_close once drained: the session is given up ...
CloseDrained ==
    /\ HostMove("ready", "release") /\ SessionOk
    /\ Reached(confirmed_done, Last)
    /\ UNCHANGED <<handle, next_handle, local, header, slots, reported>>

CloseRelease ==
    /\ HostMove("release", "close_wait")
    /\ header' = [header EXCEPT !.request = Closed]
    /\ UNCHANGED <<handle, next_handle, local, slots, reported>>

\* ... and the answer awaited, up to the deadline.  A faulted handle is only
\* unmapped.  Process death ends a handle anywhere.
HandleEnds ==
    /\ host_pc # "closed" /\ HostMove(host_pc, "closed")
    /\ handle' = NoToken
    /\ UNCHANGED <<next_handle, local, header, slots, reported>>

-----------------------------------------------------------------------------
RingStep == RingInitWritePtr \/ RingInitReadPtr \/ RingStartPoll \/ RingFetch
            \/ RingDispatch \/ RingWriteBack
ControlStep == ControlInit \/ ControlAnswer \/ ControlReadSequence
               \/ ControlReadTokenLo \/ ControlReadTokenHi

HostStep ==
    \/ OpenMagic \/ OpenBusy \/ OpenResponse \/ OpenTokenLo \/ OpenTokenHi
    \/ OpenClaim \/ OpenClaimed \/ OpenBaseline \/ OpenReady \/ OpenFailed
    \/ CheckFails \/ PushCheck \/ PushStore
    \/ PollCheck \/ PollCached \/ PollUnreached \/ PollReached \/ PollPing
    \/ PollResponse \/ PollConfirm \/ HostTimeout
    \/ CloseDrained \/ CloseRelease \/ HandleEnds

Next == RingStep \/ EngineDone \/ FenceWrite \/ ControlStep
        \/ ControlStartPoll \/ HostStep \/ CoreReset

Spec == Init /\ [][Next]_vars

\* The core runs on its clock.  Between two polls the ring is idle for a
\* cycle, in which a waiting link_control takes the bus (SF); link_ring's
\* writes delay the fence only now and then (SF).
Fairness ==
    /\ WF_vars(RingStep) /\ WF_vars(EngineDone) /\ SF_vars(FenceWrite)
    /\ WF_vars(ControlStep) /\ SF_vars(ControlStartPoll)

FairSpec == Spec /\ Fairness
-----------------------------------------------------------------------------
(* Properties.                                                             *)

\* Types: the mapped words, the core's registers and the handle's private
\* state, each in the values the code stores in it.
TypeOK ==
    /\ host_pc \in {"closed", "opening", "token_lo", "token_hi", "claim",
                    "claim_wait", "transport", "transport_check", "ready",
                    "push", "poll", "ping", "response", "confirm", "faulted",
                    "release", "close_wait"}
    /\ handle \in Token /\ next_handle \in 1 .. MaxHandles + 1
    /\ write_ptr \in 0 .. Slots - 1 /\ submitted \in 0 .. MaxCommands
    /\ done_baseline \in 0 .. FenceMod - 1
    /\ confirmed_done \in 0 .. FenceMod - 1
    /\ ping_seq \in 0 .. MaxPings /\ ping_pending \in BOOLEAN
    /\ header \in Header
    /\ slots \in [0 .. Slots - 1 -> Command \cup {NoCommand}]
    /\ ring_state \in {"INIT_WPTR", "INIT_RPTR", "IDLE", "POLL", "DISPATCH",
                       "WRITE_BACK"}
    /\ read_ptr \in 0 .. Slots - 1
    /\ slot_reg \in Command \cup {NoCommand}
    /\ engine \in Command \cup {NoCommand}
    /\ done_count \in 0 .. FenceMod - 1
    /\ published_count \in 0 .. FenceMod - 1 /\ fence_initialized \in BOOLEAN
    /\ control_state \in {"INIT_MAGIC_CLEAR", "INIT_REQUEST_CLEAR",
                          "INIT_RESPONSE_CLEAR", "INIT_MAGIC", "IDLE",
                          "POLL_SEQ", "TOKEN_LO", "TOKEN_HI",
                          "WRITE_TOKEN_LO", "WRITE_TOKEN_HI",
                          "WRITE_RESPONSE"}
    /\ request_seq \in Sequence /\ last_request_seq \in Sequence
    /\ candidate_lo \in Token /\ session_lo \in Token /\ session_hi \in Token
    /\ session_active \in BOOLEAN /\ resets \in 0 .. MaxResets
    /\ executed \subseteq Command \cup {NoCommand}
    /\ finished \subseteq Command \cup {NoCommand}
    /\ reported \subseteq Command

Open == host_pc \in {"ready", "push", "poll", "ping", "response", "confirm",
                     "release"}
SessionOwned ==
    session_active /\ session_lo = handle /\ session_hi = handle
ResponseStale == control_state \in
    {"INIT_MAGIC_CLEAR", "INIT_REQUEST_CLEAR", "INIT_RESPONSE_CLEAR"}

\* A handle whose check passes holds the core's session, with both halves of
\* its token, unless the core is just resetting and has not yet cleared the
\* old answer: no torn, abandoned or overtaken claim, and no session of an
\* earlier core, passes for a live one.
CheckMeansOwned == Open /\ SessionOk => SessionOwned \/ ResponseStale

\* What a poll reports complete has finished on the core, although DRAM
\* keeps the counts and answers of earlier cores, a reset moves the count
\* back and the comparison is modulo the fence range.
ReportedIsFinished == reported \subseteq finished

InFlight == ((write_ptr - read_ptr) % Slots) +
            (IF engine = NoCommand THEN 0 ELSE 1)

\* While the session is held, the fence the host expects is the core's count
\* plus what is in the ring and the engine: every handle starts from exact
\* pointers and an exact count.
CountsAgree ==
    Open /\ SessionOwned => (done_count + InFlight - Last) % FenceMod = 0

\* The core runs only commands of the handle that holds the session.
RunsOwnCommands ==
    engine # NoCommand => session_active /\ engine.handle = session_lo

\* It runs each of them once.
RunsOnce ==
    [][engine' # engine /\ engine' # NoCommand => engine' \notin executed]_vars

\* Waiting for the answer to a claim, to a challenge or to a close.
Waiting(s) ==
    /\ header.request = s
    /\ \/ host_pc = "claim_wait" /\ s = Claim
       \/ Open /\ SessionOk /\ ping_pending /\ s = ping_seq
       \/ host_pc = "close_wait" /\ s = Closed

\* The core answers what the host waits for, whatever the ring is doing,
\* unless the host gives up or a reset takes the request away.
EveryRequestAnswered ==
    \A s \in Sequence : Waiting(s) ~> header.response = s \/ ~Waiting(s)
=============================================================================
