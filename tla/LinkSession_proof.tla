------------------------- MODULE LinkSession_proof -------------------------
(***************************************************************************)
(* Proofs about LinkSession, for every ring size, fence modulus and bound. *)
(***************************************************************************)
EXTENDS LinkSession, TLAPS

LEMMA ModType == ASSUME NEW n \in Nat, n > 0, NEW x \in Int
                 PROVE  x % n \in 0 .. n - 1
BY SMT

LEMMA ConstantType ==
    /\ Slots \in Nat /\ Slots >= 2 /\ 0 \in 0 .. Slots - 1
    /\ FenceMod \in Nat /\ FenceMod >= 4 /\ 0 \in 0 .. FenceMod - 1
    /\ Claim \in Nat /\ Claim > 0 /\ Claim > MaxPings /\ MaxPings \in Nat
    /\ MaxHandles \in Nat /\ MaxCommands \in Nat /\ MaxResets \in Nat
    /\ Closed \in Sequence /\ Claim \in Sequence /\ NoToken \in Token
    /\ NoCommand \in Command \cup {NoCommand}
BY LinkSessionAssumption DEF Claim, Sequence, Closed, NoToken, Token

-----------------------------------------------------------------------------
(* Type correctness.                                                       *)

LEMMA HeaderType ==
    ASSUME NEW h \in Header
    PROVE  /\ h.write_ptr \in 0 .. Slots - 1 /\ h.read_ptr \in 0 .. Slots - 1
           /\ h.count \in 0 .. FenceMod - 1
           /\ h.request \in Sequence /\ h.response \in Sequence
           /\ h.request_lo \in Token /\ h.request_hi \in Token
           /\ h.response_lo \in Token /\ h.response_hi \in Token
           /\ \A v \in BOOLEAN : [h EXCEPT !.magic = v] \in Header
           /\ \A v \in 0 .. Slots - 1 : [h EXCEPT !.write_ptr = v] \in Header
           /\ \A v \in 0 .. Slots - 1 : [h EXCEPT !.read_ptr = v] \in Header
           /\ \A v \in 0 .. FenceMod - 1 : [h EXCEPT !.count = v] \in Header
           /\ \A v \in Sequence : [h EXCEPT !.request = v] \in Header
           /\ \A v \in Token : [h EXCEPT !.request_lo = v] \in Header
           /\ \A v \in Token : [h EXCEPT !.request_hi = v] \in Header
           /\ \A v \in Sequence : [h EXCEPT !.response = v] \in Header
           /\ \A v \in Token : [h EXCEPT !.response_lo = v] \in Header
           /\ \A v \in Token : [h EXCEPT !.response_hi = v] \in Header
BY DEF Header

LEMMA TypeInit == Init => TypeOK
<1> SUFFICES ASSUME Init PROVE TypeOK
  OBVIOUS
<1>1. header \in Header
  BY ConstantType DEF Init, Header, NoToken, Token
<1>2. slots \in [0 .. Slots - 1 -> Command \cup {NoCommand}]
  BY DEF Init
<1>3. /\ next_handle \in 1 .. MaxHandles + 1 /\ submitted \in 0 .. MaxCommands
      /\ ping_seq \in 0 .. MaxPings /\ resets \in 0 .. MaxResets
  BY ConstantType DEF Init
<1> QED BY <1>1, <1>2, <1>3, ConstantType DEF Init, TypeOK

USE DEF local, host, ring, fence, session, control, ghost, vars

LEMMA TypeRing == ASSUME TypeOK, RingStep PROVE TypeOK'
<1>1. CASE RingInitWritePtr
  <2>1. header' \in Header
    BY <1>1, ConstantType, HeaderType DEF TypeOK, RingInitWritePtr
  <2> QED BY <1>1, <2>1 DEF TypeOK, RingInitWritePtr
<1>2. CASE RingInitReadPtr
  <2>1. header' \in Header
    BY <1>2, ConstantType, HeaderType DEF TypeOK, RingInitReadPtr
  <2> QED BY <1>2, <2>1 DEF TypeOK, RingInitReadPtr
<1>3. CASE RingStartPoll
  BY <1>3 DEF TypeOK, RingStartPoll
<1>4. CASE RingFetch
  BY <1>4 DEF TypeOK, RingFetch
<1>5. CASE RingDispatch
  <2>1. read_ptr' \in 0 .. Slots - 1
    BY <1>5, ModType, ConstantType DEF TypeOK, RingDispatch
  <2> QED BY <1>5, <2>1 DEF TypeOK, RingDispatch
<1>6. CASE RingWriteBack
  <2>1. header' \in Header
    BY <1>6, HeaderType DEF TypeOK, RingWriteBack
  <2> QED BY <1>6, <2>1 DEF TypeOK, RingWriteBack
<1> QED BY <1>1, <1>2, <1>3, <1>4, <1>5, <1>6 DEF RingStep

LEMMA TypeControl == ASSUME TypeOK, ControlStep \/ ControlStartPoll PROVE TypeOK'
<1>1. CASE ControlInit
  <2>1. FALSE \in BOOLEAN /\ TRUE \in BOOLEAN /\ Closed \in Sequence /\ header \in Header
    BY ConstantType DEF TypeOK
  <2>2. header' \in Header
    BY <1>1, <2>1, HeaderType DEF ControlInit, ControlWrite
  <2> QED BY <1>1, <2>2 DEF TypeOK, ControlInit, ControlWrite
<1>2. CASE ControlAnswer
  <2>1. header' \in Header
    BY <1>2, HeaderType DEF TypeOK, ControlAnswer, ControlWrite
  <2> QED BY <1>2, <2>1 DEF TypeOK, ControlAnswer, ControlWrite
<1>3. CASE ControlStartPoll
  BY <1>3 DEF TypeOK, ControlStartPoll
<1>4. CASE ControlReadSequence
  <2>1. request_seq' \in Sequence
    BY <1>4, HeaderType DEF TypeOK, ControlReadSequence
  <2>2. /\ session_lo' \in Token /\ session_hi' \in Token
        /\ session_active' \in BOOLEAN /\ last_request_seq' \in Sequence
    <3>1. CASE SessionEnds
      BY <1>4, <3>1, ConstantType DEF TypeOK, ControlReadSequence
    <3>2. CASE ~SessionEnds
      BY <1>4, <3>2 DEF TypeOK, ControlReadSequence
    <3> QED BY <3>1, <3>2
  <2>3. control_state' \in {"WRITE_RESPONSE", "TOKEN_LO", "IDLE"}
    BY <1>4 DEF ControlReadSequence
  <2> QED BY <1>4, <2>1, <2>2, <2>3 DEF TypeOK, ControlReadSequence
<1>5. CASE ControlReadTokenLo
  BY <1>5, HeaderType DEF TypeOK, ControlReadTokenLo
<1>6. CASE ControlReadTokenHi
  <2>1. control_state' \in {"WRITE_TOKEN_LO", "WRITE_RESPONSE", "IDLE"}
    BY <1>6 DEF ControlReadTokenHi
  <2>2. /\ session_lo' \in Token /\ session_hi' \in Token
        /\ session_active' \in BOOLEAN
    BY <1>6, HeaderType DEF TypeOK, ControlReadTokenHi
  <2> QED BY <1>6, <2>1, <2>2 DEF TypeOK, ControlReadTokenHi
<1> QED BY <1>1, <1>2, <1>3, <1>4, <1>5, <1>6 DEF ControlStep

LEMMA TypeEngine ==
    ASSUME TypeOK, EngineDone \/ FenceWrite \/ CoreReset PROVE TypeOK'
<1>1. CASE EngineDone
  <2>1. done_count' \in 0 .. FenceMod - 1
    BY <1>1, ModType, ConstantType DEF TypeOK, EngineDone
  <2> QED BY <1>1, <2>1 DEF TypeOK, EngineDone
<1>2. CASE FenceWrite
  <2>1. header' \in Header
    BY <1>2, HeaderType DEF TypeOK, FenceWrite
  <2> QED BY <1>2, <2>1 DEF TypeOK, FenceWrite
<1>3. CASE CoreReset
  <2>1. resets' \in 0 .. MaxResets
    BY <1>3, ConstantType DEF TypeOK, CoreReset
  <2> QED BY <1>3, <2>1, ConstantType DEF TypeOK, CoreReset
<1> QED BY <1>1, <1>2, <1>3

OpenStep ==
    OpenMagic \/ OpenBusy \/ OpenResponse \/ OpenTokenLo \/ OpenTokenHi
    \/ OpenClaim \/ OpenClaimed \/ OpenBaseline \/ OpenReady \/ OpenFailed

LEMMA TypeOpen ==
    ASSUME TypeOK, OpenStep PROVE TypeOK'
<1>1. CASE OpenMagic
  <2>1. /\ handle' \in Token /\ next_handle' \in 1 .. MaxHandles + 1
        /\ submitted' \in 0 .. MaxCommands /\ ping_seq' \in 0 .. MaxPings
    BY <1>1, ConstantType DEF TypeOK, OpenMagic, Token
  <2> QED BY <1>1, <2>1, ZenonT(40) DEF TypeOK, OpenMagic, HostMove
<1>2. CASE OpenBusy
  BY <1>2, ConstantType DEF TypeOK, OpenBusy, HostMove
<1>3. CASE OpenResponse
  BY <1>3 DEF TypeOK, OpenResponse, HostMove
<1>4. CASE OpenTokenLo
  <2>1. header' \in Header
    BY <1>4, HeaderType DEF TypeOK, OpenTokenLo
  <2> QED BY <1>4, <2>1 DEF TypeOK, OpenTokenLo, HostMove
<1>5. CASE OpenTokenHi
  <2>1. header' \in Header
    BY <1>5, HeaderType DEF TypeOK, OpenTokenHi
  <2> QED BY <1>5, <2>1 DEF TypeOK, OpenTokenHi, HostMove
<1>6. CASE OpenClaim
  <2>1. header' \in Header
    BY <1>6, ConstantType, HeaderType DEF TypeOK, OpenClaim
  <2> QED BY <1>6, <2>1 DEF TypeOK, OpenClaim, HostMove
<1>7. CASE OpenClaimed
  BY <1>7 DEF TypeOK, OpenClaimed, HostMove
<1>8. CASE OpenBaseline
  BY <1>8, HeaderType DEF TypeOK, OpenBaseline, HostMove
<1>9. CASE OpenReady
  BY <1>9 DEF TypeOK, OpenReady, HostMove
<1>10. CASE OpenFailed
  <2>1. header' \in Header /\ handle' \in Token
    BY <1>10, ConstantType, HeaderType DEF TypeOK, OpenFailed
  <2> QED BY <1>10, <2>1 DEF TypeOK, OpenFailed, HostMove
<1> QED BY <1>1, <1>2, <1>3, <1>4, <1>5, <1>6, <1>7, <1>8, <1>9, <1>10
      DEF OpenStep

LEMMA LastType == TypeOK => Last \in 0 .. FenceMod - 1
BY ModType, ConstantType DEF TypeOK, Last

\* What the calls in progress have checked: types alone do not bound the
\* command that is stored or reported.
CallInv ==
    /\ host_pc # "closed" => handle # NoToken
    /\ host_pc = "push" => submitted < MaxCommands
    /\ host_pc \in {"poll", "ping", "response", "confirm"} => submitted > 0
    /\ ping_pending => ping_seq > 0
    /\ host_pc = "response" => ping_pending

LEMMA CommandType ==
    ASSUME TypeOK, handle # NoToken
    PROVE  /\ submitted > 0 => [handle |-> handle, n |-> submitted] \in Command
           /\ submitted < MaxCommands
                => [handle |-> handle, n |-> submitted + 1] \in Command
BY ConstantType DEF TypeOK, Command, Token, NoToken, Handle

LEMMA TypeUse ==
    ASSUME TypeOK, CallInv,
           CheckFails \/ PushCheck \/ PushStore \/ PollCheck \/ PollCached
           \/ PollUnreached \/ PollReached \/ PollPing \/ PollResponse
           \/ PollConfirm \/ HostTimeout \/ CloseDrained \/ CloseRelease
           \/ HandleEnds
    PROVE  TypeOK'
<1>1. CASE CheckFails
  BY <1>1 DEF TypeOK, CheckFails, HostMove
<1>2. CASE PushCheck
  BY <1>2 DEF TypeOK, PushCheck, HostMove
<1>3. CASE PushStore
  <2>1. CASE (write_ptr + 1) % Slots = header.read_ptr
    BY <1>3, <2>1 DEF TypeOK, PushStore, HostMove
  <2>2. CASE (write_ptr + 1) % Slots # header.read_ptr
    <3> DEFINE next == (write_ptr + 1) % Slots
               command == [handle |-> handle, n |-> submitted + 1]
    <3>1. next \in 0 .. Slots - 1
      BY ConstantType, ModType DEF TypeOK
    <3>2. command \in Command /\ submitted + 1 \in 0 .. MaxCommands
      <4>1. handle # NoToken /\ submitted < MaxCommands
        BY <1>3 DEF CallInv, PushStore, HostMove
      <4> QED BY <4>1, CommandType, ConstantType DEF TypeOK
    <3>3. /\ write_ptr' = next /\ submitted' = submitted + 1
          /\ header' = [header EXCEPT !.write_ptr = next]
          /\ slots' = [slots EXCEPT ![write_ptr] = command]
          /\ host_pc' = "ready"
          /\ UNCHANGED <<handle, next_handle, done_baseline, confirmed_done,
                          ping_seq, ping_pending, reported, ring, engine,
                          fence, control, resets, executed, finished>>
      BY <1>3, <2>2 DEF PushStore, HostMove
    <3> HIDE DEF next, command
    <3>4. header' \in Header
      BY <3>1, <3>3, HeaderType DEF TypeOK
    <3>5. slots' \in [0 .. Slots - 1 -> Command \cup {NoCommand}]
      BY <3>2, <3>3 DEF TypeOK
    <3>6. write_ptr' \in 0 .. Slots - 1 /\ submitted' \in 0 .. MaxCommands
      BY <3>1, <3>2, <3>3
    <3> QED BY <3>3, <3>4, <3>5, <3>6 DEF TypeOK
  <2> QED BY <2>1, <2>2
<1>4. CASE PollCheck
  BY <1>4 DEF TypeOK, PollCheck, HostMove
<1>5. CASE PollCached
  <2>1. reported' \subseteq Command
    BY <1>5, CommandType DEF TypeOK, CallInv, PollCached, HostMove, Report
  <2> QED BY <1>5, <2>1 DEF TypeOK, PollCached, HostMove
<1>6. CASE PollUnreached
  BY <1>6 DEF TypeOK, PollUnreached, HostMove
<1>7. CASE PollReached
  BY <1>7 DEF TypeOK, PollReached, HostMove
<1>8. CASE PollPing
  <2>1. ping_seq + 1 \in 0 .. MaxPings /\ ping_seq + 1 \in Sequence
    <3>1. ping_seq \in 0 .. MaxPings /\ ping_seq < MaxPings
      BY <1>8 DEF TypeOK, PollPing
    <3> QED BY <3>1, ConstantType DEF Sequence, Claim
  <2>2. header' \in Header
    <3>1. header \in Header /\ header' = [header EXCEPT !.request = ping_seq + 1]
      BY <1>8 DEF TypeOK, PollPing
    <3> QED BY <2>1, <3>1, HeaderType
  <2> QED BY <1>8, <2>1, <2>2 DEF TypeOK, PollPing, HostMove
<1>9. CASE PollResponse
  BY <1>9 DEF TypeOK, PollResponse, HostMove
<1>10. CASE PollConfirm
  <2>1. reported' \subseteq Command
    <3>1. handle # NoToken /\ submitted > 0
      BY <1>10 DEF CallInv, PollConfirm, HostMove
    <3> QED BY <1>10, <3>1, CommandType DEF TypeOK, PollConfirm, Report
  <2>2. confirmed_done' \in 0 .. FenceMod - 1
    BY <1>10, HeaderType DEF TypeOK, PollConfirm
  <2> QED BY <1>10, <2>1, <2>2 DEF TypeOK, PollConfirm, HostMove
<1>11. CASE HostTimeout
  BY <1>11 DEF TypeOK, HostTimeout, HostMove
<1>12. CASE CloseDrained
  BY <1>12 DEF TypeOK, CloseDrained, HostMove
<1>13. CASE CloseRelease
  <2>1. header' \in Header
    BY <1>13, ConstantType, HeaderType DEF TypeOK, CloseRelease
  <2> QED BY <1>13, <2>1 DEF TypeOK, CloseRelease, HostMove
<1>14. CASE HandleEnds
  BY <1>14, ConstantType DEF TypeOK, HandleEnds, HostMove
<1> QED BY <1>1, <1>2, <1>3, <1>4, <1>5, <1>6, <1>7, <1>8, <1>9, <1>10, <1>11,
           <1>12, <1>13, <1>14

LEMMA CallCore ==
    ASSUME CallInv, UNCHANGED <<host_pc, handle, submitted, ping_seq, ping_pending>>
    PROVE  CallInv'
BY DEF CallInv

LEMMA CallStep == TypeOK /\ CallInv /\ [Next]_vars => CallInv'
<1> SUFFICES ASSUME TypeOK, CallInv, [Next]_vars PROVE CallInv'
  OBVIOUS
<1>1. CASE RingStep
  BY <1>1, CallCore DEF RingStep, RingInitWritePtr, RingInitReadPtr,
     RingStartPoll, RingFetch, RingDispatch, RingWriteBack
<1>2. CASE EngineDone \/ FenceWrite \/ CoreReset \/ ControlStartPoll
  BY <1>2, CallCore DEF EngineDone, FenceWrite, CoreReset, ControlStartPoll
<1>3. CASE ControlStep
  BY <1>3, CallCore DEF ControlStep, ControlInit, ControlAnswer, ControlWrite,
     ControlReadSequence, ControlReadTokenLo, ControlReadTokenHi
<1>4. CASE HostStep
  <2>1. CASE OpenMagic
    BY <2>1 DEF TypeOK, CallInv, OpenMagic, HostMove, NoToken
  <2>2. CASE OpenBusy \/ OpenResponse \/ OpenTokenLo \/ OpenTokenHi \/ OpenClaim
    BY <2>2 DEF CallInv, OpenBusy, OpenResponse, OpenTokenLo, OpenTokenHi,
       OpenClaim, HostMove
  <2>3. CASE OpenClaimed \/ OpenBaseline \/ OpenReady \/ OpenFailed
    BY <2>3 DEF CallInv, OpenClaimed, OpenBaseline, OpenReady, OpenFailed, HostMove
  <2>4. CASE CheckFails \/ PushCheck \/ PollCheck \/ HostTimeout \/ CloseDrained
              \/ CloseRelease \/ HandleEnds
    BY <2>4 DEF CallInv, CheckFails, PushCheck, PollCheck, HostTimeout,
       CloseDrained, CloseRelease, HandleEnds, HostMove
  <2>5. CASE PushStore
    BY <2>5 DEF CallInv, PushStore, HostMove
  <2>6. CASE PollCached \/ PollUnreached \/ PollReached \/ PollConfirm
    BY <2>6 DEF CallInv, PollCached, PollUnreached, PollReached, PollConfirm, HostMove
  <2>7. CASE PollPing
    BY <2>7 DEF TypeOK, CallInv, PollPing, HostMove
  <2>8. CASE PollResponse
    BY <2>8 DEF CallInv, PollResponse, HostMove
  <2> QED BY <1>4, <2>1, <2>2, <2>3, <2>4, <2>5, <2>6, <2>7, <2>8 DEF HostStep
<1>5. CASE UNCHANGED vars
  BY <1>5, CallCore
<1> QED BY <1>1, <1>2, <1>3, <1>4, <1>5 DEF Next

LEMMA TypeStep == TypeOK /\ CallInv /\ [Next]_vars => TypeOK'
<1> SUFFICES ASSUME TypeOK, CallInv, [Next]_vars PROVE TypeOK'
  OBVIOUS
<1>1. CASE HostStep
  BY <1>1, TypeOpen, TypeUse DEF HostStep, OpenStep
<1>2. CASE UNCHANGED vars
  BY <1>2 DEF TypeOK
<1> QED BY <1>1, <1>2, TypeRing, TypeControl, TypeEngine DEF Next

LEMMA CallCorrect == Spec => [](TypeOK /\ CallInv)
<1>1. Init => CallInv
  BY DEF Init, CallInv
<1> QED BY <1>1, TypeInit, TypeStep, CallStep, PTL DEF Spec

\* Every mapped word, core register and private word of a handle stays in its
\* range: rings, fences and sequences of any size.
THEOREM TypeCorrect == Spec => []TypeOK
BY CallCorrect, PTL

-----------------------------------------------------------------------------
(* The handshake: who holds the session, and what the mapped answer means. *)

InitStates == {"INIT_MAGIC_CLEAR", "INIT_REQUEST_CLEAR",
               "INIT_RESPONSE_CLEAR", "INIT_MAGIC"}
\* The handle has not given its request up.
Live == host_pc \notin {"closed", "close_wait"}
\* It has not claimed yet ...
Before == host_pc \in {"opening", "token_lo", "token_hi", "claim"}
\* ... or has been answered.
Held == host_pc \in {"transport", "transport_check", "ready", "push", "poll",
                     "ping", "response", "confirm", "release"}
\* The core reads the token of a claim.
Claiming == ~session_active /\ control_state \in {"TOKEN_LO", "TOKEN_HI"}

\* A token appears nowhere before its handle has stored it, half by half.
TokenInv ==
    /\ handle = IF host_pc = "closed" THEN NoToken ELSE next_handle - 1
    /\ header.request_lo < next_handle /\ header.request_hi < next_handle
    /\ header.response_lo < next_handle /\ header.response_hi < next_handle
    /\ candidate_lo < next_handle
    /\ session_lo < next_handle /\ session_hi < next_handle
    /\ host_pc \in {"opening", "token_lo"} =>
         handle \notin {header.request_lo, candidate_lo, session_lo,
                        header.response_lo}
    /\ host_pc \in {"opening", "token_lo", "token_hi"} =>
         handle \notin {header.request_hi, session_hi, header.response_hi}
    /\ host_pc \notin {"closed", "opening", "token_lo"} =>
         header.request_lo = handle
    /\ host_pc \notin {"closed", "opening", "token_lo", "token_hi"} =>
         header.request_hi = handle

\* The answer in DRAM is the core's session, or it is clear, or the core is
\* about to clear it.
ControlInv ==
    /\ control_state \in InitStates => ~fence_initialized
    /\ ~DeviceInitialized => ~session_active /\ ~Claiming
    /\ ~session_active => last_request_seq = Closed
    /\ control_state \in {"TOKEN_LO", "TOKEN_HI"} => request_seq # Closed
    /\ control_state \in {"WRITE_TOKEN_LO", "WRITE_TOKEN_HI"} =>
         session_active /\ request_seq # Closed /\ header.response = Closed
    /\ control_state = "WRITE_RESPONSE" =>
         (request_seq # Closed <=> session_active)
    /\ ~session_active /\ ~ResponseStale /\ control_state # "WRITE_RESPONSE" =>
         header.response = Closed
    /\ session_active /\ control_state # "WRITE_TOKEN_LO" =>
         header.response_lo = session_lo
    /\ session_active /\ control_state \notin {"WRITE_TOKEN_LO", "WRITE_TOKEN_HI"} =>
         header.response_hi = session_hi

\* A handle's request stays while it lives, so its session is not closed under
\* it; only a reset takes a session away.
RequestInv ==
    /\ Live /\ Claiming =>
         header.request # Closed /\ (Before => header.request = Claim)
    /\ Live /\ SessionOwned => header.request # Closed
    /\ Live /\ SessionOk /\ ~session_active => ResponseStale
    /\ Held => OwnResponse /\ (SessionOwned \/ ~session_active)
    /\ Held /\ Claiming /\ control_state = "TOKEN_HI" => candidate_lo = handle

HandshakeInv == TokenInv /\ ControlInv /\ RequestInv

LEMMA HandshakeInit == Init => HandshakeInv
BY DEF Init, HandshakeInv, TokenInv, ControlInv, RequestInv, InitStates, Live,
   Held, Claiming, SessionOk, SessionOwned, OwnResponse, ResponseStale,
   DeviceInitialized, RingInitialized, NoToken, Closed

\* The ring, the engine and the fence leave the handshake words alone.
handshake == <<header.request, header.request_lo, header.request_hi,
               header.response, header.response_lo, header.response_hi>>

LEMMA RingHeader ==
    ASSUME TypeOK, RingStep \/ EngineDone \/ FenceWrite
    PROVE  UNCHANGED <<handshake, host, control>>
<1> USE DEF TypeOK, Header, handshake
<1>1. CASE RingStep
  BY <1>1 DEF RingStep, RingInitWritePtr, RingInitReadPtr,
     RingStartPoll, RingFetch, RingDispatch, RingWriteBack
<1>2. CASE EngineDone
  BY <1>2 DEF EngineDone
<1>3. CASE FenceWrite
  BY <1>3 DEF FenceWrite
<1> QED BY <1>1, <1>2, <1>3

LEMMA ControlHost ==
    ASSUME ControlStep \/ ControlStartPoll \/ CoreReset
    PROVE  UNCHANGED <<host, slots, ghost>>
BY DEF ControlStartPoll, CoreReset, ControlStep, ControlInit, ControlAnswer, ControlWrite,
     ControlReadSequence, ControlReadTokenLo, ControlReadTokenHi

LEMMA TokenFrame ==
    ASSUME TokenInv, UNCHANGED <<handshake, host_pc, handle, next_handle,
                                 candidate_lo, session_lo, session_hi>>
    PROVE  TokenInv'
BY DEF TokenInv, handshake

LEMMA TokenStep == TypeOK /\ CallInv /\ TokenInv /\ [Next]_vars => TokenInv'
<1> SUFFICES ASSUME TypeOK, CallInv, TokenInv, [Next]_vars PROVE TokenInv'
  OBVIOUS
<1> USE DEF NoToken
<1>0. /\ next_handle \in Nat /\ next_handle > 0
      /\ host_pc # "closed" => handle # NoToken
  BY DEF TypeOK, CallInv
<1>1. CASE RingStep \/ EngineDone \/ FenceWrite
  BY <1>1, RingHeader, TokenFrame
<1>2. CASE CoreReset
  BY <1>0, <1>2 DEF CoreReset, TokenInv
<1>3. CASE ControlStartPoll
  BY <1>3, TokenFrame DEF ControlStartPoll, handshake
<1>4. CASE ControlStep
  <2>1. CASE ControlInit
    BY <2>1 DEF ControlInit, ControlWrite, TokenInv, TypeOK, Header
  <2>2. CASE ControlAnswer
    BY <2>2 DEF ControlAnswer, ControlWrite, TokenInv, TypeOK, Header
  <2>3. CASE ControlReadSequence
    BY <1>0, <2>3 DEF ControlReadSequence, TokenInv
  <2>4. CASE ControlReadTokenLo
    BY <2>4 DEF ControlReadTokenLo, TokenInv
  <2>5. CASE ControlReadTokenHi
    BY <2>5 DEF ControlReadTokenHi, TokenInv
  <2> QED BY <1>4, <2>1, <2>2, <2>3, <2>4, <2>5 DEF ControlStep
<1>5. CASE HostStep
  <2> USE <1>0
  <2>1. CASE OpenMagic
    <3>1. /\ header.request_lo \in Nat /\ header.request_hi \in Nat
          /\ header.response_lo \in Nat /\ header.response_hi \in Nat
          /\ candidate_lo \in Nat /\ session_lo \in Nat /\ session_hi \in Nat
      BY ConstantType DEF TypeOK, Header, Token
    <3> QED BY <2>1, <3>1 DEF TokenInv, OpenMagic, HostMove
  <2>2. CASE OpenBusy \/ OpenResponse
    BY <2>2 DEF TokenInv, OpenBusy, OpenResponse, HostMove
  <2>3. CASE OpenTokenLo
    BY <2>3 DEF TokenInv, OpenTokenLo, HostMove, TypeOK, Header
  <2>4. CASE OpenTokenHi
    BY <2>4 DEF TokenInv, OpenTokenHi, HostMove, TypeOK, Header
  <2>5. CASE OpenClaim
    BY <2>5 DEF TokenInv, OpenClaim, HostMove, TypeOK, Header
  <2>6. CASE OpenClaimed \/ OpenBaseline \/ OpenReady
    BY <2>6 DEF TokenInv, OpenClaimed, OpenBaseline, OpenReady, HostMove
  <2>7. CASE OpenFailed
    BY <2>7 DEF TokenInv, OpenFailed, HostMove, TypeOK, Header
  <2>8. CASE CheckFails \/ PushCheck \/ PollCheck \/ HostTimeout \/ CloseDrained
    BY <2>8 DEF TokenInv, CheckFails, PushCheck, PollCheck, HostTimeout,
       CloseDrained, HostMove
  <2>9. CASE PushStore
    BY <2>9 DEF TokenInv, PushStore, HostMove, TypeOK, Header
  <2>10. CASE PollCached \/ PollUnreached \/ PollReached \/ PollResponse \/ PollConfirm
    BY <2>10 DEF TokenInv, PollCached, PollUnreached, PollReached, PollResponse,
       PollConfirm, HostMove
  <2>11. CASE PollPing
    BY <2>11 DEF TokenInv, PollPing, HostMove, TypeOK, Header
  <2>12. CASE CloseRelease
    BY <2>12 DEF TokenInv, CloseRelease, HostMove, TypeOK, Header
  <2>13. CASE HandleEnds
    BY <2>13 DEF TokenInv, HandleEnds, HostMove
  <2> QED BY <1>5, <2>1, <2>2, <2>3, <2>4, <2>5, <2>6, <2>7, <2>8, <2>9, <2>10,
             <2>11, <2>12, <2>13 DEF HostStep
<1>6. CASE UNCHANGED vars
  BY <1>6, TokenFrame DEF handshake
<1> QED BY <1>1, <1>2, <1>3, <1>4, <1>5, <1>6 DEF Next

\* The host stores neither an answer nor anything else of the core's.
answer == <<header.response, header.response_lo, header.response_hi>>

LEMMA HostCore ==
    ASSUME TypeOK, HostStep
    PROVE  UNCHANGED <<answer, ring, engine, fence, control, resets, executed,
                       finished>>
<1> USE DEF answer
<1>1. CASE OpenStep
  <2>1. CASE OpenTokenLo \/ OpenTokenHi
    BY <2>1 DEF OpenTokenLo, OpenTokenHi, HostMove, TypeOK, Header
  <2>2. CASE OpenClaim \/ OpenFailed
    BY <2>2 DEF OpenClaim, OpenFailed, HostMove, TypeOK, Header
  <2>3. CASE OpenMagic \/ OpenBusy \/ OpenResponse \/ OpenClaimed
             \/ OpenBaseline \/ OpenReady
    BY <2>3 DEF OpenMagic, OpenBusy, OpenResponse, OpenClaimed, OpenBaseline,
       OpenReady, HostMove
  <2> QED BY <1>1, <2>1, <2>2, <2>3 DEF OpenStep
<1>2. CASE PushStore
  BY <1>2 DEF PushStore, HostMove, TypeOK, Header
<1>3. CASE PollPing \/ CloseRelease
  BY <1>3 DEF PollPing, CloseRelease, HostMove, TypeOK, Header
<1>4. CASE CheckFails \/ PushCheck \/ PollCheck \/ PollCached
           \/ PollUnreached \/ PollReached \/ PollResponse
           \/ PollConfirm \/ HostTimeout \/ CloseDrained \/ HandleEnds
  BY <1>4 DEF CheckFails, PushCheck, PollCheck, PollCached, PollUnreached,
     PollReached, PollResponse, PollConfirm, HostTimeout, CloseDrained,
     HandleEnds, HostMove
<1> QED BY <1>1, <1>2, <1>3, <1>4 DEF HostStep, OpenStep

LEMMA ControlStepInv == TypeOK /\ ControlInv /\ [Next]_vars => ControlInv'
<1> SUFFICES ASSUME TypeOK, ControlInv, [Next]_vars PROVE ControlInv'
  OBVIOUS
<1> USE DEF ControlInv, InitStates, Claiming, DeviceInitialized,
            RingInitialized, ResponseStale
<1>1. CASE RingStep
  <2>1. RingInitialized => RingInitialized'
    BY <1>1 DEF RingStep, RingInitWritePtr, RingInitReadPtr,
       RingStartPoll, RingFetch, RingDispatch, RingWriteBack
  <2>2. UNCHANGED fence
    BY <1>1 DEF RingStep, RingInitWritePtr, RingInitReadPtr,
       RingStartPoll, RingFetch, RingDispatch, RingWriteBack
  <2> QED BY <1>1, <2>1, <2>2, RingHeader DEF handshake
<1>2. CASE EngineDone
  BY <1>2, RingHeader DEF EngineDone, handshake
<1>3. CASE FenceWrite
  BY <1>3, RingHeader DEF FenceWrite, handshake, ControlWrites
<1>4. CASE CoreReset
  BY <1>4 DEF CoreReset
<1>5. CASE ControlStartPoll
  BY <1>5 DEF ControlStartPoll
<1>6. CASE ControlInit
  BY <1>6 DEF ControlInit, ControlWrite, TypeOK, Header
<1>7. CASE ControlAnswer
  BY <1>7 DEF ControlAnswer, ControlWrite, TypeOK, Header
<1>8. CASE ControlReadSequence
  BY <1>8 DEF ControlReadSequence, SessionEnds, Considered
<1>9. CASE ControlReadTokenLo
  BY <1>9 DEF ControlReadTokenLo
<1>10. CASE ControlReadTokenHi
  BY <1>10 DEF ControlReadTokenHi
<1>11. CASE HostStep
  BY <1>11, HostCore DEF answer
<1>12. CASE UNCHANGED vars
  BY <1>12
<1> QED BY <1>1, <1>2, <1>3, <1>4, <1>5, <1>6, <1>7, <1>8, <1>9, <1>10, <1>11,
           <1>12 DEF Next, ControlStep

LEMMA RequestFrame ==
    ASSUME RequestInv,
           UNCHANGED <<handshake, host_pc, handle, control_state, candidate_lo,
                       session>>
    PROVE  RequestInv'
BY DEF RequestInv, handshake, Live, Before, Held, Claiming, SessionOwned,
   SessionOk, OwnResponse, ResponseStale

LEMMA RequestControl ==
    ASSUME TypeOK, TokenInv, ControlInv, RequestInv,
           ControlStep \/ ControlStartPoll
    PROVE  RequestInv'
<1> USE DEF RequestInv, Live, Before, Held, Claiming, SessionOwned, SessionOk,
            OwnResponse, ResponseStale
<1>1. CASE ControlStartPoll
  BY <1>1 DEF ControlStartPoll
<1>2. CASE ControlInit
  <2>1. ~session_active /\ ~Claiming
    BY <1>2 DEF ControlInit, ControlWrite, ControlInv, InitStates,
       DeviceInitialized
  <2>2. /\ UNCHANGED <<header.request_lo, header.request_hi,
                      header.response_lo, header.response_hi>>
        /\ header'.response = IF control_state = "INIT_RESPONSE_CLEAR"
                                THEN Closed ELSE header.response
    BY <1>2 DEF ControlInit, ControlWrite, TypeOK, Header
  <2>3. /\ UNCHANGED <<host, session>>
        /\ control_state' \notin {"TOKEN_LO", "TOKEN_HI"}
        /\ ResponseStale /\ ~ResponseStale' =>
             control_state = "INIT_RESPONSE_CLEAR"
    BY <1>2 DEF ControlInit, ControlWrite
  <2> QED BY <2>1, <2>2, <2>3
<1>3. CASE ControlAnswer
  BY <1>3 DEF ControlAnswer, ControlWrite, TypeOK, Header, ControlInv
<1>4. CASE ControlReadSequence
  <2>1. CASE SessionEnds
    BY <1>4, <2>1 DEF ControlReadSequence, SessionEnds, ControlInv, TokenInv
  <2>2. CASE ~SessionEnds
    BY <1>4, <2>2 DEF ControlReadSequence, Considered, ControlInv, Claim, Closed
  <2> QED BY <2>1, <2>2
<1>5. CASE ControlReadTokenLo
  BY <1>5 DEF ControlReadTokenLo, TokenInv
<1>6. CASE ControlReadTokenHi
  BY <1>6 DEF ControlReadTokenHi, TokenInv, ControlInv
<1> QED BY <1>1, <1>2, <1>3, <1>4, <1>5, <1>6 DEF ControlStep

LEMMA RequestHost ==
    ASSUME TypeOK, CallInv, TokenInv, ControlInv, RequestInv, HostStep
    PROVE  RequestInv'
<1> USE HostCore DEF RequestInv, Live, Before, Held, Claiming, SessionOwned,
            SessionOk, OwnResponse, ResponseStale, answer
<1>1. CASE OpenMagic
  <2>1. /\ header.request_lo \in Nat /\ header.request_hi \in Nat
        /\ header.response_lo \in Nat /\ header.response_hi \in Nat
        /\ session_lo \in Nat /\ next_handle \in Nat
    BY ConstantType DEF TypeOK, Header, Token
  <2>2. ~(SessionOwned') /\ ~(SessionOk')
    BY <1>1, <2>1 DEF OpenMagic, HostMove, TokenInv
  <2>3. ~(Claiming') /\ ~(Held')
    BY <1>1 DEF OpenMagic, HostMove, Settled, Answering
  <2> QED BY <2>2, <2>3
<1>2. CASE OpenBusy \/ OpenResponse
  BY <1>2 DEF OpenBusy, OpenResponse, HostMove
<1>3. CASE OpenTokenLo
  BY <1>3 DEF OpenTokenLo, HostMove, TypeOK, Header
<1>4. CASE OpenTokenHi
  BY <1>4 DEF OpenTokenHi, HostMove, TypeOK, Header, TokenInv
<1>5. CASE OpenClaim
  <2>1. /\ header'.request = Claim /\ UNCHANGED <<handle, answer>>
        /\ Claim # Closed /\ host_pc = "claim" /\ host_pc' = "claim_wait"
    BY <1>5, ConstantType DEF OpenClaim, HostMove, TypeOK, Header, Closed
  <2> QED BY <2>1
<1>6. CASE OpenClaimed
  BY <1>6, ConstantType DEF OpenClaimed, HostMove, ControlInv, Closed
<1>7. CASE OpenBaseline \/ OpenReady
  BY <1>7 DEF OpenBaseline, OpenReady, HostMove
<1>8. CASE OpenFailed
  BY <1>8 DEF OpenFailed, HostMove
<1>9. CASE PushStore
  BY <1>9 DEF PushStore, HostMove, TypeOK, Header
<1>10. CASE PollPing
  <2>1. /\ header'.request # Closed /\ UNCHANGED <<handle, answer>>
        /\ host_pc = "ping" /\ host_pc' = "ready"
    <3>1. header'.request = ping_seq + 1
      BY <1>10 DEF PollPing, TypeOK, Header
    <3>2. ping_seq \in Nat
      BY ConstantType DEF TypeOK
    <3>3. UNCHANGED <<handle, answer>> /\ host_pc = "ping" /\ host_pc' = "ready"
      BY <1>10 DEF PollPing, HostMove
    <3> QED BY <3>1, <3>2, <3>3 DEF Closed
  <2> QED BY <2>1
<1>11. CASE CloseRelease
  BY <1>11 DEF CloseRelease, HostMove
<1>12. CASE CheckFails \/ PushCheck \/ PollCheck \/ PollCached
           \/ PollUnreached \/ PollReached \/ PollResponse
           \/ PollConfirm \/ HostTimeout \/ CloseDrained \/ HandleEnds
  BY <1>12 DEF CheckFails, PushCheck, PollCheck, PollCached, PollUnreached,
     PollReached, PollResponse, PollConfirm, HostTimeout, CloseDrained,
     HandleEnds, HostMove
<1> QED BY <1>1, <1>2, <1>3, <1>4, <1>5, <1>6, <1>7, <1>8, <1>9, <1>10, <1>11,
           <1>12 DEF HostStep

LEMMA RequestStep ==
    TypeOK /\ CallInv /\ HandshakeInv /\ [Next]_vars => RequestInv'
<1> SUFFICES ASSUME TypeOK, CallInv, TokenInv, ControlInv, RequestInv, [Next]_vars
             PROVE  RequestInv'
  BY DEF HandshakeInv
<1>1. CASE RingStep \/ EngineDone \/ FenceWrite
  BY <1>1, RingHeader, RequestFrame
<1>2. CASE CoreReset
  BY <1>2 DEF CoreReset, RequestInv, Live, Before, Held, Claiming, SessionOwned,
     SessionOk, OwnResponse, ResponseStale
<1>3. CASE UNCHANGED vars
  BY <1>3, RequestFrame DEF handshake
<1> QED BY <1>1, <1>2, <1>3, RequestControl, RequestHost DEF Next

\* The inductive invariant of the handshake, for every interleaving of opens,
\* deaths, core resets and torn token stores.
THEOREM HandshakeCorrect == Spec => [](TypeOK /\ CallInv /\ HandshakeInv)
<1>1. TypeOK /\ CallInv /\ HandshakeInv /\ [Next]_vars => HandshakeInv'
  BY TokenStep, ControlStepInv, RequestStep DEF HandshakeInv
<1> QED BY <1>1, HandshakeInit, CallCorrect, PTL DEF Spec

\* A handle whose check passes holds the core's session, with both halves of
\* its token, whoever died, claimed or reset the core before.
THEOREM CheckSound == Spec => []CheckMeansOwned
<1>1. HandshakeInv => CheckMeansOwned
  BY DEF HandshakeInv, ControlInv, RequestInv, CheckMeansOwned, Open, Live,
     SessionOk, SessionOwned, OwnResponse, ResponseStale
<1> QED BY <1>1, HandshakeCorrect, PTL
=============================================================================
