----------------------- MODULE LinkSessionRing_proof -----------------------
(***************************************************************************)
(* Proofs about LinkSession: the ring, the counts and the reports of a     *)
(* session, across process deaths and core resets.  LinkSession_proof      *)
(* settles who holds the session; here is what follows for its commands,   *)
(* when no reset falls between the check of a submission and its stores.   *)
(***************************************************************************)
EXTENDS LinkSession_proof

-----------------------------------------------------------------------------
(* Counting modulo n.                                                      *)

Succ(n, p) == (p + 1) % n
\* The steps from p forward to q.
Dist(n, p, q) == (q - p) % n

LEMMA Quotient ==
    ASSUME NEW n \in Nat, n > 0, NEW x \in Int
    PROVE  x \div n \in Int /\ x % n \in 0 .. n - 1 /\ x = (n * (x \div n)) + (x % n)
BY SMT

LEMMA Remainder ==
    ASSUME NEW n \in Nat, n > 0, NEW x \in Int, NEW q \in Int,
           x >= n * q, x < n * q + n
    PROVE  x % n = x - n * q
<1> DEFINE d == x \div n
<1> DEFINE m == x % n
<1>1. d \in Int /\ m \in 0 .. n - 1 /\ x = n * d + m
  BY Quotient
<1> HIDE DEF d, m
<1>2. d = q
  <2>1. CASE d > q
    <3>1. n * d >= n * (q + 1)
      BY <2>1, <1>1, SMT
    <3> QED BY <3>1, <1>1
  <2>2. CASE d < q
    <3>1. n * (d + 1) <= n * q
      BY <2>2, <1>1, SMT
    <3> QED BY <3>1, <1>1
  <2> QED BY <1>1, <2>1, <2>2
<1> QED BY <1>2, <1>1 DEF m

LEMMA SuccMod ==
    ASSUME NEW n \in Nat, n > 0, NEW x \in Int
    PROVE  (x + 1) % n = IF x % n = n - 1 THEN 0 ELSE (x % n) + 1
<1> DEFINE d == x \div n
<1> DEFINE m == x % n
<1>1. d \in Int /\ m \in 0 .. n - 1 /\ x = n * d + m
  BY Quotient
<1> HIDE DEF d, m
<1>2. CASE m = n - 1
  <2>1. x + 1 = n * (d + 1)
    BY <1>1, <1>2
  <2>2. d + 1 \in Int /\ x + 1 \in Int /\ x + 1 >= n * (d + 1)
        /\ x + 1 < n * (d + 1) + n
    BY <2>1, <1>1
  <2>3. (x + 1) % n = (x + 1) - n * (d + 1)
    BY <2>2, Remainder
  <2> QED BY <2>1, <1>1, <1>2, <2>3 DEF m
<1>3. CASE m # n - 1
  <2>1. x + 1 \in Int /\ x + 1 >= n * d /\ x + 1 < n * d + n
    BY <1>1, <1>3
  <2>2. (x + 1) % n = (x + 1) - n * d
    BY <2>1, <1>1, Remainder
  <2> QED BY <1>1, <1>3, <2>2 DEF m
<1> QED BY <1>2, <1>3

LEMMA SuccValue ==
    ASSUME NEW n \in Nat, n > 0, NEW p \in 0 .. n - 1
    PROVE  Succ(n, p) \in 0 .. n - 1
           /\ Succ(n, p) = IF p = n - 1 THEN 0 ELSE p + 1
BY DEF Succ

LEMMA DistValue ==
    ASSUME NEW n \in Nat, n > 0, NEW p \in 0 .. n - 1, NEW q \in 0 .. n - 1
    PROVE  Dist(n, p, q) \in 0 .. n - 1
           /\ Dist(n, p, q) = IF q >= p THEN q - p ELSE q - p + n
BY DEF Dist

LEMMA DistZero ==
    ASSUME NEW n \in Nat, n > 0, NEW p \in 0 .. n - 1, NEW q \in 0 .. n - 1
    PROVE  Dist(n, p, q) = 0 <=> p = q
<1>1. Dist(n, p, q) = IF q >= p THEN q - p ELSE q - p + n
  BY DistValue
<1> QED BY <1>1

\* The far end moves on, unless it would close the circle.
LEMMA DistPush ==
    ASSUME NEW n \in Nat, n > 0, NEW p \in 0 .. n - 1, NEW q \in 0 .. n - 1,
           Succ(n, q) # p \/ Dist(n, p, q) < n - 1
    PROVE  Dist(n, p, Succ(n, q)) = Dist(n, p, q) + 1
<1>1. Succ(n, q) \in 0 .. n - 1 /\ Succ(n, q) = IF q = n - 1 THEN 0 ELSE q + 1
  BY SuccValue
<1>2. Dist(n, p, q) = IF q >= p THEN q - p ELSE q - p + n
  BY DistValue
<1>3. Dist(n, p, Succ(n, q)) = IF Succ(n, q) >= p THEN Succ(n, q) - p
                                                 ELSE Succ(n, q) - p + n
  BY <1>1, DistValue
<1> QED BY <1>1, <1>2, <1>3

\* The near end moves on, unless it is the far end.
LEMMA DistPop ==
    ASSUME NEW n \in Nat, n > 0, NEW p \in 0 .. n - 1, NEW q \in 0 .. n - 1,
           p # q
    PROVE  Dist(n, Succ(n, p), q) = Dist(n, p, q) - 1
<1>1. Succ(n, p) \in 0 .. n - 1 /\ Succ(n, p) = IF p = n - 1 THEN 0 ELSE p + 1
  BY SuccValue
<1>2. Dist(n, p, q) = IF q >= p THEN q - p ELSE q - p + n
  BY DistValue
<1>3. Dist(n, Succ(n, p), q) = IF q >= Succ(n, p) THEN q - Succ(n, p)
                                                 ELSE q - Succ(n, p) + n
  BY <1>1, DistValue
<1> QED BY <1>1, <1>2, <1>3

\* A count at most half the range behind has reached the target only if equal.
LEMMA ReachedHere ==
    ASSUME NEW c \in 0 .. FenceMod - 1, NEW t \in 0 .. FenceMod - 1,
           Dist(FenceMod, c, t) <= FenceMod \div 2, Reached(c, t)
    PROVE  c = t
<1>0. FenceMod \in Nat /\ FenceMod > 0
  BY ConstantType
<1>1. Dist(FenceMod, c, t) = IF t >= c THEN t - c ELSE t - c + FenceMod
  BY <1>0, DistValue
<1>2. (c - t) % FenceMod = IF c >= t THEN c - t ELSE c - t + FenceMod
  BY <1>0, DistValue DEF Dist
<1>3. (c - t) % FenceMod < FenceMod \div 2
  BY DEF Reached
<1> QED BY <1>1, <1>2, <1>3, ConstantType

-----------------------------------------------------------------------------
(* The ring, the engine and the fence of a session.                        *)

Slot == 0 .. Slots - 1
\* The handle may submit.
Using == host_pc \in {"ready", "push", "poll", "ping", "response", "confirm"}

\* The core has nothing to run and DRAM shows it.
Quiet ==
    /\ engine = NoCommand /\ ring_state \notin {"DISPATCH", "WRITE_BACK"}
    /\ ring_state # "INIT_WPTR" => header.write_ptr = read_ptr
    /\ RingInitialized => header.read_ptr = read_ptr
    /\ fence_initialized => header.count = done_count

\* A session no one can end: of the handle that submits, or of a handle that
\* died or was faulted before it drained.
Busy ==
    /\ session_active /\ header.request # Closed /\ header.response # Closed
    /\ host_pc \in {"closed", "opening", "faulted"} \/ (Using /\ SessionOwned)

RingInv ==
    /\ Quiet \/ Busy
    /\ host_pc = "push" => session_active /\ SessionOk
    /\ ~DeviceInitialized => done_count = 0 /\ read_ptr = 0
    /\ ring_state = "DISPATCH" =>
         header.write_ptr # read_ptr /\ slot_reg = slots[read_ptr]
    /\ ring_state \notin {"INIT_WPTR", "INIT_RPTR", "WRITE_BACK"} =>
         header.read_ptr = read_ptr
    /\ ring_state = "WRITE_BACK" =>
         /\ header.write_ptr # header.read_ptr
         /\ read_ptr = Succ(Slots, header.read_ptr)

InRing(s) == Dist(Slots, read_ptr, s) < Dist(Slots, read_ptr, header.write_ptr)

\* The engine runs a command of the session.
EngineInv == engine # NoCommand => session_active /\ engine.handle = session_lo

\* The ring holds commands of the session in submission order, none of which
\* the core has run.
SlotsInv ==
    ring_state # "INIT_WPTR" => \A s \in Slot : InRing(s) =>
      /\ slots[s] \in Command /\ slots[s].handle = session_lo
      /\ slots[s].handle = handle => slots[s].n <= submitted
      /\ \A c \in executed : c.handle = session_lo => c.n < slots[s].n
      /\ \A t \in Slot :
           InRing(t) /\ Dist(Slots, read_ptr, s) < Dist(Slots, read_ptr, t)
           => slots[s].n < slots[t].n

\* The core has run only what handles so far have submitted.
ExecutedInv ==
    \A c \in executed :
      /\ c.handle < next_handle
      /\ host_pc # "closed" /\ c.handle = handle => c.n <= submitted

ContentInv == EngineInv /\ SlotsInv /\ ExecutedInv

\* The newest command of the handle.
LastCommand == [handle |-> handle, n |-> submitted]

\* The counts of a held session, from the core to the handle's copy: each is
\* behind the last fence by at least as much as the one before, and by no more
\* than half the range.  The last command is in the ring, in the engine or done.
Counts ==
    /\ write_ptr = header.write_ptr
    /\ Dist(FenceMod, done_count, Last) = InFlight
    /\ Dist(FenceMod, done_count, Last) <= Dist(FenceMod, header.count, Last)
    /\ Dist(FenceMod, header.count, Last) <= Dist(FenceMod, confirmed_done, Last)
    /\ Dist(FenceMod, confirmed_done, Last) <= FenceMod \div 2
    /\ ring_state = "WRITE_BACK" => header.count # Last
    /\ submitted > 0 =>
         IF write_ptr # read_ptr
           THEN \E s \in Slot : /\ Succ(Slots, s) = write_ptr
                                /\ slots[s] = LastCommand
           ELSE engine = LastCommand
                \/ (engine = NoCommand /\ LastCommand \in finished)

CountInv ==
    /\ host_pc = "push" =>
         (Last + 1 - confirmed_done) % FenceMod <= FenceMod \div 2
    /\ Held /\ host_pc # "transport" /\ SessionOwned => Counts

HeaderZero ==
    /\ header.count = 0 /\ header.write_ptr = 0 /\ header.read_ptr = 0
    /\ done_count = 0 /\ read_ptr = 0

\* A claim the core has not taken yet, or takes for a second time because it
\* was reset after answering it and the old answer is still in DRAM.
Claimed ==
    /\ control_state \notin {"INIT_MAGIC_CLEAR", "INIT_REQUEST_CLEAR"}
    /\ header.request = Claim /\ ~session_active

ClaimInv ==
    /\ Live /\ Claiming => header.request = Claim
    /\ Before /\ (Claimed \/ SessionOwned) => done_count = 0 /\ read_ptr = 0
    /\ host_pc = "claim" /\ SessionOk => HeaderZero
    /\ host_pc = "claim_wait" /\ SessionOk /\ Claimed => HeaderZero
    /\ Held /\ Claimed =>
         /\ HeaderZero /\ submitted = 0
         /\ \/ host_pc = "transport"
            \/ /\ host_pc \in {"transport_check", "ready", "release"}
               /\ write_ptr = 0 /\ done_baseline = 0 /\ confirmed_done = 0
    /\ host_pc \in {"opening", "token_lo", "token_hi", "claim", "claim_wait",
                    "transport", "transport_check"} => submitted = 0

\* Whatever makes the handle believe its last fence passed, the core has run
\* the command.
ReportInv ==
    /\ Using /\ submitted > 0 /\ Reached(confirmed_done, Last) =>
         LastCommand \in finished
    /\ Using /\ submitted > 0 /\ SessionOk /\ Reached(header.count, Last) =>
         LastCommand \in finished
    /\ host_pc = "confirm" => LastCommand \in finished
    /\ host_pc = "response" =>
         LastCommand \in finished \/ (~session_active /\ header.response = Closed)
    /\ reported \subseteq finished

DeviceInv == RingInv /\ ContentInv /\ CountInv /\ ClaimInv /\ ReportInv
-----------------------------------------------------------------------------
(* What each actor leaves alone.                                           *)

USE DEF local, host, ring, fence, session, control, ghost, vars

wires == <<header.write_ptr, header.read_ptr, header.count>>

LEMMA ControlFrame ==
    ASSUME TypeOK, ControlStep \/ ControlStartPoll
    PROVE  UNCHANGED <<wires, slots, host, ring, engine, fence, ghost, resets>>
<1> USE DEF TypeOK, Header, wires
<1>1. CASE ControlInit \/ ControlAnswer
  BY <1>1 DEF ControlInit, ControlAnswer, ControlWrite
<1>2. CASE ControlReadSequence \/ ControlReadTokenLo \/ ControlReadTokenHi
           \/ ControlStartPoll
  BY <1>2 DEF ControlReadSequence, ControlReadTokenLo, ControlReadTokenHi,
     ControlStartPoll
<1> QED BY <1>1, <1>2 DEF ControlStep

LEMMA HostFrame ==
    ASSUME TypeOK, HostStep, ~PushStore
    PROVE  UNCHANGED <<wires, slots>>
<1> USE DEF wires
<1>1. CASE OpenTokenLo \/ OpenTokenHi
  BY <1>1 DEF OpenTokenLo, OpenTokenHi, TypeOK, Header
<1>2. CASE OpenClaim \/ OpenFailed
  BY <1>2 DEF OpenClaim, OpenFailed, TypeOK, Header
<1>3. CASE PollPing \/ CloseRelease
  BY <1>3 DEF PollPing, CloseRelease, TypeOK, Header
<1>4. CASE OpenMagic \/ OpenBusy \/ OpenResponse \/ OpenClaimed
           \/ OpenBaseline \/ OpenReady
  BY <1>4 DEF OpenMagic, OpenBusy, OpenResponse, OpenClaimed, OpenBaseline,
     OpenReady
<1>5. CASE CheckFails \/ PushCheck \/ PollCheck \/ PollCached
           \/ PollUnreached \/ PollReached \/ PollResponse
           \/ PollConfirm \/ HostTimeout \/ CloseDrained \/ HandleEnds
  BY <1>5 DEF CheckFails, PushCheck, PollCheck, PollCached, PollUnreached,
     PollReached, PollResponse, PollConfirm, HostTimeout, CloseDrained,
     HandleEnds
<1> QED BY <1>1, <1>2, <1>3, <1>4, <1>5 DEF HostStep

\* The request the host leaves alone, except where it claims, challenges or
\* gives up.
LEMMA HostRequest ==
    ASSUME TypeOK, HostStep, ~OpenClaim, ~OpenFailed, ~PollPing, ~CloseRelease
    PROVE  header'.request = header.request
<1>1. CASE OpenTokenLo \/ OpenTokenHi \/ PushStore
  BY <1>1 DEF OpenTokenLo, OpenTokenHi, PushStore, TypeOK, Header
<1>2. CASE OpenMagic \/ OpenBusy \/ OpenResponse \/ OpenClaimed
           \/ OpenBaseline \/ OpenReady
  BY <1>2 DEF OpenMagic, OpenBusy, OpenResponse, OpenClaimed, OpenBaseline,
     OpenReady
<1>3. CASE CheckFails \/ PushCheck \/ PollCheck \/ PollCached
           \/ PollUnreached \/ PollReached \/ PollResponse
           \/ PollConfirm \/ HostTimeout \/ CloseDrained \/ HandleEnds
  BY <1>3 DEF CheckFails, PushCheck, PollCheck, PollCached, PollUnreached,
     PollReached, PollResponse, PollConfirm, HostTimeout, CloseDrained,
     HandleEnds
<1> QED BY <1>1, <1>2, <1>3 DEF HostStep

\* Where a step of the host that stores no command leads.
LEMMA HostPath ==
    ASSUME HostStep
    PROVE  /\ host_pc' = "opening" => host_pc = "closed"
           /\ host_pc' \in {"ready", "push", "poll", "ping", "response", "confirm"}
                => Using \/ OpenReady
           /\ host_pc' \in {"ready", "push", "poll", "ping", "response", "confirm"}
              /\ ~OpenReady => UNCHANGED <<handle, next_handle, done_baseline>>
           /\ host_pc' = "faulted" => host_pc = "ready"
           /\ host_pc' = "faulted" => handle' = handle
           /\ host_pc' = "push" => PushCheck
           /\ host_pc' = "confirm" => PollResponse
           /\ host_pc' = "response" => PollReached
<1> USE DEF HostMove, Using
<1>1. CASE OpenTokenLo \/ OpenTokenHi \/ OpenClaim \/ OpenFailed
  BY <1>1 DEF OpenTokenLo, OpenTokenHi, OpenClaim, OpenFailed
<1>2. CASE OpenMagic \/ OpenBusy \/ OpenResponse \/ OpenClaimed
           \/ OpenBaseline \/ OpenReady
  BY <1>2 DEF OpenMagic, OpenBusy, OpenResponse, OpenClaimed, OpenBaseline,
     OpenReady
<1>3. CASE CheckFails \/ PushCheck \/ PushStore \/ HostTimeout \/ CloseDrained
           \/ CloseRelease \/ HandleEnds
  BY <1>3 DEF CheckFails, PushCheck, PushStore, HostTimeout, CloseDrained,
     CloseRelease, HandleEnds
<1>4. CASE PollCheck \/ PollCached \/ PollUnreached \/ PollReached \/ PollPing
           \/ PollResponse \/ PollConfirm
  BY <1>4 DEF PollCheck, PollCached, PollUnreached, PollReached, PollPing,
     PollResponse, PollConfirm
<1> QED BY <1>1, <1>2, <1>3, <1>4 DEF HostStep
-----------------------------------------------------------------------------
(* The ring invariant.                                                     *)

LEMMA WordTypes ==
    ASSUME TypeOK
    PROVE  /\ Slots \in Nat /\ Slots > 0 /\ FenceMod \in Nat /\ FenceMod > 0
           /\ write_ptr \in 0 .. Slots - 1 /\ read_ptr \in 0 .. Slots - 1
           /\ header.write_ptr \in 0 .. Slots - 1
           /\ header.read_ptr \in 0 .. Slots - 1
           /\ header.count \in 0 .. FenceMod - 1
           /\ done_count \in 0 .. FenceMod - 1
           /\ confirmed_done \in 0 .. FenceMod - 1
           /\ done_baseline \in 0 .. FenceMod - 1
           /\ submitted \in Nat /\ next_handle \in Nat
           /\ Last \in 0 .. FenceMod - 1
BY ConstantType, LastType DEF TypeOK, Header

\* A handle that was answered and whose core has a session holds it.
LEMMA Owner ==
    ASSUME HandshakeInv, Held, session_active
    PROVE  SessionOwned /\ header.request # Closed
BY DEF HandshakeInv, RequestInv, Held, Live

\* A core without a session has nothing to run.
LEMMA Inactive ==
    ASSUME HandshakeInv, RingInv, ~session_active
    PROVE  Quiet
BY DEF RingInv, Busy

LEMMA Uninitialized ==
    ASSUME HandshakeInv, ring_state \in {"INIT_WPTR", "INIT_RPTR"}
           \/ control_state \in InitStates
    PROVE  ~session_active /\ ~Claiming /\ ~DeviceInitialized
BY DEF HandshakeInv, ControlInv, DeviceInitialized, RingInitialized

LEMMA Drained ==
    ASSUME TypeOK, HandshakeInv, RingInv, CountInv, CloseDrained
    PROVE  Quiet
<1> SUFFICES ASSUME Busy PROVE Quiet
  BY DEF RingInv
<1>0. host_pc = "ready" /\ Held /\ SessionOwned
  BY DEF CloseDrained, HostMove, Held, Busy
<1>1. confirmed_done = Last
  BY <1>0, WordTypes, ReachedHere DEF CountInv, Counts, CloseDrained
<1>2. /\ Dist(FenceMod, confirmed_done, Last) = 0
      /\ Dist(FenceMod, header.count, Last) \in Nat
      /\ Dist(FenceMod, done_count, Last) \in Nat
  <2>1. /\ Dist(FenceMod, header.count, Last) \in 0 .. FenceMod - 1
        /\ Dist(FenceMod, done_count, Last) \in 0 .. FenceMod - 1
    BY WordTypes, DistValue
  <2> QED BY <1>1, <2>1, WordTypes, DistZero
<1>3. /\ Dist(FenceMod, header.count, Last) = 0
      /\ Dist(FenceMod, done_count, Last) = 0
  BY <1>0, <1>2 DEF CountInv, Counts
<1>4. header.count = Last /\ done_count = Last
  BY <1>3, WordTypes, DistZero
<1>5. Dist(Slots, read_ptr, write_ptr) + (IF engine = NoCommand THEN 0 ELSE 1) = 0
  BY <1>0, <1>3 DEF CountInv, Counts, InFlight, Dist
<1>6. engine = NoCommand /\ Dist(Slots, read_ptr, write_ptr) = 0
  <2>1. Dist(Slots, read_ptr, write_ptr) \in Nat
    BY WordTypes, DistValue
  <2> QED BY <1>5, <2>1
<1>7. read_ptr = write_ptr /\ write_ptr = header.write_ptr
      /\ (ring_state = "WRITE_BACK" => header.count # Last)
  BY <1>0, <1>6, WordTypes, DistZero DEF CountInv, Counts
<1>8. ring_state \notin {"INIT_WPTR", "INIT_RPTR"}
  BY <1>0, Uninitialized DEF SessionOwned
<1> QED BY <1>4, <1>6, <1>7, <1>8 DEF Quiet, RingInv

LEMMA RingControl ==
    ASSUME TypeOK, HandshakeInv, RingInv, ControlStep \/ ControlStartPoll
    PROVE  RingInv'
<1> DEFINE core == <<wires, slots, host, ring, engine, fence>>
<1>1. UNCHANGED core
  BY ControlFrame
<1>2. Quiet => Quiet'
  BY <1>1 DEF Quiet, RingInitialized, wires
<1>3. Busy => /\ session' = session /\ header'.request = header.request
              /\ header'.response # Closed /\ (SessionOk => SessionOk')
  <2>1. CASE ControlInit
    BY <2>1, Uninitialized DEF ControlInit, ControlWrite, InitStates, Busy
  <2>2. CASE ControlAnswer
    BY <2>2 DEF ControlAnswer, ControlWrite, Busy, HandshakeInv, ControlInv,
       TypeOK, Header, SessionOk, OwnResponse
  <2>3. CASE ControlReadSequence
    BY <2>3 DEF ControlReadSequence, SessionEnds, Busy, SessionOk, OwnResponse
  <2>4. CASE ControlReadTokenLo \/ ControlReadTokenHi \/ ControlStartPoll
    BY <2>4 DEF ControlReadTokenLo, ControlReadTokenHi, ControlStartPoll, Busy,
       SessionOk, OwnResponse
  <2> QED BY <2>1, <2>2, <2>3, <2>4 DEF ControlStep
<1>4. Busy => Busy'
  BY <1>1, <1>3 DEF Busy, Using, SessionOwned
<1>5. host_pc = "push" => Busy
  BY Owner DEF RingInv, Held, Busy, Using, SessionOk
<1>6. (host_pc = "push" => session_active /\ SessionOk)'
  BY <1>1, <1>3, <1>5 DEF RingInv
<1>7. /\ DeviceInitialized' = DeviceInitialized
  BY <1>1 DEF DeviceInitialized, RingInitialized
<1> QED BY <1>1, <1>2, <1>4, <1>6, <1>7 DEF RingInv, wires

LEMMA RingCore ==
    ASSUME TypeOK, HandshakeInv, RingInv, RingStep \/ EngineDone \/ FenceWrite
    PROVE  RingInv'
<1>1. UNCHANGED <<handshake, host, control>>
  BY RingHeader
<1>2. Busy => Busy'
  BY <1>1 DEF Busy, Using, SessionOwned, handshake
<1>3. (host_pc = "push" => session_active /\ SessionOk)'
  BY <1>1 DEF RingInv, SessionOk, OwnResponse, handshake
<1>4. CASE RingInitWritePtr
  <2>1. Quiet /\ read_ptr = 0 /\ done_count = 0 /\ ~DeviceInitialized
    BY <1>4, Uninitialized, Inactive DEF RingInitWritePtr, RingInv
  <2>2. /\ header'.write_ptr = 0 /\ UNCHANGED <<header.read_ptr, header.count>>
    BY <1>4 DEF RingInitWritePtr, TypeOK, Header
  <2>3. ring_state' = "INIT_RPTR" /\ UNCHANGED <<read_ptr, slot_reg, engine, fence>>
    BY <1>4 DEF RingInitWritePtr
  <2> QED BY <1>3, <2>1, <2>2, <2>3 DEF RingInv, Quiet, RingInitialized,
             DeviceInitialized
<1>5. CASE RingInitReadPtr
  <2>1. Quiet /\ read_ptr = 0 /\ done_count = 0 /\ ~DeviceInitialized
    BY <1>5, Uninitialized, Inactive DEF RingInitReadPtr, RingInv
  <2>2. /\ header'.read_ptr = 0 /\ UNCHANGED <<header.write_ptr, header.count>>
    BY <1>5 DEF RingInitReadPtr, TypeOK, Header
  <2>3. /\ ring_state' = "IDLE" /\ ring_state = "INIT_RPTR"
        /\ UNCHANGED <<read_ptr, slot_reg, engine, fence>>
    BY <1>5 DEF RingInitReadPtr
  <2> QED BY <1>3, <2>1, <2>2, <2>3 DEF RingInv, Quiet, RingInitialized,
             DeviceInitialized
<1>6. CASE RingStartPoll
  BY <1>2, <1>3, <1>6 DEF RingStartPoll, RingInv, Quiet, RingInitialized,
     DeviceInitialized
<1>7. CASE RingFetch
  BY <1>2, <1>3, <1>7 DEF RingFetch, RingInv, Quiet, RingInitialized,
     DeviceInitialized
<1>8. CASE RingDispatch
  <2>1. Busy /\ DeviceInitialized
    BY <1>8 DEF RingDispatch, RingInv, Quiet, Busy, HandshakeInv, ControlInv
  <2>2. /\ read_ptr' = Succ(Slots, read_ptr) /\ ring_state = "DISPATCH"
        /\ ring_state' = "WRITE_BACK" /\ UNCHANGED <<header, slots, fence>>
    BY <1>8 DEF RingDispatch, Succ
  <2> QED BY <1>2, <1>3, <2>1, <2>2 DEF RingInv, RingInitialized,
             DeviceInitialized
<1>9. CASE RingWriteBack
  <2>1. Busy /\ DeviceInitialized
    BY <1>9 DEF RingWriteBack, RingInv, Quiet, Busy, HandshakeInv, ControlInv
  <2>2. /\ ring_state' = "IDLE" /\ UNCHANGED <<read_ptr, slots, fence>>
        /\ header'.read_ptr = read_ptr
    BY <1>9 DEF RingWriteBack, TypeOK, Header
  <2> QED BY <1>2, <1>3, <2>1, <2>2 DEF RingInv, RingInitialized,
             DeviceInitialized
<1>10. CASE EngineDone
  <2>1. Busy /\ DeviceInitialized
    BY <1>10 DEF EngineDone, RingInv, Quiet, Busy, HandshakeInv, ControlInv
  <2> QED BY <1>2, <1>3, <1>10, <2>1 DEF EngineDone, RingInv, RingInitialized,
             DeviceInitialized
<1>11. CASE FenceWrite
  <2>1. /\ UNCHANGED <<header.write_ptr, header.read_ptr, ring, engine, slots,
                       done_count>>
        /\ header'.count = done_count /\ fence_initialized'
        /\ RingInitialized /\ ring_state # "WRITE_BACK"
    BY <1>11 DEF FenceWrite, TypeOK, Header, LinkWrites, RingInitialized
  <2> QED BY <1>2, <1>3, <2>1 DEF RingInv, Quiet, RingInitialized,
             DeviceInitialized
<1> QED BY <1>4, <1>5, <1>6, <1>7, <1>8, <1>9, <1>10, <1>11 DEF RingStep
LEMMA RingPush ==
    ASSUME TypeOK, HandshakeInv, RingInv, CountInv, PushStore
    PROVE  /\ RingInv' /\ Busy /\ SessionOwned /\ write_ptr = header.write_ptr
           /\ ring_state \notin {"INIT_WPTR", "INIT_RPTR"}
           /\ UNCHANGED <<slots, write_ptr, submitted, wires>>
              \/ /\ Succ(Slots, write_ptr) # read_ptr
                 /\ write_ptr' = Succ(Slots, write_ptr)
                 /\ header'.write_ptr = Succ(Slots, write_ptr)
                 /\ UNCHANGED <<header.read_ptr, header.count>>
                 /\ slots' = [slots EXCEPT ![write_ptr] =
                                [handle |-> handle, n |-> submitted + 1]]
                 /\ submitted' = submitted + 1
<1> DEFINE full == Succ(Slots, write_ptr) = header.read_ptr
<1>0. host_pc = "push" /\ host_pc' = "ready" /\ Held /\ Using
      /\ UNCHANGED <<handle, done_baseline, confirmed_done>>
  BY DEF PushStore, HostMove, Held, Using
<1>1. /\ session_active /\ SessionOk /\ SessionOwned /\ header.request # Closed
      /\ Busy /\ DeviceInitialized
  BY <1>0, Owner DEF RingInv, Busy, SessionOk, HandshakeInv, ControlInv
<1>2. /\ UNCHANGED <<ring, engine, fence, session>>
      /\ UNCHANGED <<header.response, header.response_lo, header.response_hi>>
  BY HostCore DEF answer, HostStep
<1>3. header'.request = header.request
  BY <1>0, HostRequest DEF HostStep, OpenClaim, OpenFailed, PollPing, CloseRelease, HostMove
<1>4. write_ptr = header.write_ptr
  BY <1>0, <1>1 DEF CountInv, Counts
<1>5. Busy' /\ (host_pc = "push" => session_active /\ SessionOk)'
      /\ (DeviceInitialized /\ RingInitialized)'
  BY <1>0, <1>1, <1>2, <1>3 DEF Busy, Using, SessionOwned, DeviceInitialized,
     RingInitialized
<1>6. CASE full
  <2>1. UNCHANGED <<slots, write_ptr, submitted, wires>>
    BY <1>6 DEF PushStore, Succ, wires
  <2> QED BY <1>1, <1>2, <1>4, <1>5, <2>1 DEF RingInv, wires,
             DeviceInitialized, RingInitialized
<1>7. CASE ~full
  <2>1. /\ slots' = [slots EXCEPT ![write_ptr] =
                       [handle |-> handle, n |-> submitted + 1]]
        /\ write_ptr' = Succ(Slots, write_ptr) /\ submitted' = submitted + 1
        /\ header' = [header EXCEPT !.write_ptr = Succ(Slots, write_ptr)]
    BY <1>7 DEF PushStore, Succ
  <2>2. /\ header'.write_ptr = Succ(Slots, write_ptr)
        /\ UNCHANGED <<header.read_ptr, header.count>>
    BY <2>1 DEF TypeOK, Header
  <2>3. ring_state \notin {"INIT_WPTR", "INIT_RPTR"}
    BY <1>1 DEF DeviceInitialized, RingInitialized
  <2>4. Succ(Slots, write_ptr) # read_ptr
    <3>1. CASE ring_state = "WRITE_BACK"
      <4>1. /\ read_ptr = Succ(Slots, header.read_ptr)
            /\ write_ptr # header.read_ptr
        BY <1>4, <3>1 DEF RingInv
      <4>2. /\ Succ(Slots, write_ptr) = IF write_ptr = Slots - 1 THEN 0
                                        ELSE write_ptr + 1
            /\ Succ(Slots, header.read_ptr) =
                 IF header.read_ptr = Slots - 1 THEN 0 ELSE header.read_ptr + 1
        BY WordTypes, SuccValue
      <4> QED BY <4>1, <4>2, WordTypes
    <3>2. CASE ring_state # "WRITE_BACK"
      BY <1>7, <2>3, <3>2 DEF RingInv
    <3> QED BY <3>1, <3>2
  <2>5. ring_state = "DISPATCH" => slots'[read_ptr] = slots[read_ptr]
    <3>1. ring_state = "DISPATCH" => write_ptr # read_ptr
      BY <1>4 DEF RingInv
    <3> QED BY <2>1, <3>1 DEF TypeOK
  <2>6. RingInv'
    BY <1>2, <1>5, <1>7, <2>2, <2>3, <2>4, <2>5 DEF RingInv
  <2> QED BY <1>1, <1>4, <2>1, <2>2, <2>3, <2>4, <2>6
<1> QED BY <1>6, <1>7

LEMMA RingHost ==
    ASSUME TypeOK, HandshakeInv, RingInv, CountInv, HostStep, ~PushStore,
           RacingStores = FALSE
    PROVE  RingInv'
<1>1. UNCHANGED <<wires, slots, ring, engine, fence, session, answer, control>>
  BY HostFrame, HostCore
<1>2. (Quiet <=> Quiet') /\ DeviceInitialized' = DeviceInitialized
  BY <1>1 DEF Quiet, RingInitialized, DeviceInitialized, wires
<1>3. (host_pc = "push" => session_active /\ SessionOk)'
  <2>1. PushCheck => session_active /\ SessionOk /\ handle' = handle
    BY DEF PushCheck
  <2> QED BY <1>1, <2>1, HostPath DEF SessionOk, OwnResponse, answer
<1>4. Busy /\ ~Quiet => Busy'
  <2> SUFFICES ASSUME Busy, ~Quiet PROVE Busy'
    OBVIOUS
  <2>1. header'.request # Closed
    <3>1. ~OpenClaim /\ ~OpenFailed /\ ~CloseRelease
      BY DEF Busy, Using, OpenClaim, OpenFailed, CloseRelease, HostMove
    <3>2. CASE PollPing
      <4>1. header'.request = ping_seq + 1 /\ ping_seq \in Nat
        BY <3>2, ConstantType DEF PollPing, TypeOK, Header
      <4> QED BY <4>1 DEF Closed
    <3>3. CASE ~PollPing
      BY <3>1, <3>3, HostRequest DEF Busy
    <3> QED BY <3>2, <3>3
  <2>2. header'.response # Closed /\ session_active'
    BY <1>1 DEF Busy, answer
  <2>3. (host_pc \in {"closed", "opening", "faulted"} \/ (Using /\ SessionOwned))'
    <3>1. ~OpenReady /\ ~OpenResponse /\ ~CloseDrained
      BY Drained DEF Busy, Using, OpenReady, OpenResponse, HostMove
    <3>2. \/ host_pc' \in {"closed", "opening", "faulted"}
          \/ Using /\ host_pc' \in {"ready", "push", "poll", "ping", "response",
                                    "confirm"}
      BY <3>1 DEF Busy, Using, HostStep, HostMove, OpenMagic, OpenBusy,
         OpenTokenLo, OpenTokenHi, OpenClaim, OpenClaimed, OpenBaseline,
         OpenFailed, CheckFails, PushCheck, PushStore, PollCheck, PollCached,
         PollUnreached, PollReached, PollPing, PollResponse, PollConfirm,
         HostTimeout, CloseRelease, HandleEnds
    <3>3. Using /\ Using' => handle' = handle
      BY <3>1, HostPath DEF Using
    <3> QED BY <1>1, <3>2, <3>3 DEF Busy, Using, SessionOwned
  <2> QED BY <2>1, <2>2, <2>3 DEF Busy
<1> QED BY <1>1, <1>2, <1>3, <1>4 DEF RingInv, wires

LEMMA RingStepInv ==
    ASSUME TypeOK, HandshakeInv, RingInv, CountInv, [Next]_vars,
           RacingStores = FALSE
    PROVE  RingInv'
<1>1. CASE CoreReset
  BY <1>1 DEF CoreReset, RingInv, Quiet, RingInitialized, DeviceInitialized,
     NoCommand
<1>2. CASE UNCHANGED vars
  BY <1>2 DEF RingInv, Quiet, Busy, RingInitialized, DeviceInitialized,
     SessionOk, OwnResponse, SessionOwned, Using
<1> QED BY <1>1, <1>2, RingControl, RingCore, RingPush, RingHost DEF Next
-----------------------------------------------------------------------------
(* What the ring holds.                                                    *)

LEMMA HostHandle ==
    ASSUME HostStep, ~PushStore
    PROVE  \/ UNCHANGED <<handle, submitted, next_handle>>
              /\ (host_pc = "closed" => host_pc' = "closed")
           \/ OpenMagic
           \/ handle' = NoToken /\ host_pc' = "closed" /\ next_handle' = next_handle
              /\ submitted' = submitted
<1> USE DEF HostMove
<1>2. CASE OpenTokenLo \/ OpenTokenHi \/ OpenClaim \/ OpenFailed
           \/ OpenMagic \/ OpenBusy \/ OpenResponse \/ OpenClaimed
           \/ OpenBaseline \/ OpenReady
  BY <1>2 DEF OpenBusy, OpenResponse, OpenClaimed, OpenTokenLo, OpenTokenHi,
     OpenClaim, OpenFailed, OpenBaseline, OpenReady
<1>3. CASE CheckFails \/ PushCheck \/ HostTimeout \/ CloseDrained
           \/ CloseRelease \/ HandleEnds
  BY <1>3 DEF CheckFails, PushCheck, HostTimeout, CloseDrained,
     CloseRelease, HandleEnds
<1>4. CASE PollCheck \/ PollCached \/ PollUnreached \/ PollReached \/ PollPing
           \/ PollResponse \/ PollConfirm
  BY <1>4 DEF PollCheck, PollCached, PollUnreached, PollReached, PollPing,
     PollResponse, PollConfirm
<1> QED BY <1>2, <1>3, <1>4 DEF HostStep

LEMMA SlotsEmpty ==
    ASSUME TypeOK', header'.write_ptr = read_ptr' PROVE SlotsInv'
<1>1. Slots \in Nat /\ Slots > 0 /\ read_ptr' \in 0 .. Slots - 1
  BY ConstantType DEF TypeOK
<1>2. Dist(Slots, read_ptr', header'.write_ptr) = 0
  BY <1>1, DistZero
<1>3. \A s \in Slot : Dist(Slots, read_ptr', s) \in 0 .. Slots - 1
  BY <1>1, DistValue DEF Slot
<1>4. \A s \in Slot : ~(Dist(Slots, read_ptr', s) < 0)
  BY <1>3, <1>1
<1> QED BY <1>2, <1>4 DEF SlotsInv, InRing

LEMMA SlotsFrame ==
    ASSUME SlotsInv, UNCHANGED <<read_ptr, header.write_ptr, slots, session_lo,
                                 handle, submitted, executed>>,
           ring_state' # "INIT_WPTR" => ring_state # "INIT_WPTR"
    PROVE  SlotsInv'
BY DEF SlotsInv, InRing

LEMMA SlotsDispatch ==
    ASSUME TypeOK, HandshakeInv, RingInv, ContentInv, RingDispatch
    PROVE  /\ SlotsInv' /\ engine' = slots[read_ptr] /\ InRing(read_ptr)
           /\ engine' \in Command /\ engine'.handle = session_lo /\ session_active
           /\ executed' = executed \cup {engine'}
           /\ engine'.handle = handle => engine'.n <= submitted
           /\ \A c \in executed : c.handle = session_lo => c.n < engine'.n
<1>1. /\ Busy /\ ring_state # "INIT_WPTR" /\ header.write_ptr # read_ptr
      /\ slot_reg = slots[read_ptr]
  BY DEF RingDispatch, RingInv, Quiet
<1>2. /\ read_ptr' = Succ(Slots, read_ptr) /\ engine' = slots[read_ptr]
      /\ executed' = executed \cup {slots[read_ptr]}
      /\ UNCHANGED <<header, slots, session, handle, submitted>>
  BY <1>1 DEF RingDispatch, Succ
<1>3. /\ read_ptr \in Slot /\ Dist(Slots, read_ptr, read_ptr) = 0
      /\ Dist(Slots, read_ptr, header.write_ptr) \in 0 .. Slots - 1
      /\ Dist(Slots, read_ptr, header.write_ptr) # 0
  <2>1. read_ptr \in Slot /\ Dist(Slots, read_ptr, read_ptr) = 0
    BY WordTypes, DistZero DEF Slot
  <2>2. Dist(Slots, read_ptr, header.write_ptr) \in 0 .. Slots - 1
    BY WordTypes, DistValue
  <2>3. Dist(Slots, read_ptr, header.write_ptr) # 0
    BY <1>1, WordTypes, DistZero
  <2> QED BY <2>1, <2>2, <2>3
<1>4. InRing(read_ptr)
  BY <1>3 DEF InRing
<1>5. /\ slots[read_ptr] \in Command /\ slots[read_ptr].handle = session_lo
      /\ slots[read_ptr].handle = handle => slots[read_ptr].n <= submitted
      /\ \A c \in executed : c.handle = session_lo => c.n < slots[read_ptr].n
  BY <1>1, <1>3, <1>4 DEF ContentInv, SlotsInv
<1>6. \A s \in Slot : InRing(s)' =>
        InRing(s) /\ Dist(Slots, read_ptr, read_ptr) < Dist(Slots, read_ptr, s)
        /\ Dist(Slots, read_ptr', s) = Dist(Slots, read_ptr, s) - 1
  <2> SUFFICES ASSUME NEW s \in Slot, InRing(s)'
               PROVE  InRing(s) /\ 0 < Dist(Slots, read_ptr, s)
                      /\ Dist(Slots, read_ptr', s) = Dist(Slots, read_ptr, s) - 1
    BY <1>3
  <2>1. /\ Dist(Slots, read_ptr', s) < Dist(Slots, read_ptr', header.write_ptr)
        /\ s \in 0 .. Slots - 1
    BY <1>2 DEF InRing, Slot
  <2>2. Dist(Slots, read_ptr', header.write_ptr)
          = Dist(Slots, read_ptr, header.write_ptr) - 1
    BY <1>1, <1>2, WordTypes, DistPop
  <2>3. CASE s = read_ptr
    <3>1. Dist(Slots, read_ptr', s) = Slots - 1
      <4>1. /\ read_ptr' \in 0 .. Slots - 1
            /\ read_ptr' = IF read_ptr = Slots - 1 THEN 0 ELSE read_ptr + 1
        BY <1>2, WordTypes, SuccValue
      <4>2. Dist(Slots, read_ptr', s) = IF s >= read_ptr' THEN s - read_ptr'
                                        ELSE s - read_ptr' + Slots
        BY <2>1, <4>1, WordTypes, DistValue
      <4> QED BY <2>3, <4>1, <4>2, WordTypes, ConstantType
    <3> QED BY <2>1, <2>2, <3>1, <1>3, WordTypes
  <2>4. CASE s # read_ptr
    <3>1. Dist(Slots, read_ptr', s) = Dist(Slots, read_ptr, s) - 1
      BY <1>2, <2>1, <2>4, WordTypes, DistPop
    <3>2. Dist(Slots, read_ptr, s) \in 0 .. Slots - 1 /\ Dist(Slots, read_ptr, s) # 0
      BY <2>1, <2>4, WordTypes, DistValue, DistZero
    <3> QED BY <2>1, <2>2, <3>1, <3>2, <1>3, WordTypes DEF InRing
  <2> QED BY <2>3, <2>4
<1>7. SlotsInv'
  <2> SUFFICES ASSUME NEW s \in Slot, InRing(s)'
               PROVE  /\ slots[s] \in Command /\ slots[s].handle = session_lo
                      /\ slots[s].handle = handle => slots[s].n <= submitted
                      /\ \A c \in executed' :
                           c.handle = session_lo => c.n < slots[s].n
                      /\ \A t \in Slot :
                           InRing(t)' /\ Dist(Slots, read_ptr', s)
                                           < Dist(Slots, read_ptr', t)
                           => slots[s].n < slots[t].n
    BY <1>2 DEF SlotsInv
  <2>1. InRing(s) /\ Dist(Slots, read_ptr, read_ptr) < Dist(Slots, read_ptr, s)
        /\ Dist(Slots, read_ptr', s) = Dist(Slots, read_ptr, s) - 1
    BY <1>6
  <2>2. /\ slots[s] \in Command /\ slots[s].handle = session_lo
        /\ slots[s].handle = handle => slots[s].n <= submitted
        /\ \A c \in executed : c.handle = session_lo => c.n < slots[s].n
        /\ slots[read_ptr].n < slots[s].n
        /\ \A t \in Slot :
             InRing(t) /\ Dist(Slots, read_ptr, s) < Dist(Slots, read_ptr, t)
             => slots[s].n < slots[t].n
    BY <2>1, <1>1, <1>3, <1>4 DEF ContentInv, SlotsInv
  <2>3. \A c \in executed' : c.handle = session_lo => c.n < slots[s].n
    BY <1>2, <2>2
  <2>4. \A t \in Slot :
          InRing(t)' /\ Dist(Slots, read_ptr', s) < Dist(Slots, read_ptr', t)
          => slots[s].n < slots[t].n
    <3> SUFFICES ASSUME NEW t \in Slot, InRing(t)',
                        Dist(Slots, read_ptr', s) < Dist(Slots, read_ptr', t)
                 PROVE  slots[s].n < slots[t].n
      OBVIOUS
    <3>1. InRing(t) /\ Dist(Slots, read_ptr', t) = Dist(Slots, read_ptr, t) - 1
      BY <1>6
    <3>2. Dist(Slots, read_ptr, s) \in Int /\ Dist(Slots, read_ptr, t) \in Int
      BY WordTypes, DistValue DEF Slot
    <3> QED BY <2>1, <2>2, <3>1, <3>2
  <2> QED BY <2>2, <2>3, <2>4
<1> QED BY <1>1, <1>2, <1>4, <1>5, <1>7 DEF Busy
LEMMA SlotsPush ==
    ASSUME TypeOK, CallInv, HandshakeInv, RingInv, ContentInv, CountInv, PushStore
    PROVE  SlotsInv'
<1>1. /\ Busy /\ SessionOwned /\ write_ptr = header.write_ptr
      /\ ring_state # "INIT_WPTR"
  BY RingPush
<1>2. /\ UNCHANGED <<ring, session, handle, executed>> /\ host_pc # "closed"
  BY HostCore DEF HostStep, PushStore, HostMove
<1>3. CASE UNCHANGED <<slots, write_ptr, submitted, wires>>
  BY <1>2, <1>3, SlotsFrame DEF ContentInv, wires
<1>4. CASE /\ Succ(Slots, write_ptr) # read_ptr
           /\ header'.write_ptr = Succ(Slots, write_ptr)
           /\ slots' = [slots EXCEPT ![write_ptr] =
                          [handle |-> handle, n |-> submitted + 1]]
           /\ submitted' = submitted + 1
  <2> DEFINE new == [handle |-> handle, n |-> submitted + 1]
  <2> DEFINE d == Dist(Slots, read_ptr, write_ptr)
  <2>1. new \in Command /\ new.handle = handle /\ new.n = submitted + 1
    BY <1>2, CommandType DEF CallInv, PushStore, HostMove
  <2>2. /\ slots'[write_ptr] = new
        /\ \A s \in Slot : s # write_ptr => slots'[s] = slots[s]
    BY <1>4 DEF TypeOK, Slot
  <2>3. Dist(Slots, read_ptr, header'.write_ptr) = d + 1
    BY <1>4, WordTypes, DistPush
  <2>4. ASSUME NEW s \in Slot
        PROVE  /\ Dist(Slots, read_ptr, s) \in Nat /\ d \in Nat
               /\ Dist(Slots, read_ptr, s) = d => s = write_ptr
    <3>1. /\ Dist(Slots, read_ptr, s) \in 0 .. Slots - 1
          /\ Dist(Slots, read_ptr, s) = IF s >= read_ptr THEN s - read_ptr
                                        ELSE s - read_ptr + Slots
      BY WordTypes, DistValue DEF Slot
    <3>2. /\ d \in 0 .. Slots - 1
          /\ d = IF write_ptr >= read_ptr THEN write_ptr - read_ptr
                                          ELSE write_ptr - read_ptr + Slots
      BY WordTypes, DistValue
    <3> HIDE DEF d
    <3> QED BY <3>1, <3>2, WordTypes DEF Slot
  <2>5. ASSUME NEW s \in Slot, InRing(s)'
        PROVE  s = write_ptr \/ (s # write_ptr /\ InRing(s))
    <3>1. Dist(Slots, read_ptr, s) < d + 1
      BY <1>2, <2>3, <2>5 DEF InRing
    <3>2. CASE s # write_ptr
      <4>1. Dist(Slots, read_ptr, s) < d
        BY <2>4, <3>1, <3>2
      <4> QED BY <1>1, <3>2, <4>1 DEF InRing
    <3> QED BY <3>2
  <2>6. \A c \in executed : c.handle = handle => c.n <= submitted
    BY <1>2 DEF ContentInv, ExecutedInv
  <2>7. /\ session_lo = handle /\ submitted \in Nat
        /\ \A c \in executed : c.n \in Nat
    <3>1. session_lo = handle /\ submitted \in Nat
      BY <1>1, WordTypes DEF SessionOwned
    <3>2. \A c \in executed : c.n \in Nat
      BY DEF TypeOK, Command, NoCommand
    <3> QED BY <3>1, <3>2
  <2>8. ASSUME NEW s \in Slot, InRing(s)'
        PROVE  /\ slots'[s] \in Command /\ slots'[s].handle = session_lo
               /\ slots'[s].n <= submitted + 1
               /\ s # write_ptr => slots'[s].n <= submitted
               /\ \A c \in executed : c.handle = session_lo => c.n < slots'[s].n
    <3>1. CASE s = write_ptr
      BY <2>1, <2>2, <2>6, <2>7, <3>1
    <3>2. CASE s # write_ptr
      <4>1. InRing(s) /\ slots'[s] = slots[s]
        BY <2>2, <2>5, <2>8, <3>2
      <4>2. /\ slots[s] \in Command /\ slots[s].handle = session_lo
            /\ slots[s].n <= submitted
            /\ \A c \in executed : c.handle = session_lo => c.n < slots[s].n
        BY <1>1, <2>7, <4>1 DEF ContentInv, SlotsInv
      <4>3. slots[s].n \in Nat
        BY <4>2 DEF Command
      <4> QED BY <2>7, <4>1, <4>2, <4>3
    <3> QED BY <3>1, <3>2
  <2>9. ASSUME NEW s \in Slot, NEW t \in Slot, InRing(s)', InRing(t)',
               Dist(Slots, read_ptr, s) < Dist(Slots, read_ptr, t)
        PROVE  slots'[s].n < slots'[t].n
    <3>1. s # write_ptr
      <4>1. Dist(Slots, read_ptr, t) < d + 1
        BY <1>2, <2>3, <2>9 DEF InRing
      <4>2. Dist(Slots, read_ptr, s) < d
        BY <2>4, <2>9, <4>1
      <4> QED BY <4>2, <2>4
    <3>2. InRing(s) /\ slots'[s] = slots[s]
      BY <2>2, <2>5, <2>9, <3>1
    <3>3. CASE t = write_ptr
      <4>1. slots'[t].n = submitted + 1
        BY <2>1, <2>2, <3>3
      <4>2. slots'[s].n <= submitted /\ slots'[s] \in Command
        BY <2>8, <2>9, <3>1
      <4> QED BY <4>1, <4>2, <2>7 DEF Command
    <3>4. CASE t # write_ptr
      <4>1. InRing(t) /\ slots'[t] = slots[t]
        BY <2>2, <2>5, <2>9, <3>4
      <4> QED BY <1>1, <2>9, <3>2, <4>1 DEF ContentInv, SlotsInv
    <3> QED BY <3>3, <3>4
  <2> QED BY <1>2, <1>4, <2>7, <2>8, <2>9 DEF SlotsInv
<1> QED BY <1>3, <1>4, RingPush

LEMMA SlotsHost ==
    ASSUME TypeOK, TypeOK', HandshakeInv, RingInv, ContentInv, HostStep, ~PushStore
    PROVE  SlotsInv'
<1>1. UNCHANGED <<wires, slots, ring, session, executed>>
  BY HostFrame, HostCore
<1>2. CASE UNCHANGED <<handle, submitted, next_handle>>
  BY <1>1, <1>2, SlotsFrame DEF wires, ContentInv
<1>3. CASE OpenMagic \/ handle' = NoToken
  <2>1. ASSUME NEW s \in Slot, InRing(s), ring_state # "INIT_WPTR"
        PROVE  slots[s].handle # handle'
    <3>1. slots[s] \in Command /\ slots[s].handle = session_lo
      BY <2>1 DEF ContentInv, SlotsInv
    <3>2. CASE OpenMagic
      <4>1. handle' = next_handle /\ session_lo < next_handle
        BY <3>2 DEF OpenMagic, HandshakeInv, TokenInv
      <4> QED BY <3>1, <4>1, WordTypes, ConstantType DEF TypeOK, Token
    <3>3. CASE handle' = NoToken
      BY <3>1, <3>3 DEF Command, Handle, NoToken
    <3> QED BY <1>3, <3>2, <3>3
  <2>2. SlotsInv
    BY DEF ContentInv
  <2> QED BY <1>1, <2>1, <2>2 DEF SlotsInv, InRing, wires
<1> QED BY <1>2, <1>3, HostHandle

LEMMA SlotsControl ==
    ASSUME TypeOK, TypeOK', HandshakeInv, RingInv, ContentInv,
           ControlStep \/ ControlStartPoll
    PROVE  SlotsInv'
<1>1. UNCHANGED <<wires, slots, ring, host, ghost>>
  BY ControlFrame
<1>2. CASE UNCHANGED session_lo
  BY <1>1, <1>2, SlotsFrame DEF wires, ContentInv
<1>3. CASE session_lo' # session_lo
  <2>1. Quiet
    <3>1. CASE ControlReadSequence
      BY <1>3, <3>1 DEF ControlReadSequence, SessionEnds, RingInv, Busy
    <3>2. CASE ControlReadTokenHi
      BY <1>3, <3>2, Inactive DEF ControlReadTokenHi
    <3>3. ControlReadSequence \/ ControlReadTokenHi
      BY <1>3 DEF ControlStep, ControlStartPoll, ControlInit, ControlAnswer,
         ControlWrite, ControlReadTokenLo
    <3> QED BY <3>1, <3>2, <3>3
  <2>2. CASE ring_state = "INIT_WPTR"
    BY <1>1, <2>2 DEF SlotsInv
  <2>3. CASE ring_state # "INIT_WPTR"
    BY <1>1, <2>1, <2>3, SlotsEmpty DEF Quiet, wires
  <2> QED BY <2>2, <2>3
<1> QED BY <1>2, <1>3

LEMMA SlotsStep ==
    ASSUME TypeOK, TypeOK', CallInv, HandshakeInv, RingInv, ContentInv, CountInv,
           [Next]_vars
    PROVE  SlotsInv'
<1>1. CASE RingInitWritePtr
  <2>1. read_ptr = 0 /\ UNCHANGED read_ptr
    BY <1>1, Uninitialized DEF RingInitWritePtr, RingInv
  <2>2. header'.write_ptr = 0
    BY <1>1 DEF RingInitWritePtr, TypeOK, Header
  <2> QED BY <2>1, <2>2, SlotsEmpty
<1>2. CASE RingInitReadPtr \/ RingWriteBack \/ FenceWrite
  <2>1. /\ UNCHANGED <<read_ptr, slots, session, handle, submitted, executed>>
        /\ header'.write_ptr = header.write_ptr
        /\ ring_state' # "INIT_WPTR" => ring_state # "INIT_WPTR"
    BY <1>2 DEF RingInitReadPtr, RingWriteBack, FenceWrite, TypeOK, Header
  <2> QED BY <2>1, SlotsFrame DEF ContentInv
<1>3. CASE RingStartPoll \/ RingFetch \/ EngineDone
  <2>1. /\ UNCHANGED <<read_ptr, slots, session, handle, submitted, executed, header>>
        /\ ring_state' # "INIT_WPTR" => ring_state # "INIT_WPTR"
    BY <1>3 DEF RingStartPoll, RingFetch, EngineDone
  <2> QED BY <2>1, SlotsFrame DEF ContentInv
<1>4. CASE CoreReset
  BY <1>4 DEF CoreReset, SlotsInv
<1>5. CASE UNCHANGED vars
  BY <1>5, SlotsFrame DEF ContentInv
<1> QED BY <1>1, <1>2, <1>3, <1>4, <1>5, SlotsDispatch, SlotsPush, SlotsHost,
           SlotsControl DEF Next, RingStep

LEMMA EngineStep ==
    ASSUME TypeOK, HandshakeInv, RingInv, ContentInv, [Next]_vars
    PROVE  EngineInv'
<1> USE DEF EngineInv
<1>0. EngineInv
  BY DEF ContentInv
<1>1. engine # NoCommand => Busy
  BY DEF RingInv, Quiet
<1>2. CASE RingDispatch
  BY <1>2, SlotsDispatch DEF RingDispatch
<1>3. CASE RingInitWritePtr \/ RingInitReadPtr \/ RingStartPoll \/ RingFetch
           \/ RingWriteBack \/ EngineDone \/ FenceWrite
  BY <1>0, <1>3 DEF RingInitWritePtr, RingInitReadPtr, RingStartPoll, RingFetch,
     RingWriteBack, EngineDone, FenceWrite
<1>4. CASE HostStep
  BY <1>0, <1>4, HostCore
<1>5. CASE ControlStep \/ ControlStartPoll
  <2>1. UNCHANGED engine
    BY <1>5, ControlFrame
  <2>2. engine # NoCommand => UNCHANGED session
    BY <1>1, <1>5 DEF Busy, ControlStep, ControlStartPoll, ControlInit, ControlAnswer,
       ControlWrite, ControlReadSequence, SessionEnds, ControlReadTokenLo,
       ControlReadTokenHi
  <2> QED BY <1>0, <2>1, <2>2
<1>6. CASE CoreReset
  BY <1>6 DEF CoreReset
<1>7. CASE UNCHANGED vars
  BY <1>0, <1>7
<1> QED BY <1>2, <1>3, <1>4, <1>5, <1>6, <1>7 DEF Next, RingStep

LEMMA ExecutedStep ==
    ASSUME TypeOK, CallInv, HandshakeInv, RingInv, ContentInv, CountInv, [Next]_vars
    PROVE  ExecutedInv'
<1> USE DEF ExecutedInv
<1>0. ExecutedInv /\ \A c \in executed : c.handle \in Nat /\ c.n \in Nat
  BY SMTT(20) DEF ContentInv, TypeOK, Command, Handle, NoCommand, NoToken
<1>1. CASE RingDispatch
  <2>1. /\ engine' \in Command /\ engine'.handle = session_lo
        /\ executed' = executed \cup {engine'}
        /\ engine'.handle = handle => engine'.n <= submitted
    BY <1>1, SlotsDispatch
  <2>2. session_lo < next_handle /\ UNCHANGED host
    BY <1>1 DEF HandshakeInv, TokenInv, RingDispatch
  <2> QED BY <1>0, <2>1, <2>2
<1>2. CASE RingInitWritePtr \/ RingInitReadPtr \/ RingStartPoll \/ RingFetch
           \/ RingWriteBack \/ EngineDone \/ FenceWrite \/ CoreReset
  BY <1>0, <1>2 DEF RingInitWritePtr, RingInitReadPtr, RingStartPoll, RingFetch,
     RingWriteBack, EngineDone, FenceWrite, CoreReset
<1>3. CASE ControlStep \/ ControlStartPoll
  BY <1>0, <1>3, ControlFrame
<1>4. CASE PushStore
  <2>1. /\ submitted' \in {submitted, submitted + 1} /\ submitted \in Nat
        /\ UNCHANGED <<handle, next_handle, executed>> /\ host_pc # "closed"
    BY <1>4, WordTypes DEF PushStore, HostMove
  <2> QED BY <1>0, <2>1
<1>5. CASE HostStep /\ ~PushStore
  <2>1. UNCHANGED executed /\ next_handle \in Nat
    BY <1>5, HostCore, WordTypes
  <2>2. CASE OpenMagic
    <3>1. handle' = next_handle /\ next_handle' = next_handle + 1
      BY <2>2 DEF OpenMagic
    <3> QED BY <1>0, <2>1, <3>1
  <2>3. CASE UNCHANGED <<handle, submitted, next_handle>>
             /\ (host_pc = "closed" => host_pc' = "closed")
    BY <1>0, <2>1, <2>3
  <2>4. CASE host_pc' = "closed" /\ UNCHANGED next_handle
    BY <1>0, <2>1, <2>4
  <2> QED BY <1>5, <2>2, <2>3, <2>4, HostHandle
<1>6. CASE UNCHANGED vars
  BY <1>0, <1>6
<1> QED BY <1>1, <1>2, <1>3, <1>4, <1>5, <1>6 DEF Next, RingStep

LEMMA ContentStep ==
    ASSUME TypeOK, TypeOK', CallInv, HandshakeInv, RingInv, ContentInv, CountInv,
           [Next]_vars
    PROVE  ContentInv'
BY SlotsStep, EngineStep, ExecutedStep DEF ContentInv
-----------------------------------------------------------------------------
(* The counts.                                                             *)

LEMMA CountFrame ==
    ASSUME Counts,
           UNCHANGED <<write_ptr, header.write_ptr, header.count, done_count,
                       confirmed_done, done_baseline, submitted, handle, engine,
                       read_ptr, slots>>,
           finished \subseteq finished',
           ring_state' = "WRITE_BACK" => ring_state = "WRITE_BACK"
    PROVE  Counts'
<1>1. Last' = Last /\ InFlight' = InFlight /\ LastCommand' = LastCommand
  BY DEF Last, InFlight, LastCommand
<1> QED BY <1>1 DEF Counts

LEMMA CountEmpty ==
    ASSUME TypeOK',
           read_ptr' = write_ptr', write_ptr' = header'.write_ptr,
           submitted' = 0, engine' = NoCommand, ring_state' # "WRITE_BACK",
           done_count' = done_baseline', header'.count = done_baseline',
           confirmed_done' = done_baseline'
    PROVE  Counts'
<1>1. /\ Slots \in Nat /\ Slots > 0 /\ FenceMod \in Nat /\ FenceMod >= 4
      /\ write_ptr' \in 0 .. Slots - 1 /\ done_baseline' \in 0 .. FenceMod - 1
  BY ConstantType DEF TypeOK
<1>2. Last' = done_baseline'
  <2>1. \A b \in 0 .. FenceMod - 1 : (b + 0) % FenceMod = b
    BY ConstantType
  <2> QED BY <1>1, <2>1 DEF Last
<1>3. /\ Dist(FenceMod, done_baseline', done_baseline') = 0
      /\ Dist(Slots, write_ptr', write_ptr') = 0
  BY <1>1, DistZero
<1>4. InFlight' = 0
  BY <1>3 DEF InFlight, Dist
<1>5. 0 <= FenceMod \div 2
  BY <1>1
<1> QED BY <1>2, <1>3, <1>4, <1>5 DEF Counts

LEMMA Flight == InFlight = Dist(Slots, read_ptr, write_ptr)
                           + (IF engine = NoCommand THEN 0 ELSE 1)
BY DEF InFlight, Dist

LEMMA CountTypes ==
    ASSUME TypeOK
    PROVE  /\ Dist(FenceMod, done_count, Last) \in Nat
           /\ Dist(FenceMod, header.count, Last) \in Nat
           /\ Dist(FenceMod, confirmed_done, Last) \in Nat
           /\ Dist(Slots, read_ptr, write_ptr) \in Nat
<1>1. /\ Dist(FenceMod, done_count, Last) \in 0 .. FenceMod - 1
      /\ Dist(FenceMod, header.count, Last) \in 0 .. FenceMod - 1
      /\ Dist(FenceMod, confirmed_done, Last) \in 0 .. FenceMod - 1
  BY WordTypes, DistValue
<1>2. Dist(Slots, read_ptr, write_ptr) \in 0 .. Slots - 1
  BY WordTypes, DistValue
<1> QED BY <1>1, <1>2

LEMMA SuccOne ==
    ASSUME NEW n \in Nat, n > 0, NEW p \in 0 .. n - 1, NEW q \in 0 .. n - 1,
           Succ(n, p) = Succ(n, q)
    PROVE  p = q
<1>1. /\ Succ(n, p) = IF p = n - 1 THEN 0 ELSE p + 1
      /\ Succ(n, q) = IF q = n - 1 THEN 0 ELSE q + 1
  BY SuccValue
<1>2. CASE p = n - 1
  <2>1. Succ(n, q) = 0
    BY <1>1, <1>2
  <2> QED BY <1>1, <1>2, <2>1
<1>3. CASE p # n - 1
  <2>1. Succ(n, q) = p + 1
    BY <1>1, <1>3
  <2> QED BY <1>1, <1>3, <2>1
<1> QED BY <1>2, <1>3

LEMMA CountDispatch ==
    ASSUME TypeOK, HandshakeInv, RingInv, ContentInv, Counts, RingDispatch
    PROVE  Counts'
<1>1. /\ read_ptr' = Succ(Slots, read_ptr) /\ engine = NoCommand
      /\ UNCHANGED <<header, slots, local, handle, fence, finished>>
      /\ write_ptr # read_ptr /\ write_ptr = header.write_ptr
  BY DEF RingDispatch, RingInv, Counts, Succ, CmdReady
<1>2. engine' = slots[read_ptr] /\ engine' # NoCommand
  BY SlotsDispatch DEF Command, Handle, NoCommand, NoToken
<1>3. Last' = Last /\ LastCommand' = LastCommand
  BY <1>1 DEF Last, LastCommand
<1>4. Dist(Slots, read_ptr', write_ptr) = Dist(Slots, read_ptr, write_ptr) - 1
  BY <1>1, WordTypes, DistPop
<1>5. Dist(Slots, read_ptr, write_ptr) # 0
  BY <1>1, WordTypes, DistZero
<1>6. /\ InFlight = Dist(Slots, read_ptr, write_ptr)
      /\ InFlight' = Dist(Slots, read_ptr', write_ptr) + 1
  BY <1>1, <1>2, CountTypes DEF InFlight, Dist
<1>7. InFlight' = InFlight /\ InFlight # 0
  BY <1>4, <1>5, <1>6, CountTypes
<1>8. header.count # Last
  <2>1. Dist(FenceMod, header.count, Last) # 0
    BY <1>7, CountTypes DEF Counts
  <2> QED BY <2>1, WordTypes, DistZero
<1>9. ASSUME submitted > 0
      PROVE  IF write_ptr # read_ptr'
               THEN \E s \in Slot : /\ Succ(Slots, s) = write_ptr
                                    /\ slots[s] = LastCommand
               ELSE engine' = LastCommand
  <2>1. PICK s \in Slot : Succ(Slots, s) = write_ptr /\ slots[s] = LastCommand
    BY <1>1, <1>9 DEF Counts
  <2>2. write_ptr = read_ptr' => s = read_ptr
    BY <1>1, <2>1, WordTypes, SuccOne DEF Slot
  <2> QED BY <1>2, <2>1, <2>2
<1> QED BY <1>1, <1>3, <1>7, <1>8, <1>9 DEF Counts

LEMMA CountDone ==
    ASSUME TypeOK, Counts, EngineDone
    PROVE  Counts'
<1>1. /\ engine # NoCommand /\ engine' = NoCommand
      /\ done_count' = Succ(FenceMod, done_count)
      /\ finished' = finished \cup {engine}
      /\ UNCHANGED <<header, slots, local, handle, ring>>
  BY DEF EngineDone, Succ
<1>2. Last' = Last /\ LastCommand' = LastCommand
  BY <1>1 DEF Last, LastCommand
<1>3. /\ InFlight = Dist(Slots, read_ptr, write_ptr) + 1
      /\ InFlight' = Dist(Slots, read_ptr, write_ptr)
  <2>1. InFlight' = Dist(Slots, read_ptr, write_ptr) + 0
    BY <1>1 DEF InFlight, Dist
  <2> QED BY <1>1, <2>1, Flight, CountTypes
<1>4. done_count # Last
  <2>1. Dist(FenceMod, done_count, Last) # 0
    BY <1>3, CountTypes DEF Counts
  <2> QED BY <2>1, WordTypes, DistZero
<1>5. Dist(FenceMod, done_count', Last) = Dist(FenceMod, done_count, Last) - 1
  BY <1>1, <1>4, WordTypes, DistPop
<1>6. /\ Dist(FenceMod, done_count', Last) = InFlight'
      /\ Dist(FenceMod, done_count', Last) <= Dist(FenceMod, header.count, Last)
  BY <1>3, <1>5, CountTypes DEF Counts
<1> QED BY <1>1, <1>2, <1>6 DEF Counts

LEMMA CountFence ==
    ASSUME TypeOK, Counts, FenceWrite
    PROVE  Counts'
<1>1. /\ UNCHANGED <<slots, local, handle, ring, engine, done_count, finished,
                     header.write_ptr>>
      /\ header'.count = done_count /\ ring_state # "WRITE_BACK"
  BY DEF FenceWrite, LinkWrites, TypeOK, Header
<1>2. Last' = Last /\ LastCommand' = LastCommand /\ InFlight' = InFlight
  BY <1>1 DEF Last, LastCommand, InFlight
<1>3. Dist(FenceMod, done_count, Last) <= Dist(FenceMod, confirmed_done, Last)
  BY CountTypes DEF Counts
<1>4. Dist(FenceMod, done_count, Last) <= Dist(FenceMod, done_count, Last)
  BY CountTypes
<1> QED BY <1>1, <1>2, <1>3, <1>4 DEF Counts

LEMMA CountPush ==
    ASSUME TypeOK, HandshakeInv, RingInv, CountInv, PushStore
    PROVE  Counts'
<1>1. host_pc = "push" /\ Held /\ UNCHANGED <<handle, done_baseline, confirmed_done>>
  BY DEF PushStore, HostMove, Held
<1>2. Counts
  BY <1>1, RingPush DEF CountInv
<1>3. UNCHANGED <<ring, engine, fence, finished>>
  BY HostCore DEF HostStep
<1>4. CASE UNCHANGED <<slots, write_ptr, submitted, wires>>
  BY <1>1, <1>2, <1>3, <1>4, CountFrame DEF wires
<1>5. CASE /\ Succ(Slots, write_ptr) # read_ptr
           /\ write_ptr' = Succ(Slots, write_ptr)
           /\ header'.write_ptr = Succ(Slots, write_ptr)
           /\ UNCHANGED <<header.read_ptr, header.count>>
           /\ slots' = [slots EXCEPT ![write_ptr] =
                          [handle |-> handle, n |-> submitted + 1]]
           /\ submitted' = submitted + 1
  <2>1. Last' = Succ(FenceMod, Last)
    <3>1. done_baseline + submitted \in Int
      BY WordTypes
    <3>2. (done_baseline + submitted + 1) % FenceMod
            = IF Last = FenceMod - 1 THEN 0 ELSE Last + 1
      BY <3>1, WordTypes, SuccMod DEF Last
    <3>3. Last' = (done_baseline + submitted + 1) % FenceMod
      BY <1>1, <1>5, WordTypes DEF Last
    <3> QED BY <3>2, <3>3, WordTypes, SuccValue
  <2>2. Dist(FenceMod, confirmed_done, Last) < FenceMod - 1
    BY <1>2, CountTypes, ConstantType DEF Counts
  <2>3. /\ Dist(FenceMod, header.count, Last) < FenceMod - 1
        /\ Dist(FenceMod, done_count, Last) < FenceMod - 1
    BY <1>2, <2>2, CountTypes, ConstantType DEF Counts
  <2>4. /\ Dist(FenceMod, confirmed_done, Last')
             = Dist(FenceMod, confirmed_done, Last) + 1
        /\ Dist(FenceMod, header.count, Last') = Dist(FenceMod, header.count, Last) + 1
        /\ Dist(FenceMod, done_count, Last') = Dist(FenceMod, done_count, Last) + 1
    BY <2>1, <2>2, <2>3, WordTypes, DistPush
  <2>5. Dist(FenceMod, confirmed_done, Last') <= FenceMod \div 2
    <3>1. (Last + 1 - confirmed_done) % FenceMod <= FenceMod \div 2
      BY <1>1 DEF CountInv
    <3>2. (Last - confirmed_done) + 1 = Last + 1 - confirmed_done
          /\ Last - confirmed_done \in Int
      BY WordTypes
    <3>3. (Last + 1 - confirmed_done) % FenceMod
            = IF Dist(FenceMod, confirmed_done, Last) = FenceMod - 1 THEN 0
              ELSE Dist(FenceMod, confirmed_done, Last) + 1
      BY <3>2, WordTypes, SuccMod DEF Dist
    <3> QED BY <2>2, <2>4, <3>1, <3>3, CountTypes
  <2>6. InFlight' = InFlight + 1
    <3>1. Dist(Slots, read_ptr, write_ptr') = Dist(Slots, read_ptr, write_ptr) + 1
      BY <1>5, WordTypes, DistPush
    <3> QED BY <1>3, <3>1, CountTypes DEF InFlight, Dist
  <2>7. header.count # Last'
    <3>1. Dist(FenceMod, header.count, Last') # 0
      BY <2>4, CountTypes
    <3>2. Last' \in 0 .. FenceMod - 1
      BY <2>1, WordTypes, SuccValue
    <3> QED BY <3>1, <3>2, WordTypes, DistZero
  <2>8. /\ write_ptr \in Slot /\ slots'[write_ptr] = LastCommand'
        /\ write_ptr' # read_ptr'
    BY <1>1, <1>3, <1>5, WordTypes DEF LastCommand, TypeOK, Slot
  <2>9. Dist(FenceMod, done_count, Last') = InFlight'
        /\ Dist(FenceMod, done_count, Last') <= Dist(FenceMod, header.count, Last')
        /\ Dist(FenceMod, header.count, Last')
             <= Dist(FenceMod, confirmed_done, Last')
    BY <1>2, <2>4, <2>6, CountTypes DEF Counts
  <2> QED BY <1>1, <1>3, <1>5, <2>5, <2>7, <2>8, <2>9 DEF Counts
<1> QED BY <1>4, <1>5, RingPush

LEMMA CountCore ==
    ASSUME TypeOK, HandshakeInv, RingInv, ContentInv, CountInv,
           RingStep \/ EngineDone \/ FenceWrite
    PROVE  CountInv'
<1>1. UNCHANGED <<host, control>>
  BY RingHeader
<1> SUFFICES ASSUME Held, host_pc # "transport", SessionOwned
             PROVE  Counts'
  BY <1>1 DEF CountInv, Held, SessionOwned, Last
<1>2. Counts
  BY DEF CountInv
<1>3. ~RingInitWritePtr /\ ~RingInitReadPtr
  BY Uninitialized DEF RingInitWritePtr, RingInitReadPtr, SessionOwned
<1>4. CASE RingStartPoll \/ RingFetch
  BY <1>2, <1>4, CountFrame DEF RingStartPoll, RingFetch
<1>5. CASE RingWriteBack
  <2>1. UNCHANGED <<header.write_ptr, header.count>>
    BY <1>5 DEF RingWriteBack, TypeOK, Header
  <2> QED BY <1>2, <1>5, <2>1, CountFrame DEF RingWriteBack
<1> QED BY <1>2, <1>3, <1>4, <1>5, CountDispatch, CountDone, CountFence
        DEF RingStep
LEMMA CountControl ==
    ASSUME TypeOK, TypeOK', HandshakeInv, RingInv, CountInv, ClaimInv,
           ControlStep \/ ControlStartPoll
    PROVE  CountInv'
<1>1. UNCHANGED <<wires, slots, host, ring, engine, fence, ghost>>
  BY ControlFrame
<1> SUFFICES ASSUME Held, host_pc # "transport", SessionOwned'
             PROVE  Counts'
  BY <1>1 DEF CountInv, Held, Last
<1>2. CASE SessionOwned
  <2>1. Counts
    BY <1>2 DEF CountInv
  <2> QED BY <1>1, <2>1, CountFrame DEF wires
<1>3. CASE ~SessionOwned
  <2>1. ~session_active
    BY <1>3, Owner
  <2>2. control_state = "TOKEN_HI"
    BY <2>1 DEF SessionOwned, ControlStep, ControlStartPoll, ControlInit,
       ControlAnswer, ControlWrite, ControlReadSequence, ControlReadTokenLo,
       ControlReadTokenHi
  <2>3. header.request = Claim
    BY <2>1, <2>2 DEF ClaimInv, Claiming, Live, Held
  <2>4. Claimed /\ host_pc # "transport"
    BY <2>1, <2>2, <2>3 DEF Claimed
  <2>5. /\ HeaderZero /\ submitted = 0
        /\ write_ptr = 0 /\ done_baseline = 0 /\ confirmed_done = 0
    BY <2>4 DEF ClaimInv
  <2>6. Quiet
    BY <2>1, Inactive
  <2> QED BY <1>1, <2>5, <2>6, CountEmpty DEF HeaderZero, Quiet, wires
<1> QED BY <1>2, <1>3

LEMMA HostCounts ==
    ASSUME HostStep, ~PushStore, Held', host_pc' # "transport"
    PROVE  \/ OpenBaseline \/ PollConfirm
           \/ /\ UNCHANGED <<local, handle>> \/ PollPing \/ PollResponse
              /\ Held /\ host_pc # "transport"
              /\ UNCHANGED <<write_ptr, done_baseline, confirmed_done, submitted,
                             handle>>
<1> USE DEF HostMove, Held
<1>1. CASE OpenMagic \/ OpenTokenLo \/ OpenTokenHi \/ OpenClaim \/ OpenFailed
           \/ OpenBusy \/ OpenResponse \/ OpenClaimed \/ OpenReady
  BY <1>1 DEF OpenMagic, OpenBusy, OpenResponse, OpenClaimed, OpenTokenLo,
     OpenTokenHi, OpenClaim, OpenFailed, OpenReady
<1>2. CASE CheckFails \/ PushCheck \/ HostTimeout \/ CloseDrained
           \/ CloseRelease \/ HandleEnds
  BY <1>2 DEF CheckFails, PushCheck, HostTimeout, CloseDrained,
     CloseRelease, HandleEnds
<1>3. CASE PollCheck \/ PollCached \/ PollUnreached \/ PollReached \/ PollPing
           \/ PollResponse
  BY <1>3 DEF PollCheck, PollCached, PollUnreached, PollReached, PollPing,
     PollResponse
<1> QED BY <1>1, <1>2, <1>3 DEF HostStep

LEMMA CountHost ==
    ASSUME TypeOK, TypeOK', HandshakeInv, RingInv, CountInv, ClaimInv,
           HostStep, ~PushStore
    PROVE  CountInv'
<1>1. /\ UNCHANGED <<wires, slots, ring, engine, fence, session>>
      /\ UNCHANGED finished
  BY HostFrame, HostCore
<1>2. (host_pc = "push" =>
         (Last + 1 - confirmed_done) % FenceMod <= FenceMod \div 2)'
  BY HostPath DEF PushCheck, Last
<1> SUFFICES ASSUME Held', host_pc' # "transport", SessionOwned' PROVE Counts'
  BY <1>2 DEF CountInv
<1>3. CASE OpenBaseline
  <2>1. /\ host_pc = "transport" /\ submitted = 0 /\ UNCHANGED submitted
        /\ write_ptr' = header.write_ptr /\ done_baseline' = header.count
        /\ confirmed_done' = header.count
    BY <1>3 DEF OpenBaseline, HostMove, ClaimInv
  <2>2. session_active /\ Quiet /\ DeviceInitialized
    BY <1>1, <2>1 DEF SessionOwned, RingInv, Busy, Using, HandshakeInv, ControlInv
  <2>3. /\ header.write_ptr = read_ptr /\ header.count = done_count
        /\ engine = NoCommand /\ ring_state # "WRITE_BACK"
    BY <2>2 DEF Quiet, DeviceInitialized, RingInitialized
  <2> QED BY <1>1, <2>1, <2>3, CountEmpty DEF wires
<1>4. CASE PollConfirm
  <2>1. /\ host_pc = "confirm" /\ confirmed_done' = header.count
        /\ UNCHANGED <<handle, write_ptr, submitted, done_baseline>>
    BY <1>4 DEF PollConfirm, HostMove
  <2>2. Counts
    BY <1>1, <2>1 DEF CountInv, Held, SessionOwned
  <2>3. Last' = Last /\ InFlight' = InFlight /\ LastCommand' = LastCommand
    BY <1>1, <2>1 DEF Last, InFlight, LastCommand
  <2>4. /\ Dist(FenceMod, header.count, Last) <= FenceMod \div 2
        /\ Dist(FenceMod, header.count, Last) <= Dist(FenceMod, header.count, Last)
    BY <2>2, CountTypes, ConstantType DEF Counts
  <2> QED BY <1>1, <2>1, <2>2, <2>3, <2>4 DEF Counts, wires
<1>5. CASE /\ Held /\ host_pc # "transport"
           /\ UNCHANGED <<write_ptr, done_baseline, confirmed_done, submitted,
                          handle>>
  <2>1. Counts
    BY <1>1, <1>5 DEF CountInv, SessionOwned
  <2> QED BY <1>1, <1>5, <2>1, CountFrame DEF wires
<1> QED BY <1>3, <1>4, <1>5, HostCounts

LEMMA CountStep ==
    ASSUME TypeOK, TypeOK', HandshakeInv, RingInv, ContentInv, CountInv, ClaimInv,
           [Next]_vars
    PROVE  CountInv'
<1>1. CASE CoreReset
  BY <1>1 DEF CoreReset, CountInv, SessionOwned, Last
<1>2. CASE UNCHANGED vars
  BY <1>2, CountFrame DEF CountInv, SessionOwned, Held, Last
<1>3. CASE PushStore
  <2>1. Counts' /\ host_pc' = "ready"
    BY <1>3, CountPush DEF PushStore, HostMove
  <2> QED BY <2>1 DEF CountInv
<1> QED BY <1>1, <1>2, <1>3, CountCore, CountControl, CountHost DEF Next

-----------------------------------------------------------------------------
(* A claim of a core that has answered it before.                          *)

\* What the core changes while it is quiet.
LEMMA QuietWires ==
    ASSUME TypeOK, HandshakeInv, RingInv, ~Busy, ~HostStep, [Next]_vars
    PROVE  /\ Quiet
           /\ HeaderZero => HeaderZero'
           /\ done_count = 0 /\ read_ptr = 0 => done_count' = 0 /\ read_ptr' = 0
           /\ UNCHANGED <<host, ghost, slots>>
<1>0. Quiet
  BY DEF RingInv
<1>1. ~RingDispatch /\ ~RingWriteBack /\ ~EngineDone
  BY <1>0 DEF Quiet, RingDispatch, RingWriteBack, EngineDone
<1>2. CASE RingInitWritePtr \/ RingInitReadPtr
  BY <1>0, <1>2 DEF RingInitWritePtr, RingInitReadPtr, HeaderZero, TypeOK, Header
<1>3. CASE RingStartPoll \/ RingFetch
  BY <1>0, <1>3 DEF RingStartPoll, RingFetch, HeaderZero
<1>4. CASE FenceWrite
  BY <1>0, <1>4 DEF FenceWrite, HeaderZero, TypeOK, Header
<1>5. CASE ControlStep \/ ControlStartPoll
  BY <1>0, <1>5, ControlFrame DEF HeaderZero, wires
<1>6. CASE CoreReset
  BY <1>0, <1>6 DEF CoreReset, HeaderZero
<1>7. CASE UNCHANGED vars
  BY <1>0, <1>7 DEF HeaderZero
<1> QED BY <1>1, <1>2, <1>3, <1>4, <1>5, <1>6, <1>7 DEF Next, RingStep

\* The core neither makes a claim nor, without a session, an answer.
LEMMA ClaimedStep ==
    ASSUME TypeOK, HandshakeInv, ~HostStep, [Next]_vars
    PROVE  /\ Claimed' => Claimed
           /\ Claimed' /\ SessionOk' => SessionOk
           /\ header'.request \in {header.request, Closed}
           /\ header'.request # header.request => control_state = "INIT_REQUEST_CLEAR"
<1> USE DEF Claimed, SessionOk, OwnResponse
<1>1. CASE RingStep \/ EngineDone \/ FenceWrite
  BY <1>1, RingHeader DEF handshake
<1>2. CASE ControlInit
  <2>1. Claim # Closed
    BY ConstantType DEF Closed
  <2> QED BY <1>2, <2>1 DEF ControlInit, ControlWrite, TypeOK, Header
<1>3. CASE ControlAnswer
  BY <1>3 DEF ControlAnswer, ControlWrite, TypeOK, Header, HandshakeInv, ControlInv
<1>4. CASE ControlReadSequence
  <2>1. Claim # Closed
    BY ConstantType DEF Closed
  <2> QED BY <1>4, <2>1 DEF ControlReadSequence, SessionEnds
<1>5. CASE ControlReadTokenLo \/ ControlReadTokenHi \/ ControlStartPoll
  BY <1>5 DEF ControlReadTokenLo, ControlReadTokenHi, ControlStartPoll
<1>6. CASE CoreReset
  BY <1>6 DEF CoreReset
<1>7. CASE UNCHANGED vars
  BY <1>7
<1> QED BY <1>1, <1>2, <1>3, <1>4, <1>5, <1>6, <1>7 DEF Next, ControlStep
\* A session begins with a claim read to its end, and its answer is its own.
LEMMA SessionStep ==
    ASSUME TypeOK, HandshakeInv, ~HostStep, [Next]_vars
    PROVE  /\ SessionOwned' => SessionOwned \/ Claiming
           /\ SessionOk' => SessionOk \/ SessionOwned
           /\ Claiming' => Claiming \/ header'.request = Claim
           /\ Claiming' => control_state # "INIT_REQUEST_CLEAR"
<1> USE DEF SessionOwned, SessionOk, OwnResponse, Claiming
<1>1. CASE RingStep \/ EngineDone \/ FenceWrite
  BY <1>1, RingHeader DEF handshake
<1>2. CASE ControlInit
  BY <1>2 DEF ControlInit, ControlWrite, TypeOK, Header
<1>3. CASE ControlAnswer
  BY <1>3 DEF ControlAnswer, ControlWrite, TypeOK, Header, HandshakeInv, ControlInv
<1>4. CASE ControlReadSequence
  BY <1>4 DEF ControlReadSequence, Considered
<1>5. CASE ControlReadTokenLo \/ ControlReadTokenHi \/ ControlStartPoll
  BY <1>5 DEF ControlReadTokenLo, ControlReadTokenHi, ControlStartPoll
<1>6. CASE CoreReset
  BY <1>6 DEF CoreReset
<1>7. CASE UNCHANGED vars
  BY <1>7
<1> QED BY <1>1, <1>2, <1>3, <1>4, <1>5, <1>6, <1>7 DEF Next, ControlStep

LEMMA ClaimCore ==
    ASSUME TypeOK, HandshakeInv, RingInv, ClaimInv, ~HostStep, [Next]_vars
    PROVE  ClaimInv'
<1>0. UNCHANGED host
  BY RingHeader, ControlFrame DEF Next, CoreReset
<1>1. (Live /\ Claiming => header.request = Claim)'
  BY <1>0, ClaimedStep, SessionStep DEF ClaimInv, Live
<1>2. (Before /\ (Claimed \/ SessionOwned) => done_count = 0 /\ read_ptr = 0)'
  <2> SUFFICES ASSUME Before, Claimed' \/ SessionOwned'
               PROVE  done_count' = 0 /\ read_ptr' = 0
    BY <1>0 DEF Before
  <2>1. Claimed \/ SessionOwned
    <3>1. CASE Claiming
      BY <3>1 DEF ClaimInv, Live, Before, Claimed, Claiming
    <3> QED BY <3>1, ClaimedStep, SessionStep
  <2>2. ~Busy
    BY <2>1 DEF Busy, Before, Using, Claimed, SessionOwned, HandshakeInv, TokenInv
  <2> QED BY <2>1, <2>2, QuietWires DEF ClaimInv
<1>3. (host_pc = "claim" /\ SessionOk => HeaderZero)'
  <2> SUFFICES ASSUME host_pc = "claim", SessionOk' PROVE HeaderZero'
    BY <1>0
  <2>1. ~Busy
    BY DEF Busy, Using
  <2>2. CASE SessionOk
    BY <2>1, <2>2, QuietWires DEF ClaimInv
  <2>3. CASE SessionOwned
    <3>1. done_count = 0 /\ read_ptr = 0
      BY <2>3 DEF ClaimInv, Before
    <3>2. DeviceInitialized
      BY <2>3 DEF SessionOwned, HandshakeInv, ControlInv
    <3>3. HeaderZero
      BY <2>1, <3>1, <3>2 DEF RingInv, Quiet, HeaderZero, DeviceInitialized,
         RingInitialized
    <3> QED BY <2>1, <3>3, QuietWires
  <2> QED BY <2>2, <2>3, SessionStep
<1>4. (host_pc = "claim_wait" /\ SessionOk /\ Claimed => HeaderZero)'
  <2> SUFFICES ASSUME host_pc = "claim_wait", SessionOk', Claimed' PROVE HeaderZero'
    BY <1>0
  <2>1. ~Busy /\ SessionOk /\ Claimed
    BY ClaimedStep DEF Busy, Using
  <2> QED BY <2>1, QuietWires DEF ClaimInv
<1>5. (Held /\ Claimed =>
         /\ HeaderZero /\ submitted = 0
         /\ \/ host_pc = "transport"
            \/ /\ host_pc \in {"transport_check", "ready", "release"}
               /\ write_ptr = 0 /\ done_baseline = 0 /\ confirmed_done = 0)'
  <2> SUFFICES ASSUME Held, Claimed'
               PROVE  /\ HeaderZero' /\ submitted = 0
                      /\ \/ host_pc = "transport"
                         \/ /\ host_pc \in {"transport_check", "ready", "release"}
                            /\ write_ptr = 0 /\ done_baseline = 0
                            /\ confirmed_done = 0
    BY <1>0 DEF Held
  <2>1. Claimed /\ ~Busy
    BY ClaimedStep DEF Busy, Claimed
  <2> QED BY <2>1, QuietWires DEF ClaimInv
<1> QED BY <1>0, <1>1, <1>2, <1>3, <1>4, <1>5 DEF ClaimInv

LEMMA ClaimHost ==
    ASSUME TypeOK, CallInv, HandshakeInv, RingInv, CountInv, ClaimInv, HostStep,
           RacingStores = FALSE
    PROVE  ClaimInv'
<1>0. UNCHANGED <<answer, ring, engine, fence, control>>
  BY HostCore
<1> USE DEF Live, Before, Held, SessionOwned, SessionOk, OwnResponse
<1>1. CASE PushStore
  <2>1. session_active' /\ host_pc' = "ready" /\ host_pc = "push"
    BY <1>0, <1>1 DEF RingInv, PushStore, HostMove
  <2> QED BY <2>1 DEF ClaimInv, Claiming, Claimed
<1>2. CASE PollPing
  <2>1. header'.request = ping_seq + 1 /\ ping_seq \in Nat /\ ping_seq < MaxPings
    BY <1>2, ConstantType DEF PollPing, TypeOK, Header
  <2>2. header'.request # Claim
    BY <2>1, ConstantType DEF Claim
  <2>3. host_pc = "ping" /\ host_pc' = "ready"
    BY <1>2 DEF PollPing, HostMove
  <2>4. ~Claiming
    BY <2>3 DEF ClaimInv, Claiming, Claimed
  <2> QED BY <1>0, <2>2, <2>3, <2>4 DEF ClaimInv, Claiming, Claimed
<1>3. CASE HostStep /\ ~PushStore /\ ~PollPing
  <2>0. UNCHANGED wires
    BY <1>3, HostFrame
  <2>1. /\ HeaderZero' = HeaderZero /\ Claiming' = Claiming
        /\ UNCHANGED <<header.response, header.response_lo, header.response_hi>>
    BY <1>0, <2>0 DEF HeaderZero, wires, Claiming, answer
  <2>2. CASE OpenMagic
    <3>1. ~Claiming
      BY <2>2 DEF OpenMagic, Settled, Answering, Claiming
    <3>2. session_lo # next_handle
      BY WordTypes, ConstantType DEF HandshakeInv, TokenInv, TypeOK, Token
    <3>3. Claimed => ~DeviceInitialized
      BY <2>2, ConstantType DEF OpenMagic, Settled, Claimed, Considered,
         HandshakeInv, ControlInv, Closed
    <3>4. /\ UNCHANGED header /\ handle' = next_handle /\ submitted' = 0
          /\ host_pc' = "opening"
      BY <2>2 DEF OpenMagic, HostMove
    <3> QED BY <1>0, <2>1, <3>1, <3>2, <3>3, <3>4 DEF ClaimInv, Claimed, RingInv
  <2>3. CASE OpenResponse
    BY <1>0, <2>1, <2>3 DEF OpenResponse, HostMove, ClaimInv, Claimed
  <2>4. CASE OpenTokenLo \/ OpenTokenHi
    <3>1. /\ header'.request = header.request
          /\ UNCHANGED <<handle, submitted>>
          /\ \/ host_pc = "token_lo" /\ host_pc' = "token_hi"
             \/ host_pc = "token_hi" /\ host_pc' = "claim"
      BY <2>4 DEF OpenTokenLo, OpenTokenHi, HostMove, TypeOK, Header
    <3>2. host_pc = "token_hi" => ~(SessionOk')
      BY <2>1, <3>1 DEF HandshakeInv, TokenInv
    <3> QED BY <1>0, <2>1, <3>1, <3>2 DEF ClaimInv, Claimed
  <2>5. CASE OpenClaim
    <3>1. /\ header'.request = Claim /\ UNCHANGED <<handle, submitted>>
          /\ host_pc = "claim" /\ host_pc' = "claim_wait"
      BY <2>5 DEF OpenClaim, HostMove, TypeOK, Header
    <3> QED BY <1>0, <2>1, <3>1 DEF ClaimInv
  <2>6. CASE OpenClaimed
    <3>1. /\ SessionOk /\ UNCHANGED <<header, handle, local>>
          /\ host_pc = "claim_wait" /\ host_pc' = "transport"
      BY <2>6, ConstantType DEF OpenClaimed, HostMove, Closed
    <3> QED BY <1>0, <2>1, <3>1 DEF ClaimInv, Claimed
  <2>7. CASE OpenBaseline
    BY <1>0, <2>1, <2>7 DEF OpenBaseline, HostMove, ClaimInv, Claimed, HeaderZero
  <2>8. CASE OpenReady
    BY <1>0, <2>1, <2>8 DEF OpenReady, HostMove, ClaimInv, Claimed
  <2>9. CASE PushCheck
    BY <1>0, <2>1, <2>9 DEF PushCheck, HostMove, ClaimInv, Claimed
  <2>10. CASE PollCheck
    <3>1. ~Claimed
      BY <2>10 DEF PollCheck, HostMove, ClaimInv
    <3> QED BY <1>0, <2>1, <2>10, <3>1 DEF PollCheck, HostMove, ClaimInv, Claimed
  <2>11. CASE PollCached \/ PollUnreached \/ PollReached \/ PollResponse
              \/ PollConfirm
    <3>1. /\ UNCHANGED <<header, handle>>
          /\ host_pc \in {"poll", "response", "confirm"}
          /\ host_pc' \in {"ready", "ping", "response", "confirm"}
      BY <2>11 DEF PollCached, PollUnreached, PollReached, PollResponse,
         PollConfirm, HostMove
    <3>2. ~Claimed
      BY <3>1 DEF ClaimInv
    <3> QED BY <1>0, <2>1, <3>1, <3>2 DEF ClaimInv, Claimed
  <2>12. CASE CheckFails \/ HostTimeout \/ CloseDrained
    BY <1>0, <2>1, <2>12 DEF CheckFails, HostTimeout, CloseDrained, HostMove,
       ClaimInv, Claimed
  <2>13. CASE OpenBusy \/ OpenFailed \/ CloseRelease \/ HandleEnds
    BY <2>13 DEF OpenBusy, OpenFailed, CloseRelease, HandleEnds, HostMove, ClaimInv
  <2> QED BY <1>3, <2>2, <2>3, <2>4, <2>5, <2>6, <2>7, <2>8, <2>9, <2>10, <2>11,
             <2>12, <2>13 DEF HostStep
<1> QED BY <1>1, <1>2, <1>3

LEMMA ClaimStep ==
    ASSUME TypeOK, CallInv, HandshakeInv, RingInv, CountInv, ClaimInv, [Next]_vars,
           RacingStores = FALSE
    PROVE  ClaimInv'
BY ClaimCore, ClaimHost
-----------------------------------------------------------------------------
(* What a poll reports.                                                    *)

LEMMA NotReached ==
    ASSUME NEW a \in 0 .. FenceMod - 1, NEW b \in 0 .. FenceMod - 1,
           NEW t \in 0 .. FenceMod - 1,
           Dist(FenceMod, a, t) # 0,
           Dist(FenceMod, a, t) <= Dist(FenceMod, b, t),
           Dist(FenceMod, b, t) <= FenceMod \div 2
    PROVE  ~Reached(b, t)
<1>0. FenceMod \in Nat /\ FenceMod > 0
  BY ConstantType
<1>1. Dist(FenceMod, a, t) \in 0 .. FenceMod - 1
  BY <1>0, DistValue
<1>2. Dist(FenceMod, b, t) # 0
  <2>1. Dist(FenceMod, b, t) \in 0 .. FenceMod - 1
    BY <1>0, DistValue
  <2> QED BY <1>0, <1>1, <2>1
<1>3. b # t
  BY <1>0, <1>2, DistZero
<1> QED BY <1>3, ReachedHere

\* Counts of a command in flight say that it is.
LEMMA CountsDone ==
    ASSUME TypeOK, Counts, submitted > 0,
           \/ Reached(done_count, Last) \/ Reached(header.count, Last)
           \/ Reached(confirmed_done, Last)
    PROVE  LastCommand \in finished
<1>1. Dist(FenceMod, done_count, Last) = 0
  <2> SUFFICES ASSUME Dist(FenceMod, done_count, Last) # 0 PROVE FALSE
    OBVIOUS
  <2>1. /\ Dist(FenceMod, done_count, Last) <= Dist(FenceMod, done_count, Last)
        /\ Dist(FenceMod, done_count, Last) <= Dist(FenceMod, header.count, Last)
        /\ Dist(FenceMod, done_count, Last) <= Dist(FenceMod, confirmed_done, Last)
        /\ Dist(FenceMod, done_count, Last) <= FenceMod \div 2
        /\ Dist(FenceMod, header.count, Last) <= FenceMod \div 2
        /\ Dist(FenceMod, confirmed_done, Last) <= FenceMod \div 2
    BY CountTypes, ConstantType DEF Counts
  <2>2. /\ ~Reached(done_count, Last) /\ ~Reached(header.count, Last)
        /\ ~Reached(confirmed_done, Last)
    BY <2>1, WordTypes, NotReached
  <2> QED BY <2>2
<1>2. Dist(Slots, read_ptr, write_ptr) = 0 /\ engine = NoCommand
  <2>1. Dist(Slots, read_ptr, write_ptr) + (IF engine = NoCommand THEN 0 ELSE 1) = 0
    BY <1>1, Flight DEF Counts
  <2> QED BY <2>1, CountTypes
<1>3. read_ptr = write_ptr
  BY <1>2, WordTypes, DistZero
<1>4. LastCommand # NoCommand
  BY WordTypes DEF LastCommand, NoCommand
<1> QED BY <1>2, <1>3, <1>4 DEF Counts

LEMMA ReportPush ==
    ASSUME TypeOK, HandshakeInv, RingInv, CountInv, ReportInv, PushStore
    PROVE  ReportInv'
<1>1. /\ host_pc = "push" /\ host_pc' = "ready" /\ Held /\ Using
      /\ UNCHANGED <<handle, done_baseline, confirmed_done, reported>>
  BY DEF PushStore, HostMove, Held, Using
<1>2. /\ UNCHANGED <<ring, engine, fence, finished>>
      /\ UNCHANGED <<header.response, header.response_lo, header.response_hi>>
  BY HostCore DEF HostStep, answer
<1>3. CASE UNCHANGED <<slots, write_ptr, submitted, wires>>
  BY <1>1, <1>2, <1>3 DEF ReportInv, Using, SessionOk, OwnResponse, Last,
     LastCommand, wires
<1>4. CASE write_ptr' = Succ(Slots, write_ptr) /\ Succ(Slots, write_ptr) # read_ptr
           /\ UNCHANGED header.count /\ submitted' = submitted + 1
  <2>1. Counts'
    BY CountPush
  <2>2. Last' \in 0 .. FenceMod - 1
    <3>1. done_baseline + submitted' \in Int
      BY <1>4, WordTypes
    <3> QED BY <1>1, <3>1, WordTypes, ModType DEF Last
  <2>3. Dist(FenceMod, done_count, Last') # 0
    <3>1. write_ptr' \in 0 .. Slots - 1
      BY <1>4, WordTypes, SuccValue
    <3>2. Dist(Slots, read_ptr, write_ptr') \in 0 .. Slots - 1
          /\ Dist(Slots, read_ptr, write_ptr') # 0
      <4>1. Dist(Slots, read_ptr, write_ptr') \in 0 .. Slots - 1
        BY <3>1, WordTypes, DistValue
      <4>2. Dist(Slots, read_ptr, write_ptr') # 0
        BY <1>4, <3>1, WordTypes, DistZero
      <4> QED BY <4>1, <4>2
    <3>3. InFlight' # 0
      BY <1>2, <3>2, WordTypes DEF InFlight, Dist
    <3> QED BY <1>2, <2>1, <3>3 DEF Counts
  <2>4. /\ Dist(FenceMod, done_count, Last') <= Dist(FenceMod, header.count, Last')
        /\ Dist(FenceMod, done_count, Last') <= Dist(FenceMod, confirmed_done, Last')
        /\ Dist(FenceMod, header.count, Last') <= FenceMod \div 2
        /\ Dist(FenceMod, confirmed_done, Last') <= FenceMod \div 2
    <3>1. /\ Dist(FenceMod, done_count, Last') \in 0 .. FenceMod - 1
          /\ Dist(FenceMod, header.count, Last') \in 0 .. FenceMod - 1
          /\ Dist(FenceMod, confirmed_done, Last') \in 0 .. FenceMod - 1
      BY <2>2, WordTypes, DistValue
    <3>2. /\ Dist(FenceMod, done_count, Last')
               <= Dist(FenceMod, header.count, Last')
          /\ Dist(FenceMod, header.count, Last')
               <= Dist(FenceMod, confirmed_done, Last')
          /\ Dist(FenceMod, confirmed_done, Last') <= FenceMod \div 2
      BY <1>1, <1>2, <1>4, <2>1 DEF Counts
    <3> QED BY <3>1, <3>2, ConstantType
  <2>5. ~Reached(confirmed_done, Last') /\ ~Reached(header.count, Last')
    BY <2>2, <2>3, <2>4, WordTypes, NotReached
  <2> QED BY <1>1, <1>2, <1>4, <2>5 DEF ReportInv
<1> QED BY <1>3, <1>4, RingPush DEF wires

LEMMA ReportHost ==
    ASSUME TypeOK, CallInv, HandshakeInv, RingInv, CountInv, ClaimInv, ReportInv,
           HostStep, ~PushStore
    PROVE  ReportInv'
<1>1. UNCHANGED <<wires, answer, session, finished>>
  BY HostFrame, HostCore
<1> USE DEF Using
<1>2. CASE Using' /\ ~PollConfirm
  <2>1. CASE OpenReady
    <3>1. /\ UNCHANGED <<submitted, reported>> /\ host_pc' = "ready"
          /\ host_pc = "transport_check"
      BY <2>1 DEF OpenReady, HostMove
    <3> QED BY <1>1, <3>1 DEF ReportInv, ClaimInv
  <2>2. CASE ~OpenReady
    <3>1. Using /\ UNCHANGED <<handle, done_baseline>>
      BY <1>2, <2>2, HostPath
    <3>2. UNCHANGED <<submitted, confirmed_done>>
      BY <1>2, <2>2, <3>1 DEF HostStep, OpenMagic, OpenBusy, OpenResponse,
         OpenTokenLo, OpenTokenHi, OpenClaim, OpenClaimed, OpenBaseline,
         OpenFailed, CheckFails, PushCheck, PollCheck, PollCached,
         PollUnreached, PollReached, PollPing, PollResponse,
         HostTimeout, CloseDrained, CloseRelease, HandleEnds, HostMove
    <3>3. Last' = Last /\ LastCommand' = LastCommand /\ SessionOk' = SessionOk
      BY <1>1, <3>1, <3>2 DEF Last, LastCommand, SessionOk, OwnResponse, answer
    <3>4. host_pc' = "confirm" => LastCommand \in finished
      <4> SUFFICES ASSUME PollResponse, host_pc' = "confirm"
                   PROVE  LastCommand \in finished
        BY HostPath
      <4>1. host_pc = "response" /\ header.response = ping_seq /\ ping_pending
        BY DEF PollResponse, HostMove, CallInv
      <4>2. header.response # Closed
        BY <4>1, ConstantType DEF CallInv, TypeOK, Closed
      <4> QED BY <4>1, <4>2 DEF ReportInv
    <3>5. host_pc' = "response" =>
            LastCommand \in finished \/ (~session_active /\ header.response = Closed)
      <4> SUFFICES ASSUME PollReached
                   PROVE  LastCommand \in finished
                          \/ (~session_active /\ header.response = Closed)
        BY HostPath
      <4>1. host_pc = "poll" /\ Held /\ Reached(header.count, Last) /\ submitted > 0
        BY DEF PollReached, HostMove, Held, CallInv
      <4>2. CASE SessionOk
        BY <4>1, <4>2 DEF ReportInv
      <4>3. CASE SessionOwned
        <5>1. Counts
          BY <4>1, <4>3 DEF CountInv
        <5> QED BY <4>1, <5>1, CountsDone
      <4>4. CASE ~SessionOk /\ ~SessionOwned
        BY <4>1, <4>4 DEF HandshakeInv, RequestInv, SessionOk
      <4> QED BY <4>2, <4>3, <4>4
    <3>6. reported' \subseteq finished
      <4>1. CASE PollCached
        <5>1. /\ host_pc = "poll" /\ submitted > 0 /\ Reached(confirmed_done, Last)
              /\ reported' = reported \cup {LastCommand}
          BY <4>1 DEF PollCached, HostMove, CallInv, Report, LastCommand
        <5> QED BY <5>1 DEF ReportInv
      <4>2. CASE ~PollCached
        <5>1. UNCHANGED reported
          BY <1>2, <2>2, <4>2, <3>1 DEF HostStep, OpenMagic, OpenBusy, OpenResponse,
             OpenTokenLo, OpenTokenHi, OpenClaim, OpenClaimed, OpenBaseline,
             OpenFailed, CheckFails, PushCheck, PollCheck,
             PollUnreached, PollReached, PollPing, PollResponse,
             HostTimeout, CloseDrained, CloseRelease, HandleEnds, HostMove
        <5> QED BY <5>1 DEF ReportInv
      <4> QED BY <4>1, <4>2
    <3> QED BY <1>1, <3>1, <3>2, <3>3, <3>4, <3>5, <3>6 DEF ReportInv, wires, answer
  <2> QED BY <2>1, <2>2
<1>3. CASE PollConfirm
  <2>1. /\ host_pc = "confirm" /\ host_pc' = "ready" /\ LastCommand \in finished
        /\ reported' = reported \cup {LastCommand}
        /\ UNCHANGED <<handle, submitted>>
    BY <1>3 DEF PollConfirm, HostMove, Report, LastCommand, ReportInv
  <2>2. LastCommand' = LastCommand
    BY <2>1 DEF LastCommand
  <2> QED BY <1>1, <2>1, <2>2 DEF ReportInv
<1>4. CASE ~(Using')
  <2>1. UNCHANGED reported
    BY <1>4 DEF HostStep, OpenMagic, OpenBusy, OpenResponse,
       OpenTokenLo, OpenTokenHi, OpenClaim, OpenClaimed, OpenBaseline, OpenReady,
       OpenFailed, CheckFails, PushCheck, PollCheck, PollCached,
       PollUnreached, PollReached, PollPing, PollResponse, PollConfirm,
       HostTimeout, CloseDrained, CloseRelease, HandleEnds, HostMove
  <2> QED BY <1>1, <1>4, <2>1 DEF ReportInv
<1> QED BY <1>2, <1>3, <1>4

LEMMA ReportCore ==
    ASSUME TypeOK, HandshakeInv, RequestInv', RingInv, CountInv, ClaimInv,
           ReportInv, ~HostStep, [Next]_vars
    PROVE  ReportInv'
<1>1. /\ UNCHANGED <<host, reported>> /\ finished \subseteq finished'
  <2>1. CASE ControlStep \/ ControlStartPoll
    BY <2>1, ControlFrame
  <2>2. CASE RingStep \/ EngineDone \/ FenceWrite \/ CoreReset
    BY <2>2 DEF RingStep, RingInitWritePtr, RingInitReadPtr, RingStartPoll,
       RingFetch, RingDispatch, RingWriteBack, EngineDone, FenceWrite, CoreReset
  <2> QED BY <2>1, <2>2 DEF Next
<1>2. Last' = Last /\ LastCommand' = LastCommand /\ Using' = Using
  BY <1>1 DEF Last, LastCommand, Using
<1>3. \/ header'.count = header.count
      \/ FenceWrite /\ header'.count = done_count
  <2>1. CASE ControlStep \/ ControlStartPoll
    BY <2>1, ControlFrame DEF wires
  <2>2. CASE RingInitWritePtr \/ RingInitReadPtr \/ RingWriteBack \/ FenceWrite
    BY <2>2 DEF RingInitWritePtr, RingInitReadPtr, RingWriteBack, FenceWrite,
       TypeOK, Header
  <2>3. CASE RingStartPoll \/ RingFetch \/ RingDispatch \/ EngineDone \/ CoreReset
    BY <2>3 DEF RingStartPoll, RingFetch, RingDispatch, EngineDone, CoreReset
  <2> QED BY <2>1, <2>2, <2>3 DEF Next, RingStep
<1>4. (Using /\ submitted > 0 /\ SessionOk /\ Reached(header.count, Last) =>
         LastCommand \in finished)'
  <2> SUFFICES ASSUME Using, submitted > 0, SessionOk',
                      Reached(header'.count, Last)
               PROVE  LastCommand \in finished
    BY <1>1, <1>2
  <2>1. CASE SessionOwned
    <3>1. Counts
      BY <2>1 DEF CountInv, Held, Using
    <3> QED BY <1>3, <3>1, CountsDone
  <2>2. CASE ~SessionOwned
    <3>1. SessionOk
      BY <2>2, SessionStep
    <3>2. ~FenceWrite
      BY <2>2, <3>1 DEF HandshakeInv, RequestInv, Held, Using, Live, ResponseStale,
         FenceWrite, ControlWrites
    <3> QED BY <1>3, <3>1, <3>2 DEF ReportInv
  <2> QED BY <2>1, <2>2
<1>5. ASSUME host_pc = "response", ~session_active, header.response = Closed
      PROVE  ~session_active' /\ header'.response = Closed
  <2>1. ~Claiming
    BY <1>5 DEF ClaimInv, Live, Held, Claiming, Claimed
  <2>2. ~session_active'
    BY <1>1, <1>5, <2>1, SessionStep DEF RequestInv, Held, SessionOwned
  <2>3. header'.response = Closed
    <3>1. CASE RingStep \/ EngineDone \/ FenceWrite
      BY <1>5, <3>1, RingHeader DEF handshake
    <3>2. CASE ControlInit \/ ControlAnswer
      BY <1>5, <3>2 DEF ControlInit, ControlAnswer, ControlWrite, TypeOK, Header,
         HandshakeInv, ControlInv
    <3>3. CASE ControlReadSequence \/ ControlReadTokenLo \/ ControlReadTokenHi
               \/ ControlStartPoll \/ CoreReset \/ UNCHANGED vars
      BY <1>5, <3>3 DEF ControlReadSequence, ControlReadTokenLo,
         ControlReadTokenHi, ControlStartPoll, CoreReset
    <3> QED BY <3>1, <3>2, <3>3 DEF Next, ControlStep
  <2> QED BY <2>2, <2>3
<1> QED BY <1>1, <1>2, <1>4, <1>5 DEF ReportInv

-----------------------------------------------------------------------------
(* The theorems.                                                           *)

\* The inductive invariant of the device: a reset does not fall between the
\* check of a submission and its stores.
THEOREM DeviceCorrect ==
    ASSUME RacingStores = FALSE
    PROVE  Spec => [](TypeOK /\ CallInv /\ HandshakeInv /\ DeviceInv)
<1>1. Init => DeviceInv
  <2> SUFFICES ASSUME Init PROVE DeviceInv
    OBVIOUS
  <2>1. RingInv /\ ClaimInv
    BY ConstantType DEF Init, RingInv, Quiet, RingInitialized, DeviceInitialized,
       ClaimInv, HeaderZero, Claiming, Claimed, Before, Held, Live, SessionOwned,
       SessionOk, OwnResponse
  <2>2. ContentInv
    BY DEF Init, ContentInv, EngineInv, SlotsInv, ExecutedInv
  <2>3. CountInv /\ ReportInv
    BY DEF Init, CountInv, ReportInv, Using, SessionOwned
  <2> QED BY <2>1, <2>2, <2>3 DEF DeviceInv
<1>2. TypeOK /\ CallInv /\ HandshakeInv /\ DeviceInv
        /\ (TypeOK /\ CallInv /\ HandshakeInv)' /\ [Next]_vars => DeviceInv'
  <2> SUFFICES ASSUME TypeOK, CallInv, HandshakeInv, DeviceInv, TypeOK',
                      HandshakeInv', [Next]_vars
               PROVE  DeviceInv'
    OBVIOUS
  <2> USE DEF DeviceInv
  <2>1. RingInv'
    BY RingStepInv
  <2>2. ContentInv'
    BY ContentStep
  <2>3. CountInv'
    BY CountStep
  <2>4. ClaimInv'
    BY ClaimStep
  <2>5. RequestInv'
    BY DEF HandshakeInv
  <2>6. ReportInv'
    BY <2>5, ReportPush, ReportHost, ReportCore
  <2> QED BY <2>1, <2>2, <2>3, <2>4, <2>6
<1> QED BY <1>1, <1>2, HandshakeCorrect, PTL DEF Spec

\* The core runs only commands of the handle that holds the session.
THEOREM OwnCommandsRun == ASSUME RacingStores = FALSE
                          PROVE  Spec => []RunsOwnCommands
<1>1. DeviceInv => RunsOwnCommands
  BY DEF DeviceInv, ContentInv, EngineInv, RunsOwnCommands
<1> QED BY <1>1, DeviceCorrect, PTL

\* It runs each of them once, over any number of wraps of the ring.
THEOREM CommandsRunOnce == ASSUME RacingStores = FALSE PROVE Spec => RunsOnce
<1>1. TypeOK /\ HandshakeInv /\ DeviceInv /\ [Next]_vars =>
        [engine' # engine /\ engine' # NoCommand => engine' \notin executed]_vars
  <2> SUFFICES ASSUME TypeOK, HandshakeInv, DeviceInv, [Next]_vars,
                      engine' # engine, engine' # NoCommand
               PROVE  engine' \notin executed
    OBVIOUS
  <2>1. RingDispatch
    BY HostCore, ControlFrame DEF Next, RingStep, RingInitWritePtr,
       RingInitReadPtr, RingStartPoll, RingFetch, RingWriteBack, EngineDone,
       FenceWrite, CoreReset
  <2>2. /\ engine' \in Command /\ engine'.handle = session_lo
        /\ \A c \in executed : c.handle = session_lo => c.n < engine'.n
    BY <2>1, SlotsDispatch DEF DeviceInv
  <2>3. engine'.n \in Nat
    BY <2>2 DEF Command
  <2> QED BY <2>2, <2>3
<1> QED BY <1>1, DeviceCorrect, PTL DEF Spec, RunsOnce

\* What a poll reports complete has finished on the core, whatever counts and
\* answers of earlier cores are left in DRAM.
THEOREM ReportsSound == ASSUME RacingStores = FALSE
                        PROVE  Spec => []ReportedIsFinished
<1>1. DeviceInv => ReportedIsFinished
  BY DEF DeviceInv, ReportInv, ReportedIsFinished
<1> QED BY <1>1, DeviceCorrect, PTL

\* While the session is held, the host's last fence is the core's count plus
\* what is in flight.
THEOREM CountsSound == ASSUME RacingStores = FALSE PROVE Spec => []CountsAgree
<1>1. TypeOK /\ DeviceInv => CountsAgree
  <2> SUFFICES ASSUME TypeOK, DeviceInv, Open, SessionOwned
               PROVE  (done_count + InFlight - Last) % FenceMod = 0
    BY DEF CountsAgree
  <2>1. Dist(FenceMod, done_count, Last) = InFlight
    BY DEF DeviceInv, CountInv, Counts, Open, Held
  <2>2. Dist(FenceMod, done_count, Last)
          = IF Last >= done_count THEN Last - done_count
                                  ELSE Last - done_count + FenceMod
    BY WordTypes, DistValue
  <2>3. done_count + InFlight - Last \in {0, FenceMod}
    BY <2>1, <2>2, WordTypes
  <2> QED BY <2>3, WordTypes
<1> QED BY <1>1, DeviceCorrect, PTL
=============================================================================
