------------------------------- MODULE Draws -------------------------------
(***************************************************************************)
(* Draws from the SDK's call to the fence: the calls of DrawCalls feed     *)
(* cmdq, which starts an engine or a batch (rtl/cmdq.sv, sprite_batch.sv,  *)
(* fill_batch.sv); the engines read DRAM ahead of their writes, which go   *)
(* through ddram_adapter's queue, as the fence does.  Reads pass the       *)
(* queued writes.                                                          *)
(***************************************************************************)
EXTENDS DrawEngines

CONSTANTS
    Requests,       \* what the application may ask for
    Memory,         \* the initial pixels, by address
    MaxCommands,    \* bound: commands submitted
    Ahead,          \* units an engine reads ahead (its FIFOs)
    QueueDepth      \* writes the adapter holds

ASSUME DrawsAssumption ==
    /\ MaxCommands \in Nat /\ Ahead \in Nat /\ QueueDepth \in Nat
    /\ \A r \in Requests : IsRequest(r)
    /\ Memory = [a \in Dram.first .. Dram.end - 1 |-> Memory[a]]

VARIABLES
    queue,      \* commands in the ring
    command,    \* the command cmdq runs, None when idle
    done_seen,  \* cmdq has seen its engine's done
    batch,      \* the batch sequencer: [state, index, word, prev_flagged]
    engine,     \* the running engine's job and progress, None when idle
    dram,
    writes,     \* writes accepted by the adapter, oldest first
    completed,  \* link_fence's done_count
    sent,       \* link_fence's published_count
    published,  \* the fence word in DRAM
    asked       \* history: per command, its region and the picture after it

vars == <<queue, command, done_seen, batch, engine, dram, writes, completed,
          sent, published, asked>>

None == [none |-> TRUE]
NoBatch == [state |-> "idle", index |-> 0, word |-> 0, prev_flagged |-> FALSE]

Submitted == Len(asked) - 1
Picture(n) == asked[n + 1].picture

\* The adapter's memory_idle.
MemoryIdle == writes = << >>

-----------------------------------------------------------------------------
Init ==
    /\ queue = << >> /\ command = None /\ done_seen = FALSE
    /\ batch = NoBatch /\ engine = None
    /\ dram = Memory /\ writes = << >>
    /\ completed = 0 /\ sent = 0 /\ published = 0
    /\ asked = <<[region |-> {}, picture |-> Memory]>>

\* A call that submits its command.
Submit(r) ==
    /\ Submitted < MaxCommands
    /\ Pushes(r)
    /\ queue' = Append(queue, Pushed(r))
    /\ asked' = Append(asked, [region |-> Region(Pushed(r)),
                               picture |-> Requested(Picture(Submitted), r)])
    /\ UNCHANGED <<command, done_seen, batch, engine, dram, writes, completed,
                   sent, published>>

\* A call that succeeds without a command: its request is done already.
SubmitNothing(r) ==
    /\ NothingToDraw(r)
    /\ asked' = [asked EXCEPT ![Submitted + 1].picture = Requested(@, r)]
    /\ UNCHANGED <<queue, command, done_seen, batch, engine, dram, writes,
                   completed, sent, published>>

Start(j) == [job |-> j, work |-> Work(j), pixels |-> << >>, words |-> << >>,
             fast |-> FastAlpha(j), retired |-> 0]

\* cmdq in IDLE.
Accept ==
    /\ command = None /\ queue # << >> /\ engine = None
    /\ command' = Head(queue) /\ queue' = Tail(queue)
    /\ IF command'.op \in BatchOps
       THEN /\ batch' = [NoBatch EXCEPT !.state = "fetch", !.index = 1]
            /\ UNCHANGED engine
       ELSE /\ engine' = Start(Job(command'.op, command'.items[1]))
            /\ UNCHANGED batch
    /\ UNCHANGED <<done_seen, dram, writes, completed, sent, published, asked>>

\* cmdq in WAIT_DONE.
Retire ==
    /\ command # None /\ done_seen /\ MemoryIdle
    /\ command' = None /\ done_seen' = FALSE
    /\ UNCHANGED <<queue, batch, engine, dram, writes, completed, sent,
                   published, asked>>

-----------------------------------------------------------------------------
(* The adapter's writes.                                                   *)

\* The oldest write leaves.
WriteLeaves ==
    /\ LET at == Head(writes).at IN
       dram' = [a \in DOMAIN dram \cup DOMAIN at |->
                    IF a \in DOMAIN at THEN at[a] ELSE dram[a]]
    /\ published' = IF Head(writes).fence > 0 THEN Head(writes).fence ELSE published
    /\ writes' = Tail(writes)

DrainWrite ==
    /\ ~MemoryIdle /\ WriteLeaves
    /\ UNCHANGED <<queue, command, done_seen, batch, engine, completed, sent, asked>>

-----------------------------------------------------------------------------
(* The batch sequencers.                                                   *)

Item == command.items[batch.index]

DescriptorWords == IF command.op = "SPRITE_BATCH" THEN 8 ELSE 5

\* DESC_REQ, DESC_WAIT.  The words are read one at a time, and a write the
\* adapter holds leaves behind each read, before the next can.
FetchWord ==
    /\ batch.state = "fetch"
    /\ batch' = IF batch.word + 1 < DescriptorWords
                THEN [batch EXCEPT !.word = @ + 1]
                ELSE [batch EXCEPT !.state = "launch", !.word = 0]
    /\ IF MemoryIdle THEN UNCHANGED <<dram, writes, published>> ELSE WriteLeaves
    /\ UNCHANGED <<queue, command, done_seen, engine, completed, sent, asked>>

\* Mutant: what follows a flagged draw does not wait for it.
NeedsDrainFlagged == command.op = "SPRITE_BATCH" /\ Flagged(Item)

NeedsDrain == command.op = "SPRITE_BATCH" /\ (Flagged(Item) \/ batch.prev_flagged)

\* LAUNCH.
Launch ==
    /\ batch.state = "launch"
    /\ IF NeedsDrain
       THEN batch' = [batch EXCEPT !.state = "drain"] /\ UNCHANGED engine
       ELSE /\ batch' = [batch EXCEPT !.state = "run"]
            /\ engine' = Start(Job(command.op, Item))
    /\ UNCHANGED <<queue, command, done_seen, dram, writes, completed, sent,
                   published, asked>>

\* DRAIN.
Drained ==
    /\ batch.state = "drain" /\ MemoryIdle
    /\ batch' = [batch EXCEPT !.state = "run", !.prev_flagged = Flagged(Item)]
    /\ engine' = Start(Job(command.op, Item))
    /\ UNCHANGED <<queue, command, done_seen, dram, writes, completed, sent,
                   published, asked>>

\* FINISH: done of the batch.
FinishBatch ==
    /\ batch.state = "finish"
    /\ batch' = NoBatch
    /\ done_seen' = TRUE
    /\ completed' = completed + 1
    /\ UNCHANGED <<queue, command, engine, dram, writes, sent, published, asked>>

-----------------------------------------------------------------------------
(* The engines.                                                            *)

Working == engine # None
Unit == engine.work[1]

\* Units retire from the front of work; fetched ones stay until they do.
Advance(e) ==
    [e EXCEPT !.work = Tail(@), !.retired = @ + 1,
              !.pixels = IF @ = << >> THEN @ ELSE Tail(@),
              !.words = IF @ = << >> THEN @ ELSE Tail(@)]

Reads == engine.job.kind # "fill" /\ ~engine.job.solid
ReadsDestination == engine.job.kind = "blend"

\* A source read, in the order of the walk.
FetchSource ==
    /\ Working /\ Reads
    /\ Len(engine.pixels) < Ahead /\ Len(engine.pixels) < Len(engine.work)
    /\ LET unit == engine.work[Len(engine.pixels) + 1] IN
       engine' = [engine EXCEPT !.pixels =
                    Append(@, [l \in DOMAIN unit |-> dram[unit[l].from]])]
    /\ UNCHANGED <<queue, command, done_seen, batch, dram, writes, completed,
                   sent, published, asked>>

WordOf(a) == LET low == a - (a % 2) IN [i \in {low, low + 1} |-> dram[i]]

\* A destination read.
FetchDestination ==
    /\ Working /\ ReadsDestination /\ ~engine.fast
    /\ Len(engine.words) < Ahead /\ Len(engine.words) < Len(engine.work)
    /\ engine' = [engine EXCEPT !.words =
                    Append(@, WordOf(engine.work[Len(engine.words) + 1][1].to))]
    /\ UNCHANGED <<queue, command, done_seen, batch, dram, writes, completed,
                   sent, published, asked>>

\* The unit's source pixels.
Sources == IF engine.job.solid
           THEN [l \in DOMAIN Unit |-> engine.job.word.colour]
           ELSE engine.pixels[1]

SourceReady == engine.job.solid \/ engine.pixels # << >>

Lanes == {l \in DOMAIN Unit : ~Keyed(engine.job, Sources[l])}

PixelWrite(f) == [at |-> f, fence |-> 0]

\* One write of the values of some lanes.
Written(values) ==
    PixelWrite([a \in {Unit[l].to : l \in DOMAIN values} |->
                    values[CHOOSE l \in DOMAIN values : Unit[l].to = a]])

Store64 == Written(Sources)

\* blit_copy64 and the copies: a pair to an aligned word, or one by one.
CopyWrites ==
    IF Len(Unit) = 2 /\ Lanes = {1, 2} /\ Unit[1].to % 2 = 0 THEN <<Store64>>
    ELSE LET single(l) == IF l \in Lanes THEN <<Written([k \in {l} |-> Sources[k]])>>
                          ELSE << >>
         IN  IF Len(Unit) = 1 THEN single(1) ELSE single(1) \o single(2)

Blended(l) == Combine(engine.job, Sources[l], engine.words[1][Unit[l].to])

\* blit_blend: nothing when the word is unchanged, else the drawn lanes.
BlendWrites ==
    IF \A l \in Lanes : Blended(l) = engine.words[1][Unit[l].to] THEN << >>
    ELSE <<Written([l \in Lanes |-> Blended(l)])>>

UnitWrites ==
    CASE engine.job.kind = "fill" -> <<Store64>>
      [] engine.job.kind \in {"copy", "copy64"} -> CopyWrites
      [] engine.job.kind = "blend" -> BlendWrites

\* Retires a unit: its writes enter the adapter's queue in order.
Emit ==
    /\ Working /\ engine.work # << >> /\ SourceReady
    /\ ReadsDestination => engine.words # << >>
    /\ Len(writes) + Len(UnitWrites) <= QueueDepth
    /\ writes' = writes \o UnitWrites
    /\ engine' = Advance(engine)
    /\ UNCHANGED <<queue, command, done_seen, batch, dram, completed, sent,
                   published, asked>>

AllAlpha(class) == \A l \in DOMAIN Unit : Sources[l].alpha = class

\* Binary alpha: transparent units are dropped, opaque ones stored unread.
EmitFast ==
    /\ Working /\ engine.fast /\ engine.work # << >> /\ SourceReady
    /\ \/ AllAlpha("zero") /\ UNCHANGED writes
       \/ /\ AllAlpha("opaque") /\ Len(writes) < QueueDepth
          /\ writes' = Append(writes, Store64)
    /\ engine' = Advance(engine)
    /\ UNCHANGED <<queue, command, done_seen, batch, dram, completed, sent,
                   published, asked>>

\* The first other unit reads its destination, and so do all after it.
LeaveFast ==
    /\ Working /\ engine.fast /\ engine.work # << >> /\ SourceReady
    /\ ~AllAlpha("zero") /\ ~AllAlpha("opaque")
    /\ engine' = [engine EXCEPT !.fast = FALSE, !.words = <<WordOf(Unit[1].to)>>]
    /\ UNCHANGED <<queue, command, done_seen, batch, dram, writes, completed,
                   sent, published, asked>>

\* Mutant: the fills of a batch count too.
CountsFills(kind) ==
    \/ kind \in {"fill", "copy"}
    \/ kind = "blend" /\ batch.state = "idle"

\* Noodles.sv: which engines' done counts as a command's.
CountsAsCommand(kind) ==
    \/ kind = "fill" /\ command.op # "FILL_BATCH"
    \/ kind = "copy"
    \/ kind = "blend" /\ batch.state = "idle"

\* An engine is done when its units are retired, their writes only accepted.
EngineDone ==
    /\ Working
    /\ engine.retired = Total(engine.job)
    /\ engine' = None
    /\ completed' = completed + (IF CountsAsCommand(engine.job.kind) THEN 1 ELSE 0)
    /\ IF batch.state = "idle"
       THEN done_seen' = TRUE /\ UNCHANGED batch
       ELSE /\ batch' = IF batch.index < Len(command.items)
                        THEN [batch EXCEPT !.state = "fetch", !.index = @ + 1]
                        ELSE [batch EXCEPT !.state = "finish"]
            /\ UNCHANGED done_seen
    /\ UNCHANGED <<queue, command, dram, writes, sent, published, asked>>

-----------------------------------------------------------------------------
(* link_fence.                                                              *)

\* The fence is a write like any other, behind the writes it vouches for.
PublishFence ==
    /\ sent # completed
    /\ Len(writes) < QueueDepth
    /\ writes' = Append(writes, [at |-> << >>, fence |-> completed])
    /\ sent' = completed
    /\ UNCHANGED <<queue, command, done_seen, batch, engine, dram, completed,
                   published, asked>>

Host == \E r \in Requests : Submit(r) \/ SubmitNothing(r)

Core ==
    \/ Accept \/ Retire
    \/ FetchWord \/ Launch \/ Drained \/ FinishBatch
    \/ FetchSource \/ FetchDestination
    \/ Emit \/ EmitFast \/ LeaveFast \/ EngineDone
    \/ DrainWrite \/ PublishFence

Next == Host \/ Core

Spec == Init /\ [][Next]_vars
FairSpec == Spec /\ WF_vars(Core)

-----------------------------------------------------------------------------
\* The counters are ordered and the queue within the adapter's depth.
TypeOK ==
    /\ 0 <= published /\ published <= sent /\ sent <= completed
    /\ completed <= Submitted /\ Submitted <= MaxCommands
    /\ Len(writes) <= QueueDepth
    /\ DOMAIN dram = DOMAIN Memory
    /\ batch.state \in {"idle", "fetch", "launch", "drain", "run", "finish"}
    /\ command = None => engine = None /\ batch = NoBatch

\* What the fence reports finished is in DRAM, exactly as it was asked for,
\* except where a later command may be drawing already: clipping, mirroring,
\* lanes, keys and read-ahead show in no finished picture
\* (lib/noodles_surface.c, rtl/sprite_batch.sv, rtl/cmdq.sv, Noodles.sv:337).
FinishedAsRequested ==
    \A a \in DOMAIN Memory :
        (\A n \in published + 2 .. Len(asked) : a \notin asked[n].region)
            => dram[a] = Picture(published)[a]

\* A batch's descriptors see the writes of those before them
\* (docs/INTEGRATION.md:144).
DescriptorsInOrder == published = Submitted => dram = Picture(Submitted)

\* Every command submitted is reported finished: no engine waits for a pixel
\* it does not walk, no batch or command for a done that does not come
\* (rtl/blit_copy64.sv, rtl/sprite_batch.sv, rtl/cmdq.sv).
EveryDrawFinishes ==
    \A n \in 1 .. MaxCommands : Submitted >= n ~> published >= n
=============================================================================
