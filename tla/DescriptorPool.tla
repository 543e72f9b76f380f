--------------------------- MODULE DescriptorPool ---------------------------
(***************************************************************************)
(* The descriptor tables of sprite and fill batches (lib/noodles_link.c):  *)
(* a batch takes the next free table, uploads its descriptors and          *)
(* publishes a command that names the table; the table is free again when  *)
(* a poll reports that command's fence.  Applications may also upload a     *)
(* table and push the batch themselves.                                    *)
(***************************************************************************)
EXTENDS FencePolls

CONSTANT Tables     \* descriptor_table_count: 64, or 1 on older cores

ASSUME DescriptorPoolAssumption == Tables \in Nat \ {0}

Table == 0 .. Tables - 1

VARIABLES
    batch_pending,  \* tables whose bit is set
    batch_fence,    \* fence of each table's last batch
    next_table,     \* link->next_descriptor_table
    tried, table,   \* find_descriptor_table: candidates tried, table found
    content         \* which of two descriptor lists each table holds; every
                    \* upload changes it

pool == <<batch_pending, batch_fence, next_table, tried, table, content>>

PoolInit ==
    /\ batch_pending = {} /\ batch_fence = [t \in Table |-> 0]
    /\ next_table = 0 /\ tried = 0 /\ table = NoTable
    /\ content = [t \in Table |-> 0]

\* descriptor_available: free, or its batch polls complete.
Available(t) ==
    \/ t \notin batch_pending /\ UNCHANGED <<batch_pending, confirmed_done>>
    \/ /\ t \in batch_pending /\ PollComplete(batch_fence[t])
       /\ batch_pending' = batch_pending \ {t}

Busy(t) ==
    /\ t \in batch_pending /\ PollIncomplete(batch_fence[t])
    /\ UNCHANGED batch_pending

\* noodles_push_sprite_batch and push_fill_descriptors: ring space first.
BatchStart ==
    /\ host_pc = "idle" /\ CanSubmit
    /\ host_pc' = "find"
    /\ UNCHANGED <<link, pool>>

\* find_descriptor_table, candidate by candidate.
Candidate == (next_table + tried) % Tables

FindTaken ==
    /\ host_pc = "find" /\ tried < Tables
    /\ Available(Candidate)
    /\ host_pc' = "upload" /\ table' = Candidate /\ tried' = 0
    /\ UNCHANGED <<pending, submitted, last_fence, batch_fence, next_table,
                   content>>

FindBusy ==
    /\ host_pc = "find" /\ tried < Tables
    /\ Busy(Candidate)
    /\ tried' = tried + 1
    /\ UNCHANGED <<host_pc, pending, submitted, last_fence, batch_fence,
                   next_table, table, content>>

\* EAGAIN: every table is busy.
FindFails ==
    /\ host_pc = "find" /\ tried = Tables
    /\ host_pc' = "idle" /\ tried' = 0
    /\ UNCHANGED <<link, batch_pending, batch_fence, next_table, table,
                   content>>

\* noodles_link_upload of the descriptors.
Upload(t) == content' = [content EXCEPT ![t] = 1 - @]

BatchUpload ==
    /\ host_pc = "upload"
    /\ host_pc' = "push" /\ Upload(table)
    /\ UNCHANGED <<link, batch_pending, batch_fence, next_table, tried,
                   table>>

\* The mapping fails before the copy or the unmapping after it: the table was
\* not claimed.
BatchAbandoned ==
    /\ host_pc \in {"upload", "push"}
    /\ host_pc' = "idle" /\ table' = NoTable
    /\ UNCHANGED <<link, batch_pending, batch_fence, next_table, tried, content>>

\* Mutants: the table keeps the fence of the command before, or after, its
\* batch.
ClaimWithNextFence(t, free) ==
    /\ batch_pending' = free \cup {t}
    /\ next_table' = (t + 1) % Tables
    /\ batch_fence' = [batch_fence EXCEPT ![t] = (last_fence' + 1) % FenceMod]

ClaimWithOldFence(t, free) ==
    /\ batch_pending' = free \cup {t}
    /\ next_table' = (t + 1) % Tables
    /\ batch_fence' = [batch_fence EXCEPT ![t] = last_fence]

\* push_command of a batch: the table is claimed with the command's fence.
Claim(t, free) ==
    /\ batch_pending' = free \cup {t}
    /\ next_table' = (t + 1) % Tables
    /\ batch_fence' = [batch_fence EXCEPT ![t] = last_fence']

\* A batch that uses these surfaces and texture cells.
BatchPush(ids, cells) ==
    /\ host_pc = "push"
    /\ host_pc' = "idle" /\ table' = NoTable
    /\ Submit(Command(ids, table, content[table], cells))
    /\ Claim(table, batch_pending)
    /\ UNCHANGED <<tried, content>>

\* The application uploads a table by itself ...
RawUpload(t) ==
    /\ host_pc = "idle" /\ submitted < MaxCommands
    /\ Available(t) /\ Upload(t)
    /\ UNCHANGED <<host_pc, pending, submitted, last_fence, batch_fence,
                   next_table, tried, table>>

\* ... and pushes an opcode 5 or 10 that names it.
RawBatch(t) ==
    /\ host_pc = "idle" /\ CanSubmit
    /\ \/ t \notin batch_pending /\ UNCHANGED confirmed_done
       \/ t \in batch_pending /\ PollComplete(batch_fence[t])
    /\ Publish(Command({}, t, content[t], {}))
    /\ Claim(t, batch_pending)
    /\ UNCHANGED <<host_pc, tried, table, content>>

\* EAGAIN after the table was looked at: no ring space.  The read pointer that
\* the host sees lags, so the ring may look full when it is not.
RawBatchRefused(t) ==
    /\ host_pc = "idle" /\ t \in batch_pending
    /\ Available(t)
    /\ UNCHANGED <<host_pc, pending, submitted, last_fence, batch_fence,
                   next_table, tried, table, content>>

PoolCall == FindTaken \/ FindBusy \/ FindFails \/ BatchUpload \/ BatchAbandoned

PoolStep ==
    \/ PoolCall
    \/ \E t \in Table : RawUpload(t) \/ RawBatchRefused(t)
-----------------------------------------------------------------------------
\* A table keeps the descriptors its batch was published with until the batch
\* has finished, whoever looks for a table or uploads one meanwhile.
TableIntact ==
    \A i \in 1 .. Len(pending) :
        pending[i].table # NoTable =>
            content[pending[i].table] = pending[i].stamp

TablesYoung(age) ==
    \A t \in batch_pending : CountFrom(batch_fence[t], last_fence) < age

\* A batch that has finished is seen to have finished by whoever looks for a
\* table: no table stays taken because its fence is old.
FinishedBatchSeen ==
    \A t \in batch_pending :
        (\A i \in 1 .. Len(pending) : pending[i].table # t) =>
            Reached(confirmed_done, batch_fence[t]) \/
            Reached(Done, batch_fence[t])
=============================================================================
