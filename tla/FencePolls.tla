----------------------------- MODULE FencePolls -----------------------------
(***************************************************************************)
(* What the SDK's own users of the fence see of the transport: the         *)
(* descriptor tables and the surfaces keep tokens and poll them            *)
(* (lib/noodles_link.c, noodles_link_poll).  Below is CommandRing's proved  *)
(* behaviour: published commands finish in order, one by one, and a poll   *)
(* compares a cached confirmed count, then the published count, with the   *)
(* token, modulo the fence range.                                          *)
(*                                                                         *)
(* A challenge may or may not have been answered when a poll looks, so a   *)
(* poll of a raw completion succeeds or not.  A fence word that lags is a  *)
(* command that finishes a little later.  A handle that is faulted, by a   *)
(* deadline or a lost session, does nothing more: it stops anywhere.       *)
(***************************************************************************)
EXTENDS Integers, Sequences

CONSTANTS
    HalfRange,      \* half of the fence modulus
    MaxUnconfirmed, \* submissions between confirmations (see CommandRing)
    RingCapacity,   \* commands that may be published and not finished
    MaxCommands,    \* bound on the submissions of a behaviour
    Baseline        \* the count the session was opened at

FenceMod == 2 * HalfRange
Fence == 0 .. FenceMod - 1

ASSUME FencePollsAssumption ==
    /\ HalfRange \in Nat \ {0}
    /\ MaxUnconfirmed \in Nat /\ MaxUnconfirmed <= HalfRange
    /\ RingCapacity \in Nat \ {0}
    /\ MaxCommands \in Nat /\ Baseline \in Fence

VARIABLES
    host_pc,        \* what the (single-threaded) SDK is doing
    pending,        \* published commands that have not finished, oldest first
    submitted,      \* commands published
    last_fence,     \* token of the newest
    confirmed_done  \* link->confirmed_done

link == <<pending, submitted, last_fence, confirmed_done>>

LinkInit ==
    /\ host_pc = "idle" /\ pending = <<>> /\ submitted = 0
    /\ last_fence = Baseline /\ confirmed_done = Baseline

\* Count of b seen from a.
CountFrom(a, b) == IF b >= a THEN b - a ELSE b - a + FenceMod
Reached(count, target) == CountFrom(target, count) < HalfRange

\* The published completion count.
Done == IF last_fence >= Len(pending) THEN last_fence - Len(pending)
                                      ELSE last_fence - Len(pending) + FenceMod

\* noodles_link_poll reports complete ...
PollComplete(target) ==
    /\ Reached(confirmed_done, target) \/ Reached(Done, target)
    /\ confirmed_done' = IF Reached(confirmed_done, target)
                           THEN confirmed_done ELSE Done

\* ... or incomplete.
PollIncomplete(target) ==
    /\ ~Reached(confirmed_done, target)
    /\ UNCHANGED confirmed_done

\* noodles_link_poll sends and checks its challenge: the application polls a
\* token of its own that is complete.
HostConfirm ==
    /\ host_pc = "idle" /\ confirmed_done # Done
    /\ confirmed_done' = Done
    /\ UNCHANGED <<host_pc, pending, submitted, last_fence>>

CanSubmit ==
    /\ submitted < MaxCommands /\ Len(pending) < RingCapacity
    /\ CountFrom(confirmed_done, last_fence) < MaxUnconfirmed

\* A command of the SDK: the surfaces it reads or writes, a batch's table and
\* what was uploaded into it, and the texture cells it reads.
NoTable == -1
Command(ids, table, stamp, cells) ==
    [surfaces |-> ids, table |-> table, stamp |-> stamp, cells |-> cells]

\* publish_command.
Publish(command) ==
    /\ CanSubmit
    /\ pending' = Append(pending, command)
    /\ submitted' = submitted + 1
    /\ last_fence' = IF last_fence = FenceMod - 1 THEN 0 ELSE last_fence + 1

Submit(command) == Publish(command) /\ UNCHANGED confirmed_done

\* The core finishes the oldest command.
Finish ==
    /\ pending # <<>>
    /\ pending' = Tail(pending)
    /\ UNCHANGED <<host_pc, submitted, last_fence, confirmed_done>>
=============================================================================
