---------------------------- MODULE CommandQueue ----------------------------
(***************************************************************************)
(* What the transport promises an application, without rings, pointers or  *)
(* modular counts: commands run one at a time, each exactly once, in the   *)
(* order they were submitted, and a command is reported complete only      *)
(* after it has finished.                                                  *)
(***************************************************************************)
EXTENDS Integers

CONSTANT Capacity   \* commands that may be submitted and not yet started

VARIABLES
    submitted,  \* commands submitted
    running,    \* number of the command that is running, 0 for none
    completed,  \* commands finished
    observed    \* newest command reported complete

vars == <<submitted, running, completed, observed>>

Init == submitted = 0 /\ running = 0 /\ completed = 0 /\ observed = 0

Submit ==
    /\ submitted - completed - (IF running = 0 THEN 0 ELSE 1) < Capacity
    /\ submitted' = submitted + 1
    /\ UNCHANGED <<running, completed, observed>>

Start ==
    /\ running = 0 /\ completed < submitted
    /\ running' = completed + 1
    /\ UNCHANGED <<submitted, completed, observed>>

Finish ==
    /\ running # 0
    /\ running' = 0 /\ completed' = running
    /\ UNCHANGED <<submitted, observed>>

Observe ==
    /\ \E n \in observed + 1 .. completed : observed' = n
    /\ UNCHANGED <<submitted, running, completed>>

Next == Submit \/ Start \/ Finish \/ Observe

Spec == Init /\ [][Next]_vars
=============================================================================
