--------------------------- MODULE MCCommandRing ---------------------------
(* A two-slot ring of two-word slots, a fence of modulus 8 that wraps    *)
(* within the run, and one bound on the commands of a behaviour.            *)
EXTENDS CommandRing

\* Two completions from the wrap of the fence.
MCBaselines == {FenceMod - 2}
=============================================================================
