---------------------------- MODULE MCHostMemory ----------------------------
(* Small arenas and pools on a fence that wraps within a run.               *)
EXTENDS HostMemory
=============================================================================
