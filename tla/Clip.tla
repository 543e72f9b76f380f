-------------------------------- MODULE Clip --------------------------------
(***************************************************************************)
(* Clipping of draws and fills against surface edges                       *)
(* (lib/noodles_surface.c: clip_axis, clip_bounds).  An axis is an offset  *)
(* in the source, an offset in the destination and a length; mirrored, the *)
(* destination shows the source backwards.                                 *)
(***************************************************************************)
EXTENDS Integers

Axis == [s : Int, d : Int, length : Int]

SourceLow(a, mirrored) ==
    IF a.s >= 0 THEN a
    ELSE [s |-> 0, length |-> a.length + a.s,
          d |-> IF mirrored THEN a.d ELSE a.d - a.s]

SourceHigh(a, limit, mirrored) ==
    LET cut == a.s + a.length - limit IN
    IF cut <= 0 THEN a
    ELSE [s |-> a.s, length |-> a.length - cut,
          d |-> IF mirrored THEN a.d + cut ELSE a.d]

DestinationLow(a, mirrored) ==
    IF a.d >= 0 THEN a
    ELSE [d |-> 0, length |-> a.length + a.d,
          s |-> IF mirrored THEN a.s ELSE a.s - a.d]

DestinationHigh(a, limit, mirrored) ==
    LET cut == a.d + a.length - limit IN
    IF cut <= 0 THEN a
    ELSE [d |-> a.d, length |-> a.length - cut,
          s |-> IF mirrored THEN a.s + cut ELSE a.s]

\* clip_axis: each of the four sides in turn.
ClipAxis(a, source_limit, destination_limit, mirrored) ==
    DestinationHigh(
        DestinationLow(
            SourceHigh(SourceLow(a, mirrored), source_limit, mirrored),
            mirrored),
        destination_limit, mirrored)

\* Destination offset q shows source offset p.
Shows(a, mirrored, p, q) ==
    /\ 0 <= p - a.s /\ p - a.s < a.length
    /\ q - a.d = IF mirrored THEN a.length - 1 - (p - a.s) ELSE p - a.s

\* clip_bounds on one axis: the offset and length left of a fill.
ClipSpan(offset, length, limit) ==
    LET start == IF offset < 0 THEN 0 ELSE offset
        end == IF offset + length > limit THEN limit ELSE offset + length
    IN  [d |-> start, length |-> end - start]
=============================================================================
