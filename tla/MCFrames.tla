------------------------------ MODULE MCFrames ------------------------------
(***************************************************************************)
(* Frames on a small memory map: two usable regions with a hole between    *)
(* them, the first too short for the bitmap, the second ending in a        *)
(* partial frame.                                                          *)
(***************************************************************************)
EXTENDS Frames

\* Lengths in half frames: frame 1, a hole, frames 3-9 and a half.
TwoRegions == <<<<2, 2>>, <<6, 15>>>>
=============================================================================
