--------------------------- MODULE MCUsageBuffer ---------------------------
(***************************************************************************)
(* The instances of UsageBuffer: a buffer of two or three records, and so  *)
(* few records made that every way to overflow it occurs.                  *)
(***************************************************************************)
EXTENDS UsageBuffer
=============================================================================
