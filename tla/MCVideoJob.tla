----------------------------- MODULE MCVideoJob -----------------------------
(***************************************************************************)
(* The instances of VideoJob need no definitions: one job with two cancel  *)
(* requests for the races, two jobs where the cancels map matters.         *)
(***************************************************************************)
EXTENDS VideoJob
=============================================================================
