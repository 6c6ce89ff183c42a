--------------------------- MODULE MCChatRequest ---------------------------
(* Small instances of ChatRequest for TLC. *)
EXTENDS ChatRequest, TLC
=============================================================================
