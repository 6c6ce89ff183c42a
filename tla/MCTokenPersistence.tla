------------------------- MODULE MCTokenPersistence -------------------------
(***************************************************************************)
(* Small instances of TokenPersistence.                                    *)
(***************************************************************************)
EXTENDS TokenPersistence

=============================================================================
