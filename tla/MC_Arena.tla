------------------------------ MODULE MC_Arena ------------------------------
(***************************************************************************)
(* Arena with chunks of 48 bytes at addresses where they touch each other. *)
(***************************************************************************)
EXTENDS Arena, FiniteSets

CONSTANT MaxBlocks

MCBases == {16, 64, 112}
MCBound == Cardinality(blocks) <= MaxBlocks /\ Cardinality(chunks) <= 3
=============================================================================
