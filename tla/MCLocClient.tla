---------------------------- MODULE MCLocClient ----------------------------
(***************************************************************************)
(* A small instance of LocClient for TLC.                                  *)
(***************************************************************************)
EXTENDS LocClient

CONSTANTS b1, b2, none

TwoBlocks == {b1, b2}
=============================================================================
