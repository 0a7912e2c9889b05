-------------------------- MODULE MCXtraInjection --------------------------
(***************************************************************************)
(* Small instances of XtraInjection and its refinement for TLC.  Parts of  *)
(* four bytes and counters of three and four bits stand for parts of 1024  *)
(* bytes and counters of 8 and 16 bits.                                    *)
(***************************************************************************)
EXTENDS XtraInjectionRefinement

\* Files that fit the counters, and larger than 2^4 bytes, in at most 6 parts.
Files == {0, 1, 4, 5, 9, 12, 15, 16, 17, 20, 24}
=============================================================================
