---------------------------- MODULE FileTransfer ----------------------------
(***************************************************************************)
(* What the injection of a file promises: its bytes arrive in order and    *)
(* once each, in pieces of at most PartLen, until all are there or a piece *)
(* is lost; after a loss nothing is promised of what the receiver has.     *)
(* Either way the call returns, and without a loss only when the whole     *)
(* file is there.                                                          *)
(***************************************************************************)
EXTENDS Integers

CONSTANTS Lengths, PartLen

VARIABLES
  size,   \* size of the file, -1 before the call
  got,    \* the receiver holds exactly the first got bytes; -1 after a loss
  over    \* the call has returned

vars == <<size, got, over>>

Init == size = -1 /\ got = 0 /\ over = FALSE

Begin ==
  /\ size = -1
  /\ size' \in Lengths
  /\ UNCHANGED <<got, over>>

Take ==
  /\ size # -1 /\ got # -1
  /\ \E n \in 1 .. PartLen : got + n <= size /\ got' = got + n
  /\ UNCHANGED <<size, over>>

Lose ==
  /\ size # -1 /\ ~over
  /\ got' = -1
  /\ UNCHANGED <<size, over>>

Finish ==
  /\ size # -1 /\ ~over
  /\ got \in {size, -1}
  /\ over' = TRUE
  /\ UNCHANGED <<size, got>>

Next == Begin \/ Take \/ Lose \/ Finish

Spec == Init /\ [][Next]_vars

\* A transfer that has begun goes on until it is over.
FairSpec == Spec /\ WF_vars(Take \/ Finish)
=============================================================================
