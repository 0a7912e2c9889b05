---------------------------- MODULE MCLocSyncReq ----------------------------
(***************************************************************************)
(* Small instances of LocSyncReq for TLC.                                  *)
(***************************************************************************)
EXTENDS LocSyncReqRefinement

CONSTANTS t1, t2, t3, c1, i1, i2

Call(i) == [client |-> c1, ind |-> i, buf |-> TRUE]

\* Every thread waits for the same indication, with a buffer.
SameCall == [t \in Threads |-> {Call(i1)}]

\* Concurrent calls wait for different indications.
OwnKind == [t \in Threads |-> {Call(IF t = t1 THEN i1 ELSE i2)}]

\* t1 waits for i1, the others for i1 or for i2, whose size is not known.
FewCalls == [t \in Threads |-> IF t = t1 THEN {Call(i1)} ELSE {Call(i1), Call(i2)}]
=============================================================================
