------------------------ MODULE LocSyncReqRefinement ------------------------
(***************************************************************************)
(* loc_api_sync_req.c implements SyncCall, as long as the pool has a slot  *)
(* for every caller and no wakeup is spurious.                             *)
(***************************************************************************)
EXTENDS LocSyncReq

\* A call is open until loc_sync_send_req returns.
PhaseOf(t) == CASE pc[t] = "idle" -> "idle"
                [] pc[t] = "returned" -> "done"
                [] OTHER -> "open"

Phase == [t \in Threads |-> PhaseOf(t)]

\* The buffer of a call is a part of its frame; between two calls there is none.
Buffer == [t \in Threads |-> IF pc[t] = "idle" THEN NULL ELSE mem[Frame(t)]]

Outcome == [t \in Threads |-> IF pc[t] = "returned" THEN status[t] ELSE NULL]

\* The indication loc_sync_process_ind has in hand is in flight until it has
\* been copied or the loop has ended.
Undelivered == IF scan.consumed THEN {} ELSE {scan.ind} \ {NULL}

InFlight == asked \cup Undelivered

Promise == INSTANCE SyncCall WITH
  phase    <- Phase,
  request  <- req,
  buffer   <- Buffer,
  outcome  <- Outcome,
  inFlight <- InFlight

\* Whatever the slots, locks and signals do, a caller sees one call that opens,
\* asks, has its buffer filled with an answer of the right kind or not, and
\* returns success only with the buffer filled.
ImplementsSyncCall == Promise!Spec

\* ... and every call returns though the service may be silent.
ImplementsFairSyncCall == Promise!FairSpec
=============================================================================
