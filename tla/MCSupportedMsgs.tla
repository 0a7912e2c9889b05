-------------------------- MODULE MCSupportedMsgs --------------------------
(***************************************************************************)
(* A small instance of SupportedMsgs for TLC: bytes of two bits.           *)
(***************************************************************************)
EXTENDS SupportedMsgs

\* Every bit array of at most three bytes.
AllArrays == UNION {[1 .. n -> SUBSET {0, 1}] : n \in 0 .. 3}

\* As in LocApiV02::open: two messages with large ids, the one of batches
\* first.
GET_BATCH_SIZE == 5
GEOFENCE_BATCHED_BREACH == 4
TwoMessages == <<GET_BATCH_SIZE, GEOFENCE_BATCHED_BREACH>>
=============================================================================
