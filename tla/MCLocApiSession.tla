-------------------------- MODULE MCLocApiSession --------------------------
(***************************************************************************)
(* Small instances of LocApiSession for TLC.                               *)
(***************************************************************************)
EXTENDS LocApiSession

\* One user tracks, one answers requests of the network, and a third wants
\* NMEA and a bit this adapter must not serve.
ThreeUsers == {{"PARSED_POSITION_REPORT", "STATUS_REPORT"},
               {"NI_NOTIFY_VERIFY_REQUEST"},
               {"NMEA_1HZ_REPORT", "BATCH_FULL"}}

TwoUsers == {{"PARSED_POSITION_REPORT", "STATUS_REPORT"},
             {"NI_NOTIFY_VERIFY_REQUEST", "BATCH_FULL"}}

OneUser == {{"PARSED_POSITION_REPORT", "STATUS_REPORT"}}

Excluded == {"BATCH_FULL"}
=============================================================================
