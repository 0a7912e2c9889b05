---------------------------- MODULE MCDialogues ----------------------------
(***************************************************************************)
(* A small instance of Dialogues for TLC.                                  *)
(***************************************************************************)
EXTENDS Dialogues, TLC

CONSTANTS b1, b2, b3

ThreeBlocks == {b1, b2, b3}
Symmetry == Permutations(ThreeBlocks)

AllButWifi ==
  {"POSITION_REPORT", "GNSS_SV_INFO", "NMEA", "NI_NOTIFY_VERIFY_REQ",
   "INJECT_TIME_REQ", "INJECT_PREDICTED_ORBITS_REQ", "INJECT_POSITION_REQ",
   "ENGINE_STATE", "FIX_SESSION_STATE", "LOCATION_SERVER_CONNECTION_REQ"}

\* One system, two that share an array, all three, other data, everything.
SomeFlags ==
  {{"ALMANAC"}, {"GLO_EPHEMERIS"}, {"EPHEMERIS", "GLO_ALMANAC", "GLO_EPHEMERIS"},
   {"EPHEMERIS", "BDS_ALMANAC"}, {"TIME", "SVDIR", "CELLDB_INFO"}, GPS_DELETE_ALL}

Sv(system, id) ==
  [system |-> system, gnssSvId |-> id, valid |-> {"SYSTEM", "GNSS_SVID", "SNR",
   "SVINFO_MASK", "PROCESS_STATUS"}, info |-> {"EPHEMERIS"}, svStatus |-> "TRACK"]

Svs ==
  {Sv("GPS", 1), Sv("SBAS", 120), Sv("GLONASS", 1), Sv("BDS", 201),
   Sv("GALILEO", 1), [Sv("GPS", 5) EXCEPT !.valid = {"SYSTEM", "SNR"}]}

\* No list, an empty one, pairs, and more satellites than fit.
SomeSvReports ==
  {[svList_valid |-> TRUE, svList |-> <<>>],
   [svList_valid |-> FALSE, svList |-> <<Sv("GPS", 1)>>],
   [svList_valid |-> TRUE,
    svList |-> <<Sv("GPS", 32), Sv("GPS", 0), Sv("BDS", 201), Sv("GPS", 2)>>]}
  \cup {[svList_valid |-> TRUE, svList |-> <<sv, other>>] : sv, other \in Svs}

Ni(id, valid, type) == [id |-> id, valid |-> valid, notificationType |-> type]

SomeNiRequests ==
  {Ni(1, {"Vx", "VxServiceInteraction"}, "NOTIFY_VERIFY_ALLOW_NO_RESP"),
   Ni(2, {"Supl", "Emergency"}, "NOTIFY_ONLY"),
   Ni(3, {"UmtsCp", "Supl"}, "NOTIFY_VERIFY_NOT_ALLOW_NO_RESP"),
   Ni(4, {"VxServiceInteraction"}, "NO_NOTIFY_NO_VERIFY")}
=============================================================================
