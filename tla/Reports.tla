------------------------------ MODULE Reports ------------------------------
(***************************************************************************)
(* What LocApiV02 tells the adapters about an event of the location        *)
(* service: eventCb and the report functions it calls.  The result is the  *)
(* sequence of calls into LocApiBase.  Measured values are left out, but   *)
(* not which of them are valid; a request to the user is the subject of    *)
(* reportNiRequest in module Dialogues.                                    *)
(***************************************************************************)
EXTENDS Integers, Sequences, SequencesExt

CONSTANT GPS_MAX_SVS   \* satellites in a report to the adapters

ASSUME ReportsAssumption == GPS_MAX_SVS \in Nat

Report(kind, what) == <<[kind |-> kind, what |-> what]>>

-----------------------------------------------------------------------------
(* reportPosition *)

\* Fields of a position that set a flag of the report when they are valid.
FlagOfField ==
  [altitudeWrtEllipsoid    |-> "HAS_ALTITUDE",
   speedHorizontal         |-> "HAS_SPEED",
   heading                 |-> "HAS_BEARING",
   horUncCircular          |-> "HAS_ACCURACY",
   magneticDeviation       |-> "EXTENDED_HAS_MAG_DEV",
   DOP                     |-> "EXTENDED_HAS_DOP",
   altitudeWrtMeanSeaLevel |-> "EXTENDED_HAS_ALTITUDE_MEAN_SEA_LEVEL",
   vertUnc                 |-> "EXTENDED_HAS_VERT_UNC",
   speedUnc                |-> "EXTENDED_HAS_SPEED_UNC"]

\* A position at latitude and longitude 0 counts as none, and is not reported.
reportPosition(p) ==
  IF p.sessionStatus \notin {"SUCCESS", "IN_PROGRESS"}
  THEN Report("position", [session |-> "FAILURE", flags |-> {}])
  ELSE IF {"latitude", "longitude"} \subseteq p.valid /\ ~p.atZero
       THEN Report("position",
              [session |-> IF p.sessionStatus = "SUCCESS" THEN "SUCCESS"
                           ELSE "INTERMEDIATE",
               flags   |-> {"HAS_LAT_LONG", "HAS_SOURCE_INFO"} \cup
                 {FlagOfField[d] : d \in p.valid \cap DOMAIN FlagOfField}])
       ELSE <<>>

-----------------------------------------------------------------------------
(* reportSv *)

PrnOf_SlotId(sv) ==
  CASE sv.system = "GPS"     -> sv.gnssSvId
    [] sv.system = "SBAS"    -> sv.gnssSvId + 33 - 120
    [] sv.system = "GLONASS" -> sv.gnssSvId
    [] sv.system = "BDS"     -> sv.gnssSvId

\* The number of a satellite in NMEA: GPS 1-32, SBAS 33-64, GLONASS 65-96,
\* BeiDou 201-237.
PrnOf(sv) ==
  CASE sv.system = "GPS"     -> sv.gnssSvId
    [] sv.system = "SBAS"    -> sv.gnssSvId + 33 - 120
    [] sv.system = "GLONASS" -> sv.gnssSvId + (65 - 1)
    [] sv.system = "BDS"     -> sv.gnssSvId

Identified(sv) == {"SYSTEM", "GNSS_SVID"} \subseteq sv.valid /\ sv.gnssSvId # 0

Supported(sv) == sv.system \in {"GPS", "SBAS", "GLONASS", "BDS"}

Measured(sv) == sv.valid \cap {"SNR", "ELEVATION", "AZIMUTH"}

\* The bit of a satellite in the masks of SvStatus, which are for GPS only.
MaskBit(sv, has) ==
  IF Identified(sv) /\ sv.system = "GPS" /\ has THEN {sv.gnssSvId - 1} ELSE {}

HasInfo(sv, info) == "SVINFO_MASK" \in sv.valid /\ info \in sv.info

Tracked(sv) == "PROCESS_STATUS" \in sv.valid /\ sv.svStatus = "TRACK"

\* One turn of the loop: an identified satellite of another system is left
\* out; one that is not identified keeps number 0.
AddSv(SvStatus, sv) ==
  IF Identified(sv) /\ ~Supported(sv)
  THEN SvStatus
  ELSE [sv_list |->
          Append(SvStatus.sv_list,
                 [prn      |-> IF Identified(sv) THEN PrnOf(sv) ELSE 0,
                  measured |-> Measured(sv)]),
        ephemeris_mask |->
          SvStatus.ephemeris_mask \cup MaskBit(sv, HasInfo(sv, "EPHEMERIS")),
        almanac_mask |->
          SvStatus.almanac_mask \cup MaskBit(sv, HasInfo(sv, "ALMANAC")),
        used_in_fix_mask |->
          SvStatus.used_in_fix_mask \cup MaskBit(sv, Tracked(sv))]

NoSvStatus ==
  [sv_list |-> <<>>,
   ephemeris_mask |-> {}, almanac_mask |-> {}, used_in_fix_mask |-> {}]

\* The satellites of the indication that the loop looks at.
LookedAt(report) ==
  IF report.svList_valid
  THEN SubSeq(report.svList, 1, IF Len(report.svList) > GPS_MAX_SVS
                                THEN GPS_MAX_SVS ELSE Len(report.svList))
  ELSE <<>>

reportSv(report) == Report("sv", FoldLeft(AddSv, NoSvStatus, LookedAt(report)))

-----------------------------------------------------------------------------
(* The other events *)

reportEngineState(state) ==
  CASE state = "ON" ->
         Report("status", "ENGINE_ON") \o Report("status", "SESSION_BEGIN")
    [] state = "OFF" ->
         Report("status", "SESSION_END") \o Report("status", "ENGINE_OFF")
    [] OTHER         -> Report("status", "NONE")

reportFixSessionState(state) ==
  CASE state = "STARTED"  -> Report("status", "SESSION_BEGIN")
    [] state = "FINISHED" -> Report("status", "SESSION_END")
    [] OTHER              -> Report("status", "NONE")

\* reportXtraServer takes three servers, the ones that a short list names and
\* empty ones; of a list of none it reads three, whatever memory holds there.
XtraServers(list) ==
  Report("xtra_server",
         [n \in 1 .. 3 |-> IF n <= Len(list) THEN list[n]
                           ELSE IF Len(list) \in {1, 2} THEN "empty"
                           ELSE "anything"])

reportXtraServerUrl(list) == XtraServers(list)

AgpsType(wwanType) == IF wwanType = "AGNSS" THEN "SUPL" ELSE "WWAN_ANY"

reportAtlRequest(req) ==
  CASE req.requestType = "OPEN" /\ req.wwanType = "AGNSS_EMERGENCY" ->
         Report("supl_es", <<req.connHandle>>)
    [] req.requestType = "OPEN" /\ req.wwanType # "AGNSS_EMERGENCY" ->
         Report("atl", <<req.connHandle, AgpsType(req.wwanType)>>)
    [] req.requestType = "CLOSE" ->
         Report("release_atl", <<req.connHandle>>)
    [] OTHER -> <<>>

\* Events that eventCb does not name are dropped.
eventCb(event, payload) ==
  CASE event = "POSITION_REPORT"    -> reportPosition(payload)
    [] event = "GNSS_SV_INFO"       -> reportSv(payload)
    [] event = "ENGINE_STATE"       -> reportEngineState(payload)
    [] event = "FIX_SESSION_STATE"  -> reportFixSessionState(payload)
    [] event = "NMEA"               -> Report("nmea", payload)
    [] event = "INJECT_PREDICTED_ORBITS_REQ" ->
         reportXtraServerUrl(payload) \o Report("request_xtra", <<>>)
    [] event = "INJECT_TIME_REQ"     -> Report("request_time", <<>>)
    [] event = "INJECT_POSITION_REQ" -> Report("request_location", <<>>)
    [] event = "LOCATION_SERVER_CONNECTION_REQ" -> reportAtlRequest(payload)
    [] OTHER -> <<>>
=============================================================================
