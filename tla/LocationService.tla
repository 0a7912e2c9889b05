-------------------------- MODULE LocationService --------------------------
(***************************************************************************)
(* The interface of the location service, as far as the dialogues use it:  *)
(* which messages there are, which fields each of them has, and what may   *)
(* be in them.  Of a message a model keeps the fields that are valid, as a *)
(* record; a list or a mask that is not valid is empty.  Enumerated values *)
(* are named as in the code, without prefix and _V02, masks are sets of    *)
(* the names of their bits, and messages are named as in ClientMessages.   *)
(***************************************************************************)
EXTENDS Integers

-----------------------------------------------------------------------------
(* The service object *)

\* The requests that the service takes.
Commands ==
  {"GET_SUPPORTED_MSGS", "GET_SUPPORTED_FIELDS", "INFORM_CLIENT_REVISION",
   "REG_EVENTS", "START", "STOP", "GET_SERVICE_REVISION",
   "GET_FIX_CRITERIA", "NI_USER_RESPONSE", "INJECT_PREDICTED_ORBITS_DATA",
   "GET_PREDICTED_ORBITS_DATA_SOURCE", "GET_PREDICTED_ORBITS_DATA_VALIDITY",
   "INJECT_UTC_TIME", "INJECT_POSITION", "SET_ENGINE_LOCK",
   "GET_ENGINE_LOCK", "SET_SBAS_CONFIG", "GET_SBAS_CONFIG",
   "SET_NMEA_TYPES", "GET_NMEA_TYPES", "SET_LOW_POWER_MODE",
   "GET_LOW_POWER_MODE", "SET_SERVER", "GET_SERVER", "DELETE_ASSIST_DATA",
   "SET_XTRA_T_SESSION_CONTROL", "GET_XTRA_T_SESSION_CONTROL",
   "INJECT_WIFI_POSITION", "NOTIFY_WIFI_STATUS", "GET_REGISTERED_EVENTS",
   "SET_OPERATION_MODE", "GET_OPERATION_MODE", "SET_SPI_STATUS",
   "INJECT_SENSOR_DATA", "INJECT_TIME_SYNC_DATA", "SET_CRADLE_MOUNT_CONFIG",
   "GET_CRADLE_MOUNT_CONFIG", "SET_EXTERNAL_POWER_CONFIG",
   "GET_EXTERNAL_POWER_CONFIG", "INFORM_LOCATION_SERVER_CONN_STATUS",
   "SET_PROTOCOL_CONFIG_PARAMETERS", "GET_PROTOCOL_CONFIG_PARAMETERS",
   "SET_SENSOR_CONTROL_CONFIG", "GET_SENSOR_CONTROL_CONFIG",
   "SET_SENSOR_PROPERTIES", "GET_SENSOR_PROPERTIES",
   "SET_SENSOR_PERFORMANCE_CONTROL_CONFIGURATION",
   "GET_SENSOR_PERFORMANCE_CONTROL_CONFIGURATION",
   "INJECT_SUPL_CERTIFICATE", "DELETE_SUPL_CERTIFICATE",
   "SET_POSITION_ENGINE_CONFIG_PARAMETERS",
   "GET_POSITION_ENGINE_CONFIG_PARAMETERS", "ADD_CIRCULAR_GEOFENCE",
   "DELETE_GEOFENCE", "QUERY_GEOFENCE", "EDIT_GEOFENCE",
   "GET_BEST_AVAILABLE_POSITION", "INJECT_MOTION_DATA",
   "GET_NI_GEOFENCE_ID_LIST", "INJECT_GSM_CELL_INFO",
   "INJECT_NETWORK_INITIATED_MESSAGE", "WWAN_OUT_OF_SERVICE_NOTIFICATION",
   "PEDOMETER_REPORT", "INJECT_WCDMA_CELL_INFO", "INJECT_TDSCDMA_CELL_INFO",
   "INJECT_SUBSCRIBER_ID", "SET_GEOFENCE_ENGINE_CONFIG",
   "GET_GEOFENCE_ENGINE_CONFIG", "GET_BATCH_SIZE", "START_BATCHING",
   "READ_FROM_BATCH", "STOP_BATCHING", "RELEASE_BATCH",
   "INJECT_WIFI_AP_DATA", "NOTIFY_WIFI_ATTACHMENT_STATUS",
   "NOTIFY_WIFI_ENABLED_STATUS", "INJECT_VEHICLE_SENSOR_DATA",
   "GET_AVAILABLE_WWAN_POSITION", "SET_PREMIUM_SERVICES_CONFIG",
   "SET_XTRA_VERSION_CHECK", "SET_GNSS_CONSTELL_REPORT_CONFIG",
   "ADD_GEOFENCE_CONTEXT", "SET_GEOFENCE_ENGINE_CONTEXT",
   "DELETE_GEOFENCE_CONTEXT"}

\* What the service responds to, if only to refuse it.
Responses == Commands

\* The requests that an indication answers.
ServiceAnswers ==
  Commands \
    {"GET_SUPPORTED_FIELDS", "GET_SUPPORTED_MSGS", "INFORM_CLIENT_REVISION",
     "REG_EVENTS", "START", "STOP"}

ServiceEvents ==
  {"POSITION_REPORT", "GNSS_SV_INFO", "NMEA", "NI_NOTIFY_VERIFY_REQ",
   "INJECT_TIME_REQ", "INJECT_PREDICTED_ORBITS_REQ", "INJECT_POSITION_REQ",
   "ENGINE_STATE", "FIX_SESSION_STATE", "WIFI_REQ",
   "SENSOR_STREAMING_READY_STATUS", "TIME_SYNC_REQ",
   "SET_SPI_STREAMING_REPORT", "LOCATION_SERVER_CONNECTION_REQ",
   "NI_GEOFENCE_NOTIFICATION", "GEOFENCE_GEN_ALERT",
   "GEOFENCE_BREACH_NOTIFICATION", "PEDOMETER_CONTROL",
   "MOTION_DATA_CONTROL", "BATCH_FULL_NOTIFICATION",
   "LIVE_BATCHED_POSITION_REPORT", "INJECT_WIFI_AP_DATA_REQ",
   "GEOFENCE_BATCHED_BREACH_NOTIFICATION", "VEHICLE_DATA_READY_STATUS",
   "GNSS_MEASUREMENT_REPORT", "SV_POLYNOMIAL_REPORT",
   "GEOFENCE_PROXIMITY_NOTIFICATION"}

-----------------------------------------------------------------------------
(* What fields hold *)

\* A message has the fields it must have, and no other than it may have.
Carries(m, must, may) ==
  must \subseteq DOMAIN m /\ DOMAIN m \subseteq must \cup may

SessionStatuses ==
  {"SUCCESS", "IN_PROGRESS", "GENERAL_FAILURE", "TIMEOUT", "USER_END",
   "BAD_PARAMETER", "PHONE_OFFLINE", "ENGINE_LOCKED"}

SvSystems == {"GPS", "GALILEO", "SBAS", "COMPASS", "GLONASS", "BDS"}

SvStatuses == {"IDLE", "SEARCH", "TRACK"}

EngineStates == {"ON", "OFF"}

FixSessionStates == {"STARTED", "FINISHED"}

WwanTypes == {"INTERNET", "AGNSS", "AGNSS_EMERGENCY"}

ServerRequests == {"OPEN", "CLOSE"}

ServerReqStatuses == {"SUCCESS", "FAILURE"}

PdnTypes == {"IPV4", "IPV6", "IPV4V6", "PPP"}

NiNotifyVerifyTypes ==
  {"NO_NOTIFY_NO_VERIFY", "NOTIFY_ONLY", "NOTIFY_VERIFY_ALLOW_NO_RESP",
   "NOTIFY_VERIFY_NOT_ALLOW_NO_RESP", "NOTIFY_VERIFY_PRIVACY_OVERRIDE"}

NiUserResponses == {"ACCEPT", "DENY", "NORESP"}

ServerTypes == {"CDMA_PDE", "CDMA_MPC", "UMTS_SLP", "CUSTOM_PDE"}

SuplVersions == {"1_0", "2_0"}

SensorUses == {"ENABLE", "DISABLE"}

SensorProviders == {"SSC", "NATIVE"}

ExternalPowerStates == {"NOT_CONNECTED", "CONNECTED", "UNKNOWN"}

\* None, sessions the device began, sessions the network began, all.
LockTypes == 1 .. 4

FixRecurrences == {"PERIODIC", "SINGLE"}

AccuracyLevels == {"LOW", "MED", "HIGH"}

OperationModes == {"DEFAULT", "MSB", "MSA", "STANDALONE", "CELL_ID", "WWAN"}

\* The bits of a registration: one for each event, but for two whose names
\* differ from the event's.
EventRegMask ==
  (ServiceEvents \ {"GEOFENCE_BATCHED_BREACH_NOTIFICATION", "SV_POLYNOMIAL_REPORT"})
    \cup {"GEOFENCE_BATCH_BREACH_NOTIFICATION", "GNSS_SV_POLYNOMIAL_REPORT"}

XtraVersionChecks == {"DISABLE", "AUTO", "XTRA2", "XTRA3"}

\* Numbers as they are sent: a mode, and masks of one, two and four bits.
SensorPerformanceControlModes == 0 .. 1
SensorAlgorithms == 0 .. 1
LppConfigs == 0 .. 3
AssistedGlonassProtocols == 0 .. 15

QMI_LOC_SV_INFO_LIST_MAX_SIZE == 80
QMI_LOC_MAX_SERVER_ADDR_LENGTH == 255
QMI_LOC_MAX_PREDICTED_ORBITS_SERVERS == 3
QMI_LOC_DELETE_MAX_SV_INFO_LENGTH == 128
QMI_LOC_DELETE_MAX_BDS_SV_INFO_LENGTH == 37

-----------------------------------------------------------------------------
(* Requests *)

RegEventsReq(m) ==
  Carries(m, {"eventRegMask"}, {}) /\ m.eventRegMask \subseteq EventRegMask

StartReq(m) ==
  /\ Carries(m, {"sessionId"},
       {"fixRecurrence", "horizontalAccuracyLevel", "intermediateReportState",
        "minInterval", "applicationId", "configAltitudeAssumed"})
  /\ m.sessionId \in 0 .. 255
  /\ "fixRecurrence" \in DOMAIN m => m.fixRecurrence \in FixRecurrences
  /\ "horizontalAccuracyLevel" \in DOMAIN m =>
       m.horizontalAccuracyLevel \in AccuracyLevels
  /\ "configAltitudeAssumed" \in DOMAIN m =>
       m.configAltitudeAssumed \in {"ENABLED", "DISABLED"}

StopReq(m) == Carries(m, {"sessionId"}, {}) /\ m.sessionId \in 0 .. 255

SetOperationModeReq(m) ==
  Carries(m, {"operationMode"}, {}) /\ m.operationMode \in OperationModes

InjectUtcTimeReq(m) == Carries(m, {"timeUtc", "timeUnc"}, {})

\* A confidence comes with an uncertainty, and is a percentage.
InjectPositionReq(m) ==
  /\ Carries(m, {},
       {"latitude", "longitude", "horUncCircular", "horConfidence",
        "horReliability", "altitudeWrtEllipsoid", "altitudeWrtMeanSeaLevel",
        "vertUnc", "vertConfidence", "vertReliability", "altSourceInfo",
        "timestampUtc", "timestampAge", "positionSrc", "rawHorUncCircular",
        "rawHorConfidence"})
  /\ "horConfidence" \in DOMAIN m =>
       "horUncCircular" \in DOMAIN m /\ m.horConfidence \in 1 .. 99

\* The parts of a request to the user, which its answer gives back.
NiParts == {"Vx", "Supl", "UmtsCp", "VxServiceInteraction", "SuplVer2Ext", "Emergency"}

NiUserRespReq(m) ==
  /\ Carries(m, {"userResp", "notificationType"}, {"payload"})
  /\ m.userResp \in NiUserResponses
  /\ m.notificationType \in NiNotifyVerifyTypes
  /\ "payload" \in DOMAIN m => DOMAIN m.payload \subseteq NiParts

SetEngineLockReq(m) == Carries(m, {"lockType"}, {}) /\ m.lockType \in LockTypes

\* The end of a string needs a byte of its own.
SetServerReq(m) ==
  /\ Carries(m, {"serverType"}, {"ipv4Addr", "ipv6Addr", "urlAddr"})
  /\ m.serverType \in ServerTypes
  /\ "urlAddr" \in DOMAIN m =>
       m.urlAddr.len \in 1 .. QMI_LOC_MAX_SERVER_ADDR_LENGTH

DeletableGnssData ==
  {"GPS_SVDIR", "GPS_SVSTEER", "GPS_TIME", "GPS_ALM_CORR",
   "GLO_SVDIR", "GLO_SVSTEER", "GLO_TIME", "GLO_ALM_CORR",
   "SBAS_SVDIR", "SBAS_SVSTEER", "POSITION", "TIME", "IONO", "UTC", "HEALTH",
   "SADATA", "RTI", "SV_NO_EXIST", "FREQ_BIAS_EST",
   "BDS_SVDIR", "BDS_SVSTEER", "BDS_TIME", "BDS_ALM_CORR",
   "GNSS_SV_BLACKLIST_GPS", "GNSS_SV_BLACKLIST_GLO", "GNSS_SV_BLACKLIST_BDS"}

DeletableCellData ==
  {"CELLDB_POS", "CELLDB_LATEST_GPS_POS", "CELLDB_OTA_POS",
   "CELLDB_EXT_REF_POS", "CELLDB_TIMETAG", "CELLDB_CELLID",
   "CELLDB_CACHED_CELLID", "CELLDB_LAST_SRV_CELL", "CELLDB_CUR_SRV_CELL",
   "CELLDB_NEIGHBOR_INFO"}

DeletableSvData == {"EPHEMERIS", "ALMANAC"}

\* An entry of the list that GPS, SBAS and GLONASS share.
DeleteSvInfo(sv) ==
  /\ sv.mask # {} /\ sv.mask \subseteq DeletableSvData
  /\ \/ sv.system = "GPS"     /\ sv.id \in 1 .. 32
     \/ sv.system = "SBAS"    /\ sv.id \in 33 .. 64
     \/ sv.system = "GLONASS" /\ sv.id \in 65 .. 96

DeleteBDSSvInfo(sv) ==
  /\ sv.mask # {} /\ sv.mask \subseteq DeletableSvData
  /\ sv.id \in 201 .. 237

DeleteAssistDataReq(m) ==
  /\ Carries(m, {"deleteAllFlag"},
       {"deleteSvInfoList", "deleteGnssDataMask", "deleteCellDbDataMask",
        "deleteClockInfoMask", "deleteBdsSvInfoList"})
  /\ "deleteSvInfoList" \in DOMAIN m =>
       \A i \in DOMAIN m.deleteSvInfoList :
         /\ i \in 0 .. QMI_LOC_DELETE_MAX_SV_INFO_LENGTH - 1
         /\ DeleteSvInfo(m.deleteSvInfoList[i])
  /\ "deleteBdsSvInfoList" \in DOMAIN m =>
       \A i \in DOMAIN m.deleteBdsSvInfoList :
         /\ i \in 0 .. QMI_LOC_DELETE_MAX_BDS_SV_INFO_LENGTH - 1
         /\ DeleteBDSSvInfo(m.deleteBdsSvInfoList[i])
  /\ "deleteGnssDataMask" \in DOMAIN m =>
       m.deleteGnssDataMask \subseteq DeletableGnssData
  /\ "deleteCellDbDataMask" \in DOMAIN m =>
       m.deleteCellDbDataMask \subseteq DeletableCellData

SetExternalPowerConfigReq(m) ==
  /\ Carries(m, {"externalPowerState"}, {})
  /\ m.externalPowerState \in ExternalPowerStates

InformLocationServerConnStatusReq(m) ==
  /\ Carries(m, {"connHandle", "requestType", "statusType"}, {"apnProfile"})
  /\ m.requestType \in ServerRequests
  /\ m.statusType \in ServerReqStatuses
  /\ "apnProfile" \in DOMAIN m => m.apnProfile.pdnType \in PdnTypes

SetProtocolConfigParametersReq(m) ==
  /\ Carries(m, {},
       {"suplSecurity", "vxVersion", "suplVersion", "lppConfig",
        "assistedGlonassProtocolMask", "suplHashAlgo", "suplTlsVersion",
        "emergencyProtocol", "wifiScanInjectTimeout"})
  /\ "suplVersion" \in DOMAIN m => m.suplVersion \in SuplVersions
  /\ "lppConfig" \in DOMAIN m => m.lppConfig \in LppConfigs
  /\ "assistedGlonassProtocolMask" \in DOMAIN m =>
       m.assistedGlonassProtocolMask \in AssistedGlonassProtocols

SetSensorControlConfigReq(m) ==
  /\ Carries(m, {}, {"sensorsUsage", "sensorProvider"})
  /\ "sensorsUsage" \in DOMAIN m => m.sensorsUsage \in SensorUses
  /\ "sensorProvider" \in DOMAIN m => m.sensorProvider \in SensorProviders

SetSensorPropertiesReq(m) ==
  Carries(m, {},
    {"gyroBiasVarianceRandomWalk", "velocityRandomWalkSpectralDensity",
     "accelerationRandomWalkSpectralDensity", "angleRandomWalkSpectralDensity",
     "rateRandomWalkSpectralDensity", "vehicleDataUse",
     "vehicleVelocityRandomWalkSpectralDensity",
     "vehicleAccelRandomWalkSpectralDensity",
     "vehicleAngleRandomWalkSpectralDensity",
     "vehicleAngularRateRandomWalkSpectralDensity",
     "vehicleOdometryScaleFactorRandomWalkSpectralDensity",
     "vehicleOdometryVariance"})

SetSensorPerformanceControlConfigReq(m) ==
  /\ Carries(m, {},
       {"performanceControlMode", "accelSamplingSpec", "gyroSamplingSpec",
        "algorithmConfig", "accelSamplingSpecHigh", "gyroSamplingSpecHigh"})
  /\ "performanceControlMode" \in DOMAIN m =>
       m.performanceControlMode \in SensorPerformanceControlModes
  /\ "algorithmConfig" \in DOMAIN m => m.algorithmConfig \in SensorAlgorithms

GetBestAvailablePositionReq(m) == Carries(m, {"transactionId"}, {})

GetAvailWwanPositionReq(m) == Carries(m, {"transactionId"}, {})

SetXtraVersionCheckReq(m) ==
  /\ Carries(m, {"xtraVersionCheckMode"}, {})
  /\ m.xtraVersionCheckMode \in XtraVersionChecks

\* The requests that LocApiV02 sends, but for the parts of XTRA files; the last
\* two carry nothing.
WellFormed(msg, m) ==
  /\ msg = "REG_EVENTS"                => RegEventsReq(m)
  /\ msg = "START"                     => StartReq(m)
  /\ msg = "STOP"                      => StopReq(m)
  /\ msg = "SET_OPERATION_MODE"        => SetOperationModeReq(m)
  /\ msg = "INJECT_UTC_TIME"           => InjectUtcTimeReq(m)
  /\ msg = "INJECT_POSITION"           => InjectPositionReq(m)
  /\ msg = "NI_USER_RESPONSE"          => NiUserRespReq(m)
  /\ msg = "SET_ENGINE_LOCK"           => SetEngineLockReq(m)
  /\ msg = "SET_SERVER"                => SetServerReq(m)
  /\ msg = "DELETE_ASSIST_DATA"        => DeleteAssistDataReq(m)
  /\ msg = "SET_EXTERNAL_POWER_CONFIG" => SetExternalPowerConfigReq(m)
  /\ msg = "INFORM_LOCATION_SERVER_CONN_STATUS" =>
       InformLocationServerConnStatusReq(m)
  /\ msg = "SET_PROTOCOL_CONFIG_PARAMETERS" => SetProtocolConfigParametersReq(m)
  /\ msg = "SET_SENSOR_CONTROL_CONFIG" => SetSensorControlConfigReq(m)
  /\ msg = "SET_SENSOR_PROPERTIES"     => SetSensorPropertiesReq(m)
  /\ msg = "SET_SENSOR_PERFORMANCE_CONTROL_CONFIGURATION" =>
       SetSensorPerformanceControlConfigReq(m)
  /\ msg = "GET_BEST_AVAILABLE_POSITION" => GetBestAvailablePositionReq(m)
  /\ msg = "GET_AVAILABLE_WWAN_POSITION" => GetAvailWwanPositionReq(m)
  /\ msg = "SET_XTRA_VERSION_CHECK"    => SetXtraVersionCheckReq(m)
  /\ msg \in {"GET_ENGINE_LOCK", "GET_PREDICTED_ORBITS_DATA_SOURCE"} =>
       Carries(m, {}, {})

-----------------------------------------------------------------------------
(* Indications: fields that may be valid, beside a status *)

AvailWwanPosition ==
  {"transactionId", "latitude", "longitude", "horUncCircular",
   "altitudeWrtEllipsoid", "vertUnc", "timestampUtc", "timeUnc",
   "horUncEllipseSemiMinor", "horUncEllipseSemiMajor",
   "horUncEllipseOrientAzimuth", "horCircularConfidence",
   "horEllipticalConfidence", "horReliability"}

GetAvailWwanPositionInd ==
  AvailWwanPosition \cup
  {"altitudeWrtMeanSeaLevel", "vertConfidence", "vertReliability", "gpsTime",
   "timeSrc"}

BestAvailablePosition ==
  {"transactionId", "latitude", "longitude", "horUncCircular",
   "altitudeWrtEllipsoid", "vertUnc", "timestampUtc", "timeUnc",
   "horUncEllipseSemiMinor", "horUncEllipseSemiMajor",
   "horUncEllipseOrientAzimuth", "horCircularConfidence",
   "horEllipticalConfidence", "horReliability"}

GetBestAvailablePositionInd ==
  BestAvailablePosition \cup
  {"horSpeed", "horSpeedUnc", "altitudeWrtMeanSeaLevel", "vertConfidence",
   "vertReliability", "vertSpeed", "vertSpeedUnc", "heading", "headingUnc",
   "magneticDeviation", "technologyMask", "DOP", "gpsTime", "timeSrc",
   "sensorDataUsage", "gnssSvUsedList"}

HorizontalPosition ==
  {"latitude", "longitude", "horUncCircular", "horUncEllipseSemiMinor",
   "horUncEllipseSemiMajor", "horUncEllipseOrientAzimuth", "horConfidence",
   "horReliability", "speedHorizontal", "speedUnc", "altitudeWrtEllipsoid",
   "altitudeWrtMeanSeaLevel", "vertUnc", "vertConfidence"}

EventPositionReportInd ==
  HorizontalPosition \cup
  {"vertReliability", "speedVertical", "heading", "headingUnc",
   "magneticDeviation", "technologyMask", "DOP", "timestampUtc", "leapSeconds",
   "gpsTime", "timeUnc", "timeSrc", "sensorDataUsage", "fixId",
   "gnssSvUsedList", "altitudeAssumed"}

SvInfoFields ==
  {"SYSTEM", "GNSS_SVID", "HEALTH_STATUS", "PROCESS_STATUS", "SVINFO_MASK",
   "ELEVATION", "AZIMUTH", "SNR"}

\* A satellite of a report.
SvInfo(sv) ==
  /\ sv.system \in SvSystems /\ sv.gnssSvId \in Nat
  /\ sv.valid \subseteq SvInfoFields
  /\ sv.info \subseteq DeletableSvData
  /\ sv.svStatus \in SvStatuses

EventGnssSvInfoInd(m) ==
  /\ m.svList_valid \in BOOLEAN
  /\ DOMAIN m.svList \subseteq 1 .. QMI_LOC_SV_INFO_LIST_MAX_SIZE
  /\ \A n \in DOMAIN m.svList : SvInfo(m.svList[n])

\* A request to the user: the service numbers them in the model only.
EventNiNotifyVerifyReqInd(m) ==
  m.valid \subseteq NiParts /\ m.notificationType \in NiNotifyVerifyTypes
=============================================================================
