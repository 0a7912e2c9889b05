--------------------------- MODULE ClientMessages ---------------------------
(***************************************************************************)
(* What the client in loc_api_v02_client.c knows about the messages of the *)
(* location service: which indications it takes, how it sends a request,   *)
(* and what it makes of the outcome.  A message is named as in the code,   *)
(* without QMI_LOC_, EVENT_ and _REQ_V02 or _IND_V02; a request and the    *)
(* indication that answers it so have the same name.                       *)
(***************************************************************************)

(* locClientEventIndTable and locClientRespIndTable *)

EventInds ==
  {"POSITION_REPORT", "GNSS_SV_INFO", "NMEA", "NI_NOTIFY_VERIFY_REQ",
   "INJECT_TIME_REQ", "INJECT_PREDICTED_ORBITS_REQ", "INJECT_POSITION_REQ",
   "ENGINE_STATE", "FIX_SESSION_STATE", "WIFI_REQ",
   "SENSOR_STREAMING_READY_STATUS", "TIME_SYNC_REQ",
   "SET_SPI_STREAMING_REPORT", "LOCATION_SERVER_CONNECTION_REQ",
   "NI_GEOFENCE_NOTIFICATION", "GEOFENCE_GEN_ALERT",
   "GEOFENCE_BREACH_NOTIFICATION", "GEOFENCE_BATCHED_BREACH_NOTIFICATION",
   "PEDOMETER_CONTROL", "MOTION_DATA_CONTROL", "INJECT_WIFI_AP_DATA_REQ",
   "LIVE_BATCHED_POSITION_REPORT", "BATCH_FULL_NOTIFICATION",
   "VEHICLE_DATA_READY_STATUS", "GEOFENCE_PROXIMITY_NOTIFICATION"}

\* The bit of the registration mask an event comes under.
EventMaskOf(event) ==
  IF event = "GEOFENCE_BATCHED_BREACH_NOTIFICATION"
  THEN "GEOFENCE_BATCH_BREACH_NOTIFICATION"
  ELSE event

\* The first answers of the table: time, positions, settings of the engine.
SettingsInds ==
  {"GET_SERVICE_REVISION", "GET_FIX_CRITERIA", "NI_USER_RESPONSE",
   "INJECT_PREDICTED_ORBITS_DATA", "GET_PREDICTED_ORBITS_DATA_SOURCE",
   "GET_PREDICTED_ORBITS_DATA_VALIDITY", "INJECT_UTC_TIME", "INJECT_POSITION",
   "SET_ENGINE_LOCK", "GET_ENGINE_LOCK", "SET_SBAS_CONFIG", "GET_SBAS_CONFIG",
   "SET_NMEA_TYPES", "GET_NMEA_TYPES", "SET_LOW_POWER_MODE",
   "GET_LOW_POWER_MODE", "SET_SERVER", "GET_SERVER", "DELETE_ASSIST_DATA",
   "SET_XTRA_T_SESSION_CONTROL", "GET_XTRA_T_SESSION_CONTROL",
   "INJECT_WIFI_POSITION", "NOTIFY_WIFI_STATUS", "GET_REGISTERED_EVENTS",
   "SET_OPERATION_MODE", "GET_OPERATION_MODE", "SET_SPI_STATUS",
   "INJECT_SENSOR_DATA", "INJECT_TIME_SYNC_DATA", "SET_CRADLE_MOUNT_CONFIG",
   "GET_CRADLE_MOUNT_CONFIG", "SET_EXTERNAL_POWER_CONFIG",
   "GET_EXTERNAL_POWER_CONFIG"}

\* The others: servers, protocols, sensors, geofences, cells, batches.
ServicesInds ==
  {"INFORM_LOCATION_SERVER_CONN_STATUS",
   "SET_PROTOCOL_CONFIG_PARAMETERS", "GET_PROTOCOL_CONFIG_PARAMETERS",
   "SET_SENSOR_CONTROL_CONFIG", "GET_SENSOR_CONTROL_CONFIG",
   "SET_SENSOR_PROPERTIES", "GET_SENSOR_PROPERTIES",
   "SET_SENSOR_PERFORMANCE_CONTROL_CONFIGURATION",
   "GET_SENSOR_PERFORMANCE_CONTROL_CONFIGURATION", "INJECT_SUPL_CERTIFICATE",
   "DELETE_SUPL_CERTIFICATE", "SET_POSITION_ENGINE_CONFIG_PARAMETERS",
   "GET_POSITION_ENGINE_CONFIG_PARAMETERS", "ADD_CIRCULAR_GEOFENCE",
   "DELETE_GEOFENCE", "QUERY_GEOFENCE", "EDIT_GEOFENCE",
   "GET_BEST_AVAILABLE_POSITION", "INJECT_MOTION_DATA",
   "GET_NI_GEOFENCE_ID_LIST", "INJECT_GSM_CELL_INFO",
   "INJECT_NETWORK_INITIATED_MESSAGE", "WWAN_OUT_OF_SERVICE_NOTIFICATION",
   "PEDOMETER_REPORT", "INJECT_WCDMA_CELL_INFO", "INJECT_TDSCDMA_CELL_INFO",
   "INJECT_SUBSCRIBER_ID", "INJECT_WIFI_AP_DATA", "START_BATCHING",
   "STOP_BATCHING", "GET_BATCH_SIZE", "LIVE_BATCHED_POSITION_REPORT",
   "BATCH_FULL_NOTIFICATION", "READ_FROM_BATCH", "RELEASE_BATCH",
   "SET_XTRA_VERSION_CHECK", "INJECT_VEHICLE_SENSOR_DATA",
   "NOTIFY_WIFI_ATTACHMENT_STATUS", "NOTIFY_WIFI_ENABLED_STATUS",
   "SET_PREMIUM_SERVICES_CONFIG", "GET_AVAILABLE_WWAN_POSITION"}

RespInds == SettingsInds \cup ServicesInds

\* Events are looked up first: two names are in both tables.
locClientGetSizeAndTypeByIndId(ind) ==
  IF ind \in EventInds THEN "event"
  ELSE IF ind \in RespInds THEN "resp" ELSE "none"

isClientRegisteredForEvent(eventRegMask, ind) ==
  ind \in EventInds /\ EventMaskOf(ind) \in eventRegMask

NotHandled_GetLock ==
  {"GET_ENGINE_LOCK", "GET_LOW_POWER_MODE", "GET_NMEA_TYPES",
   "GET_OPERATION_MODE", "GET_SBAS_CONFIG", "GET_SERVER",
   "GET_XTRA_T_SESSION_CONTROL"}

\* Answers in the table that locClientHandleIndication does not know.
NotHandled ==
  {"GET_LOW_POWER_MODE", "GET_NMEA_TYPES", "GET_OPERATION_MODE",
   "GET_SBAS_CONFIG", "GET_SERVER", "GET_XTRA_T_SESSION_CONTROL"}

HandlesEvent(ind) == ind \in EventInds

HandlesAnswer(ind) == ind \in RespInds \ NotHandled

locClientHandleIndication(ind) == HandlesEvent(ind) \/ HandlesAnswer(ind)

-----------------------------------------------------------------------------
(* locClientSendReq *)

\* Requests with a payload: sessions, positions, settings of the engine
SettingsReqs ==
  {"INFORM_CLIENT_REVISION", "REG_EVENTS", "START", "STOP",
   "NI_USER_RESPONSE", "INJECT_PREDICTED_ORBITS_DATA", "INJECT_UTC_TIME",
   "INJECT_POSITION", "SET_ENGINE_LOCK", "SET_SBAS_CONFIG", "SET_NMEA_TYPES",
   "SET_LOW_POWER_MODE", "SET_SERVER", "DELETE_ASSIST_DATA",
   "SET_XTRA_T_SESSION_CONTROL", "INJECT_WIFI_POSITION", "NOTIFY_WIFI_STATUS",
   "SET_OPERATION_MODE", "SET_SPI_STATUS", "INJECT_SENSOR_DATA",
   "INJECT_TIME_SYNC_DATA", "SET_CRADLE_MOUNT_CONFIG",
   "SET_EXTERNAL_POWER_CONFIG"}

\* Servers, protocols, sensors, certificates, geofences, cells
ServicesReqs ==
  {"INFORM_LOCATION_SERVER_CONN_STATUS",
   "SET_PROTOCOL_CONFIG_PARAMETERS", "GET_PROTOCOL_CONFIG_PARAMETERS",
   "SET_SENSOR_CONTROL_CONFIG", "GET_SENSOR_PROPERTIES",
   "SET_SENSOR_PROPERTIES", "SET_SENSOR_PERFORMANCE_CONTROL_CONFIGURATION",
   "INJECT_SUPL_CERTIFICATE", "DELETE_SUPL_CERTIFICATE",
   "SET_POSITION_ENGINE_CONFIG_PARAMETERS",
   "GET_POSITION_ENGINE_CONFIG_PARAMETERS", "ADD_CIRCULAR_GEOFENCE",
   "DELETE_GEOFENCE", "QUERY_GEOFENCE", "EDIT_GEOFENCE",
   "GET_BEST_AVAILABLE_POSITION", "INJECT_MOTION_DATA",
   "GET_NI_GEOFENCE_ID_LIST", "INJECT_GSM_CELL_INFO",
   "INJECT_NETWORK_INITIATED_MESSAGE", "PEDOMETER_REPORT",
   "INJECT_WCDMA_CELL_INFO", "INJECT_TDSCDMA_CELL_INFO",
   "INJECT_SUBSCRIBER_ID"}

\* Access points, batches, vehicles
BatchingReqs ==
  {"INJECT_WIFI_AP_DATA", "GET_BATCH_SIZE", "START_BATCHING", "READ_FROM_BATCH",
   "STOP_BATCHING", "RELEASE_BATCH",
   "SET_XTRA_VERSION_CHECK", "INJECT_VEHICLE_SENSOR_DATA",
   "NOTIFY_WIFI_ATTACHMENT_STATUS", "NOTIFY_WIFI_ENABLED_STATUS",
   "SET_PREMIUM_SERVICES_CONFIG", "GET_AVAILABLE_WWAN_POSITION"}

WithPayload == SettingsReqs \cup ServicesReqs \cup BatchingReqs

WithoutPayload ==
  {"GET_SERVICE_REVISION", "GET_FIX_CRITERIA",
   "GET_PREDICTED_ORBITS_DATA_SOURCE", "GET_PREDICTED_ORBITS_DATA_VALIDITY",
   "GET_ENGINE_LOCK", "GET_SBAS_CONFIG", "GET_NMEA_TYPES",
   "GET_LOW_POWER_MODE", "GET_SERVER", "GET_XTRA_T_SESSION_CONTROL",
   "GET_REGISTERED_EVENTS", "GET_OPERATION_MODE", "GET_CRADLE_MOUNT_CONFIG",
   "GET_EXTERNAL_POWER_CONFIG", "GET_SENSOR_CONTROL_CONFIG",
   "GET_SENSOR_PERFORMANCE_CONTROL_CONFIGURATION",
   "WWAN_OUT_OF_SERVICE_NOTIFICATION", "GET_SUPPORTED_MSGS",
   "GET_SUPPORTED_FIELDS"}

validateRequest(req) == req \in WithPayload \cup WithoutPayload

\* What a request carries: the payload of the second kind is thrown away.
Payload(req, fields) == IF req \in WithPayload THEN fields ELSE <<>>

\* The error codes of a response that reports one.
Refusals == {"MALFORMED_MSG", "INVALID_ARG", "DEVICE_IN_USE", "OTHER"}

convertQmiResponseToLocStatus(error) ==
  CASE error = "NONE"                            -> "SUCCESS"
    [] error \in {"MALFORMED_MSG", "INVALID_ARG"} -> "INVALID_PARAMETER"
    [] error = "DEVICE_IN_USE"                   -> "ENGINE_BUSY"
    [] OTHER                                     -> "INTERNAL"

\* What becomes of a send that fails with rc.
SendErrorStatus(rc) ==
  IF rc = "SERVICE_ERR" THEN "PHONE_OFFLINE" ELSE "INTERNAL"
=============================================================================
