----------------------------- MODULE EventMask -----------------------------
(***************************************************************************)
(* Event masks of the adapter and of the location service, LocApiV02.cpp.  *)
(* A mask is a set of bits; a bit is named as in the code, without the     *)
(* prefixes LOC_API_ADAPTER_(BIT_) and QMI_LOC_EVENT_MASK_.                *)
(***************************************************************************)

\* The events of the service that each bit of the adapter stands for.  NMEA
\* comes under two bits; assistance data are three kinds of request.
EventsOfBit ==
  [PARSED_POSITION_REPORT         |-> {"POSITION_REPORT"},
   SATELLITE_REPORT               |-> {"GNSS_SV_INFO"},
   NMEA_POSITION_REPORT           |-> {"NMEA"},
   NMEA_1HZ_REPORT                |-> {"NMEA"},
   NI_NOTIFY_VERIFY_REQUEST       |-> {"NI_NOTIFY_VERIFY_REQ"},
   ASSISTANCE_DATA_REQUEST        |-> {"INJECT_PREDICTED_ORBITS_REQ",
                                       "INJECT_TIME_REQ", "INJECT_POSITION_REQ"},
   STATUS_REPORT                  |-> {"ENGINE_STATE"},
   LOCATION_SERVER_REQUEST        |-> {"LOCATION_SERVER_CONNECTION_REQ"},
   REQUEST_WIFI                   |-> {"WIFI_REQ"},
   SENSOR_STATUS                  |-> {"SENSOR_STREAMING_READY_STATUS"},
   REQUEST_TIME_SYNC              |-> {"TIME_SYNC_REQ"},
   REPORT_SPI                     |-> {"SET_SPI_STREAMING_REPORT"},
   REPORT_NI_GEOFENCE             |-> {"NI_GEOFENCE_NOTIFICATION"},
   GEOFENCE_GEN_ALERT             |-> {"GEOFENCE_GEN_ALERT"},
   REPORT_GENFENCE_BREACH         |-> {"GEOFENCE_BREACH_NOTIFICATION"},
   BATCHED_GENFENCE_BREACH_REPORT |-> {"GEOFENCE_BATCH_BREACH_NOTIFICATION"},
   PEDOMETER_CTRL                 |-> {"PEDOMETER_CONTROL"},
   MOTION_CTRL                    |-> {"MOTION_DATA_CONTROL"},
   REQUEST_WIFI_AP_DATA           |-> {"INJECT_WIFI_AP_DATA_REQ"},
   BATCH_FULL                     |-> {"BATCH_FULL_NOTIFICATION"},
   BATCHED_POSITION_REPORT        |-> {"LIVE_BATCHED_POSITION_REPORT"}]

AdapterBits == DOMAIN EventsOfBit

\* Events that a session produces or ends with; the service need not send them
\* between sessions.  The others are requests and alerts that may come anytime.
Tracking == {"POSITION_REPORT", "GNSS_SV_INFO", "NMEA", "ENGINE_STATE"}

convertMask(mask) == UNION {EventsOfBit[bit] : bit \in mask}

Events == convertMask(AdapterBits)

adjustMaskForNoSession(qmiMask) == qmiMask \ Tracking
=============================================================================
