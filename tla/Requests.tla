------------------------------ MODULE Requests ------------------------------
(***************************************************************************)
(* The methods of LocApiV02 that send one request and wait for its         *)
(* indication: the request each of them builds from its arguments, and     *)
(* what it returns.  A call records its arguments beside the fields of the *)
(* message, so that properties can compare the two.  Enumerated values are *)
(* named as in the code, without their prefix and _V02; a field of a       *)
(* message that is not valid is left out.                                  *)
(***************************************************************************)
EXTENDS AidingData

Send(method, arg, msg, fields) ==
  [by |-> method, arg |-> arg, msg |-> msg, fields |-> fields, refused |-> "no"]

\* The method returns at once with an error.
Refuse(method, arg, err) ==
  [by |-> method, arg |-> arg, msg |-> "none", fields |-> <<>>, refused |-> err]

-----------------------------------------------------------------------------
(* Injection of time and position *)

\* now is the time since boot, in milliseconds, as timeReference is.
setTime(time, timeReference, uncertainty, now) ==
  Send("setTime", <<time, timeReference>>, "INJECT_UTC_TIME",
       [timeUtc |-> time + (now - timeReference), timeUnc |-> uncertainty])

\* Accuracies below a kilometre are sent as a kilometre, and as they are.
injectPosition(latitude, longitude, accuracy) ==
  Send("injectPosition", <<latitude, longitude, accuracy>>, "INJECT_POSITION",
       [latitude         |-> latitude,
        longitude        |-> longitude,
        horUncCircular   |-> IF accuracy < 1000 THEN 1000 ELSE accuracy,
        horConfidence    |-> 68,
        rawHorUncCircular |-> accuracy,
        rawHorConfidence |-> 68])

deleteAidingData(f) ==
  Send("deleteAidingData", f, "DELETE_ASSIST_DATA", DeleteRequest(f))

-----------------------------------------------------------------------------
(* Requests to the user *)

UserResponses == {"ACCEPT", "DENY", "NORESP"}

\* What is passed back is read from the copy that passThroughData points to;
\* request is the one the user answered.
informNiResponse(userResponse, request, passThroughData) ==
  IF userResponse \notin UserResponses
  THEN Refuse("informNiResponse", request, "INVALID_PARAMETER")
  ELSE Send("informNiResponse", request, "NI_USER_RESPONSE",
            [userResp         |-> userResponse,
             notificationType |-> passThroughData.notificationType,
             payload          |-> [part \in passThroughData.valid |->
                                     <<passThroughData.id, part>>]])

-----------------------------------------------------------------------------
(* Servers and connections to them *)

\* len is the length of url, size that of the field: of an address that fills
\* the field the last character is cut off.
setServerUrl(url, len, size) ==
  IF len <= 0 \/ len > size
  THEN Refuse("setServer", url, "INVALID_PARAMETER")
  ELSE Send("setServer", url, "SET_SERVER",
            [serverType |-> "UMTS_SLP",
             urlAddr    |-> [of |-> url, len |-> IF len < size THEN len
                                                 ELSE size - 1]])

setServer(ip, port, type) ==
  Send("setServer", <<ip, port>>, "SET_SERVER",
       [serverType |-> CASE type = "MPC_SERVER"        -> "CDMA_MPC"
                         [] type = "CUSTOM_PDE_SERVER" -> "CUSTOM_PDE"
                         [] OTHER                      -> "CDMA_PDE",
        ipv4Addr   |-> [addr |-> ip, port |-> port]])

requestXtraServer ==
  Send("requestXtraServer", "none", "GET_PREDICTED_ORBITS_DATA_SOURCE", <<>>)

ConnStatus(handle, requestType, is_succ) ==
  [connHandle  |-> handle,
   requestType |-> requestType,
   statusType  |-> IF is_succ THEN "SUCCESS" ELSE "FAILURE"]

\* apnProfile is valid only with a bearer, after a success.
atlOpenStatus(handle, is_succ, apn, bear) ==
  IF is_succ /\ bear \notin {"IPV4", "IPV6", "IPV4V6", "INVALID"}
  THEN Refuse("atlOpenStatus", handle, "INVALID_HANDLE")
  ELSE Send("atlOpenStatus", handle, "INFORM_LOCATION_SERVER_CONN_STATUS",
            IF is_succ /\ bear # "INVALID"
            THEN [connHandle  |-> handle,
                  requestType |-> "OPEN",
                  statusType  |-> "SUCCESS",
                  apnProfile  |-> [apnName |-> apn, pdnType |-> bear]]
            ELSE ConnStatus(handle, "OPEN", is_succ))

atlCloseStatus(handle, is_succ) ==
  Send("atlCloseStatus", handle, "INFORM_LOCATION_SERVER_CONN_STATUS",
       ConnStatus(handle, "CLOSE", is_succ))

-----------------------------------------------------------------------------
(* Configuration *)

\* Three methods share one message, in which only their own field is valid.
setSUPLVersion(version) ==
  Send("setSUPLVersion", version, "SET_PROTOCOL_CONFIG_PARAMETERS",
       [suplVersion |-> IF version = 2 * 2^16 THEN "2_0" ELSE "1_0"])

setLPPConfig(profile) ==
  Send("setLPPConfig", profile, "SET_PROTOCOL_CONFIG_PARAMETERS",
       [lppConfig |-> profile])

setAGLONASSProtocol(aGlonassProtocol) ==
  Send("setAGLONASSProtocol", aGlonassProtocol, "SET_PROTOCOL_CONFIG_PARAMETERS",
       [assistedGlonassProtocolMask |-> aGlonassProtocol])

setSensorControlConfig(sensorsDisabled, sensorProvider) ==
  Send("setSensorControlConfig", <<sensorsDisabled, sensorProvider>>,
       "SET_SENSOR_CONTROL_CONFIG",
       [sensorsUsage   |-> IF sensorsDisabled = 1 THEN "DISABLE" ELSE "ENABLE",
        sensorProvider |-> IF sensorProvider \in {1, 4} THEN "SSC" ELSE "NATIVE"])

\* A random walk of the caller goes to the field for it.
WalkField ==
  [gyroBias     |-> "gyroBiasVarianceRandomWalk",
   accelBias    |-> "accelerationRandomWalkSpectralDensity",
   angleBias    |-> "angleRandomWalkSpectralDensity",
   rateBias     |-> "rateRandomWalkSpectralDensity",
   velocityBias |-> "velocityRandomWalkSpectralDensity"]

\* walks has the ones that the caller says are valid.
setSensorProperties(walks) ==
  Send("setSensorProperties", walks, "SET_SENSOR_PROPERTIES",
       [field \in {WalkField[w] : w \in DOMAIN walks} |->
          walks[CHOOSE w \in DOMAIN walks : WalkField[w] = field]])

\* A sampling rate is a pair of samples in a batch and batches in a second.
setSensorPerfControlConfig(controlMode, accel, gyro, accelHigh, gyroHigh, algorithm) ==
  Send("setSensorPerfControlConfig", <<controlMode, algorithm>>,
       "SET_SENSOR_PERFORMANCE_CONTROL_CONFIGURATION",
       [performanceControlMode |-> controlMode,
        accelSamplingSpec      |-> accel,
        gyroSamplingSpec       |-> gyro,
        accelSamplingSpecHigh  |-> accelHigh,
        gyroSamplingSpecHigh   |-> gyroHigh,
        algorithmConfig        |-> algorithm])

setExtPowerConfig(isBatteryCharging) ==
  IF isBatteryCharging \notin {0, 1}
  THEN Refuse("setExtPowerConfig", isBatteryCharging, "INVALID_PARAMETER")
  ELSE Send("setExtPowerConfig", isBatteryCharging, "SET_EXTERNAL_POWER_CONFIG",
            [externalPowerState |-> IF isBatteryCharging = 1 THEN "CONNECTED"
                                    ELSE "NOT_CONNECTED"])

setGpsLock(lock) ==
  Send("setGpsLock", lock, "SET_ENGINE_LOCK", [lockType |-> lock])

getGpsLock == Send("getGpsLock", "none", "GET_ENGINE_LOCK", <<>>)

\* Modes it does not know switch the check off, as DISABLED does.
ModeOf(check) == IF check \in {"AUTO", "XTRA2", "XTRA3"} THEN check ELSE "DISABLE"

setXtraVersionCheck(check) ==
  Send("setXtraVersionCheck", check, "SET_XTRA_VERSION_CHECK",
       [xtraVersionCheckMode |-> ModeOf(check)])

-----------------------------------------------------------------------------
(* Positions on request *)

getWwanZppFix ==
  Send("getWwanZppFix", "none", "GET_AVAILABLE_WWAN_POSITION",
       [transactionId |-> 0])

getBestAvailableZppFix ==
  Send("getBestAvailableZppFix", "none", "GET_BEST_AVAILABLE_POSITION",
       [transactionId |-> 0])

-----------------------------------------------------------------------------
(* What startFix and stopFix send: LocApiSession is about when they do. *)

LOC_API_V02_DEF_SESSION_ID == 1

operationMode(mode) ==
  CASE mode = "MS_BASED"    -> "MSB"
    [] mode = "MS_ASSISTED" -> "MSA"
    [] mode = "RESERVED_4"  -> "CELL_ID"
    [] mode = "RESERVED_5"  -> "WWAN"
    [] OTHER                -> "STANDALONE"

set_mode_msg(fixCriteria) == [operationMode |-> operationMode(fixCriteria.mode)]

accuracyLevel(preferred_accuracy) ==
  IF preferred_accuracy <= 100 THEN "HIGH"
  ELSE IF preferred_accuracy <= 1000 THEN "MED"
  ELSE "LOW"

\* Accuracy and application are sent if the caller gave them.
start_msg(fixCriteria) ==
  LET given ==
        {"sessionId", "minInterval", "fixRecurrence", "configAltitudeAssumed"}
          \cup (IF fixCriteria.preferred_accuracy >= 0
                THEN {"horizontalAccuracyLevel"} ELSE {})
          \cup (IF fixCriteria.credentials # "" THEN {"applicationId"} ELSE {})
      fields ==
        [sessionId   |-> LOC_API_V02_DEF_SESSION_ID,
         minInterval |-> fixCriteria.min_interval,
         fixRecurrence |->
           IF fixCriteria.recurrence = "SINGLE" THEN "SINGLE" ELSE "PERIODIC",
         configAltitudeAssumed   |-> "DISABLED",
         horizontalAccuracyLevel |-> accuracyLevel(fixCriteria.preferred_accuracy),
         applicationId |-> <<fixCriteria.credentials, fixCriteria.provider>>]
  IN  [field \in given |-> fields[field]]

stop_msg == [sessionId |-> LOC_API_V02_DEF_SESSION_ID]

-----------------------------------------------------------------------------
(* What the methods return.  An answer has a status and the fields that are *)
(* valid; NoAnswer stands for the indication of a call that got none.       *)

NoAnswer == [status |-> "GENERAL_FAILURE", fields |-> <<>>]

ClientStatuses ==
  {"SUCCESS", "GENERAL", "UNSUPPORTED", "INVALID_PARAMETER", "ENGINE_BUSY",
   "PHONE_OFFLINE", "TIMEOUT", "INVALID_HANDLE", "SERVICE_NOT_PRESENT",
   "INTERNAL"}

convertErr(status) ==
  IF status = "GENERAL" THEN "GENERAL_FAILURE"
  ELSE IF status \in ClientStatuses THEN status ELSE "FAILURE"

Succeeded_NoStatus(status, answer) == status = "SUCCESS"

Succeeded(status, answer) ==
  status = "SUCCESS" /\ answer.status = "SUCCESS"

Has(answer, names) == names \subseteq DOMAIN answer.fields

\* Methods not named here do not look at the status of the indication.
Result(method, status, answer) ==
  LET ok == Succeeded(status, answer)
  IN  CASE method = "setGpsLock" -> IF ok THEN 0 ELSE -1
        [] method = "getGpsLock" ->
             IF ok /\ Has(answer, {"lockType"}) THEN answer.fields.lockType ELSE -1
        [] method = "setXtraVersionCheck" ->
             IF ok THEN "SUCCESS" ELSE "GENERAL_FAILURE"
        [] method = "getWwanZppFix" ->
             IF ok /\ Has(answer, {"latitude", "longitude", "horUncCircular"})
             THEN "SUCCESS" ELSE "GENERAL_FAILURE"
        [] OTHER -> convertErr(status)

\* Fields of an answer that set a flag of the location.
ZppFlags(method) ==
  IF method = "getWwanZppFix"
  THEN [altitudeWrtEllipsoid |-> "HAS_ALTITUDE"]
  ELSE [altitudeWrtEllipsoid |-> "HAS_ALTITUDE",
        horSpeed             |-> "HAS_SPEED",
        heading              |-> "HAS_BEARING"]

\* The flags of the location that getWwanZppFix and getBestAvailableZppFix
\* fill in: none without a horizontal position and its uncertainty.
Location(method, status, answer) ==
  IF /\ method \in {"getWwanZppFix", "getBestAvailableZppFix"}
     /\ Succeeded(status, answer)
     /\ Has(answer, {"latitude", "longitude", "horUncCircular"})
  THEN LET flag == ZppFlags(method)
       IN  {"HAS_LAT_LONG", "HAS_ACCURACY"} \cup
           {flag[f] : f \in DOMAIN flag \cap DOMAIN answer.fields}
  ELSE {}
=============================================================================
