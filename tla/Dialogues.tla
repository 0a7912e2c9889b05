----------------------------- MODULE Dialogues -----------------------------
(***************************************************************************)
(* LocApiV02 and the client in their dialogue with the location service.   *)
(* The adapters' thread calls one method after the other and waits for the *)
(* indication that answers it; the callback thread takes indications in    *)
(* the order of their arrival, hands answers to the waiting call and       *)
(* reports events, and keeps a copy of a request to the user until an      *)
(* adapter answers it.  The client is open and its registration constant:  *)
(* LocApiSession and LocClient are about that.  The slots of               *)
(* loc_api_sync_req.c are the subject of LocSyncReq; here one call waits   *)
(* at a time, and takes the first indication of its kind.                  *)
(***************************************************************************)
EXTENDS Integers, Sequences, FiniteSets, ClientMessages, LocationService, Requests,
        Reports

CONSTANTS
  Blocks,       \* addresses malloc may return
  Registered,   \* mask bits of the registered events
  FlagSets,     \* sets of flags given to deleteAidingData
  SvReports,    \* GNSS_SV_INFO indications
  NiRequests,   \* NI_NOTIFY_VERIFY_REQ indications, told apart by their id
  MaxInputs     \* bound: calls and events

ASSUME DialoguesAssumption ==
  /\ \A report \in SvReports : EventGnssSvInfoInd(report)
  /\ \A request \in NiRequests : EventNiNotifyVerifyReqInd(request)

VARIABLES
  call,    \* the call that waits for its indication, or NoCall
  inbox,   \* requests the service has accepted and not answered
  wire,    \* indications on their way to the callback thread
  store,   \* the settings of the service that callers rely on
  heap,    \* blocks: are they allocated, and the NI request they hold
  notes,   \* requests to the user that the adapter has not answered
  lost,    \* kinds of answers dropped for lack of memory since the last call
  ret,     \* what the last step returned to an adapter
  told,    \* what the last step reported to the adapters
  inputs   \* calls and events so far, but for answers to the user

service == <<inbox, wire, store>>
vars == <<call, service, heap, notes, lost, ret, told, inputs>>

NoCall   == [by |-> "none", arg |-> "none", msg |-> "none", fields |-> <<>>]
NoReturn == [by |-> "none", arg |-> "none", value |-> 0, location |-> {}]

\* What a block holds that no NI request was copied to.
NoRequest == [id |-> 0, valid |-> {}, notificationType |-> "NONE"]

Init ==
  /\ call = NoCall
  /\ inbox = <<>> /\ wire = <<>>
  /\ store = [lockType |-> 1, xtraVersionCheckMode |-> "DISABLE"]
  /\ heap = [b \in Blocks |-> [used |-> FALSE, holds |-> NoRequest]]
  /\ notes = {}
  /\ lost = {}
  /\ ret = NoReturn /\ told = <<>>
  /\ inputs = 0

Input == inputs < MaxInputs /\ inputs' = inputs + 1

-----------------------------------------------------------------------------
(* The adapters' thread: loc_sync_send_req *)

Returns(c, status, answer) ==
  ret' = [by |-> c.by, arg |-> c.arg, value |-> Result(c.by, status, answer),
          location |-> Location(c.by, status, answer)]

Message(c) ==
  [by |-> c.by, arg |-> c.arg, msg |-> c.msg, fields |-> Payload(c.msg, c.fields)]

\* How a request may end that the service has not accepted.
Failures == {SendErrorStatus(rc) : rc \in {"SERVICE_ERR", "OTHER"}}
            \cup {convertQmiResponseToLocStatus(error) : error \in Refusals}

\* The request is accepted; or it is refused, or its response lost, with the
\* request delivered or not.
SendReq(c) ==
  \/ /\ validateRequest(c.msg)
     /\ inbox' = Append(inbox, Message(c))
     /\ call' = Message(c)
     /\ ret' = NoReturn
  \/ \E status \in IF validateRequest(c.msg) THEN Failures
                   ELSE {"INVALID_PARAMETER"} :
       /\ Returns(c, status, NoAnswer)
       /\ inbox' \in {inbox} \cup IF status = "INTERNAL"
                                  THEN {Append(inbox, Message(c))} ELSE {}
       /\ UNCHANGED call

\* One call of a method; some return at once.
Ask(c) ==
  /\ call.by = "none"
  /\ told' = <<>> /\ lost' = {}
  /\ IF c.refused = "no"
     THEN SendReq(c)
     ELSE /\ ret' = [NoReturn EXCEPT !.by = c.by, !.arg = c.arg,
                                     !.value = c.refused]
          /\ UNCHANGED <<call, inbox>>
  /\ UNCHANGED <<wire, store>>

Timeout ==
  /\ call.by # "none"
  /\ Returns(call, "TIMEOUT", NoAnswer)
  /\ call' = NoCall
  /\ told' = <<>>
  /\ UNCHANGED <<service, heap, notes, lost, inputs>>

Inject ==
  \/ \E timeReference \in {3, 7} : Ask(setTime(100, timeReference, 5, 7))
  \/ \E accuracy \in {50, 1000, 2000} : Ask(injectPosition(1, 2, accuracy))

Delete == \E f \in FlagSets : Ask(deleteAidingData(f))

Servers ==
  \/ \E len \in {0, 255, 256, 257} :
       Ask(setServerUrl("url", len, QMI_LOC_MAX_SERVER_ADDR_LENGTH + 1))
  \/ \E type \in {"MPC_SERVER", "CUSTOM_PDE_SERVER", "SUPL_SERVER"} :
       Ask(setServer(1, 7275, type))
  \/ Ask(requestXtraServer)

Connections ==
  \E is_succ \in BOOLEAN :
    \/ \E bear \in {"INVALID", "IPV4", "OTHER"} :
         Ask(atlOpenStatus(1, is_succ, "apn", bear))
    \/ Ask(atlCloseStatus(1, is_succ))

\* Values the service knows, and values it does not.
Configure ==
  \/ \E version \in {2 * 2^16, 2^16} : Ask(setSUPLVersion(version))
  \/ \E profile \in {3, 4} : Ask(setLPPConfig(profile))
  \/ \E protocols \in {4, 16} : Ask(setAGLONASSProtocol(protocols))
  \/ \E provider \in {1, 2} : Ask(setSensorControlConfig(0, provider))
  \/ \E given \in SUBSET {"gyroBias", "rateBias"} :
       Ask(setSensorProperties([w \in given |-> 1]))
  \/ \E mode \in {1, 2}, algorithm \in {1, 2} :
       Ask(setSensorPerfControlConfig(mode, <<1, 2>>, <<3, 4>>, <<5, 6>>, <<7, 8>>,
                                      algorithm))
  \/ \E charging \in {0, 1, 2} : Ask(setExtPowerConfig(charging))

Lock == Ask(getGpsLock) \/ \E lock \in LockTypes \cup {0, 5} : Ask(setGpsLock(lock))

XtraVersion == \E check \in {"XTRA3", "OTHER"} : Ask(setXtraVersionCheck(check))

Positions == Ask(getWwanZppFix) \/ Ask(getBestAvailableZppFix)

\* The methods that leave the notifications to the user alone.
Methods ==
  /\ Input
  /\ \/ Inject \/ Delete \/ Servers \/ Connections \/ Configure
     \/ Lock \/ XtraVersion \/ Positions
  /\ UNCHANGED <<heap, notes>>

\* An adapter answers a request to the user and frees the copy it was given.
AnswerUser ==
  \E note \in notes, userResponse \in {"ACCEPT", "NORESP", "OTHER"} :
    /\ Ask(informNiResponse(userResponse, note.request, heap[note.ptr].holds))
    /\ heap' = [heap EXCEPT ![note.ptr].used = FALSE]
    /\ notes' = notes \ {note}
    /\ UNCHANGED inputs

-----------------------------------------------------------------------------
(* The location service *)

ServerLists ==
  {[n \in 1 .. len |-> <<"server", n>>] :
     len \in 0 .. QMI_LOC_MAX_PREDICTED_ORBITS_SERVERS}

\* Of the fields that may be valid, those that the methods look for.
PositionFields ==
  {{}, {"latitude", "longitude"}, {"latitude", "longitude", "horUncCircular"},
   {"latitude", "longitude", "horUncCircular", "altitudeWrtEllipsoid", "horSpeed"}}

\* Fields of the answer to a request that succeeds.
Answers(msg) ==
  CASE msg = "GET_ENGINE_LOCK" -> {<<>>, [lockType |-> store.lockType]}
    [] msg = "GET_PREDICTED_ORBITS_DATA_SOURCE" ->
         {<<>>} \cup {[serverList |-> list] : list \in ServerLists}
    [] msg = "GET_AVAILABLE_WWAN_POSITION" ->
         {[f \in valid \cap GetAvailWwanPositionInd |-> 1] : valid \in PositionFields}
    [] msg = "GET_BEST_AVAILABLE_POSITION" ->
         {[f \in valid \cap GetBestAvailablePositionInd |-> 1] :
            valid \in PositionFields}
    [] OTHER -> {<<>>}

Stored(fields) ==
  [s \in DOMAIN store |-> IF s \in DOMAIN fields THEN fields[s] ELSE store[s]]

Serve ==
  /\ inbox # <<>>
  /\ inbox' = Tail(inbox)
  /\ LET m == Head(inbox)
     IN  \/ \E fields \in Answers(m.msg) :
              /\ wire' = Append(wire, [ind |-> m.msg, status |-> "SUCCESS",
                                       fields |-> fields])
              /\ store' = Stored(m.fields)
         \/ /\ wire' = Append(wire, [ind |-> m.msg, status |-> "GENERAL_FAILURE",
                                     fields |-> <<>>])
            /\ UNCHANGED store
  /\ ret' = NoReturn /\ told' = <<>>
  /\ UNCHANGED <<call, heap, notes, lost, inputs>>

Event(event, payload) ==
  /\ Input
  /\ wire' = Append(wire, [ind |-> event, status |-> "SUCCESS", fields |-> payload])
  /\ ret' = NoReturn /\ told' = <<>>
  /\ UNCHANGED <<call, inbox, store, heap, notes, lost>>

Position(status, valid, atZero) ==
  [sessionStatus |-> status, valid |-> valid, atZero |-> atZero]

\* Events with what they carry; one that nobody registered for, and one that
\* the client does not know.
Events ==
  \/ \E status \in SessionStatuses, atZero \in BOOLEAN :
       Event("POSITION_REPORT",
             Position(status, {"latitude", "longitude", "heading"}, atZero))
  \/ \E report \in SvReports : Event("GNSS_SV_INFO", report)
  \/ \E request \in NiRequests : Event("NI_NOTIFY_VERIFY_REQ", request)
  \/ \E state \in EngineStates \cup {"OTHER"} : Event("ENGINE_STATE", state)
  \/ \E list \in ServerLists : Event("INJECT_PREDICTED_ORBITS_REQ", list)
  \/ \E state \in FixSessionStates : Event("FIX_SESSION_STATE", state)
  \/ \E type \in ServerRequests, wwan \in WwanTypes :
       Event("LOCATION_SERVER_CONNECTION_REQ",
             [requestType |-> type, wwanType |-> wwan, connHandle |-> 1])
  \/ \E event \in {"NMEA", "INJECT_TIME_REQ", "INJECT_POSITION_REQ", "WIFI_REQ",
                   "GET_SERVER", "UNKNOWN"} :
       Event(event, <<>>)

-----------------------------------------------------------------------------
(* The callback thread: locClientIndCb *)

Free == {b \in Blocks : ~heap[b].used}

\* The indication at hand.
Ind == Head(wire)
IndType == locClientGetSizeAndTypeByIndId(Ind.ind)

Wanted ==
  \/ IndType = "resp"
  \/ IndType = "event" /\ isClientRegisteredForEvent(Registered, Ind.ind)

NextInd ==
  /\ wire # <<>>
  /\ wire' = Tail(wire)
  /\ UNCHANGED <<inbox, store, inputs>>

\* An indication is not known or not registered for, or there is no memory to
\* decode it to, or it is one that nothing is known of but its size.
DropInd ==
  /\ NextInd
  /\ \/ ~Wanted /\ UNCHANGED lost
     \/ Wanted /\ lost' = IF IndType = "resp" THEN lost \cup {Ind.ind} ELSE lost
     \/ Wanted /\ ~locClientHandleIndication(Ind.ind) /\ UNCHANGED lost
  /\ ret' = NoReturn /\ told' = <<>>
  /\ UNCHANGED <<call, heap, notes>>

\* globalRespCb: the answer goes to the call that waits for its kind, if one
\* does.  requestXtraServer reports the servers of a list that is not empty.
TakeAnswer ==
  /\ NextInd
  /\ IndType = "resp" /\ locClientHandleIndication(Ind.ind)
  /\ IF call.msg # Ind.ind
     THEN ret' = NoReturn /\ told' = <<>> /\ UNCHANGED call
     ELSE /\ call' = NoCall
          /\ Returns(call, "SUCCESS", Ind)
          /\ told' = IF /\ call.by = "requestXtraServer"
                        /\ Succeeded("SUCCESS", Ind) /\ Has(Ind, {"serverList"})
                        /\ Ind.fields.serverList # <<>>
                     THEN XtraServers(Ind.fields.serverList) ELSE <<>>
  /\ UNCHANGED <<heap, notes, lost>>

\* globalEventCb: the buffer b is allocated, written, and freed on return.
EventAt(b) ==
  /\ NextInd
  /\ IndType = "event" /\ Wanted /\ locClientHandleIndication(Ind.ind)
  /\ b \in Free
  /\ ret' = NoReturn
  /\ UNCHANGED <<call, lost>>

TakeEvent ==
  /\ \E b \in Blocks :
       /\ EventAt(b) /\ Ind.ind # "NI_NOTIFY_VERIFY_REQ"
       /\ heap' = [heap EXCEPT ![b].holds = NoRequest]
  /\ told' = eventCb(Ind.ind, Ind.fields)
  /\ UNCHANGED notes

NiType(req) ==
  IF "Vx" \in req.valid THEN "VOICE"
  ELSE IF "UmtsCp" \in req.valid THEN "UMTS_CTRL_PLANE"
  ELSE IF "Supl" \in req.valid
       THEN IF "Emergency" \in req.valid THEN "EMERGENCY_SUPL" ELSE "UMTS_SUPL"
  ELSE "unknown"

\* The flags of the notification, and the answer when the user gives none.
convertNiNotifyVerifyType(type) ==
  CASE type = "NOTIFY_ONLY"             -> [flags |-> {"NOTIFY"}, default |-> "NORESP"]
    [] type = "NOTIFY_VERIFY_ALLOW_NO_RESP" ->
         [flags |-> {"NOTIFY", "VERIFY"}, default |-> "ACCEPT"]
    [] type = "NOTIFY_VERIFY_NOT_ALLOW_NO_RESP" ->
         [flags |-> {"NOTIFY", "VERIFY"}, default |-> "DENY"]
    [] type = "NOTIFY_VERIFY_PRIVACY_OVERRIDE" ->
         [flags |-> {"PRIVACY_OVERRIDE"}, default |-> "NORESP"]
    [] OTHER                            -> [flags |-> {}, default |-> "NORESP"]

Notify(req, ptr) ==
  /\ notes' = notes \cup {[request |-> req, ptr |-> ptr]}
  /\ told' = Report("request_ni", <<NiType(req), req.id,
                                    convertNiNotifyVerifyType(req.notificationType)>>)

reportNiRequest_NoCopy(b, req) ==
  /\ NiType(req) # "unknown"
  /\ heap' = [heap EXCEPT ![b].holds = req]
  /\ Notify(req, b)

\* The adapter gets a copy of the request in b, to be passed back with the
\* answer.
reportNiRequest(b, req) ==
  \/ /\ NiType(req) # "unknown"
     /\ \E copy \in Free \ {b} :
          /\ heap' = [heap EXCEPT ![b].holds = req,
                                  ![copy] = [used |-> TRUE, holds |-> req]]
          /\ Notify(req, copy)
  \/ \* An unknown kind of request, or no memory for the copy
     /\ heap' = [heap EXCEPT ![b].holds = req]
     /\ told' = <<>>
     /\ UNCHANGED notes

TakeNiRequest ==
  \E b \in Blocks :
    /\ EventAt(b) /\ Ind.ind = "NI_NOTIFY_VERIFY_REQ"
    /\ reportNiRequest(b, Ind.fields)

CallbackThread == DropInd \/ TakeAnswer \/ TakeEvent \/ TakeNiRequest

-----------------------------------------------------------------------------
Next == Methods \/ AnswerUser \/ Timeout \/ Serve \/ Events \/ CallbackThread

Spec == Init /\ [][Next]_vars

-----------------------------------------------------------------------------
\* An answer of the user carries back what the service sent with the request
\* the user was asked about, and not another request: the copy the adapter
\* holds outlives the buffer of the indication and later indications.
NiAnswerMatches ==
  \A n \in DOMAIN inbox :
    LET m == inbox[n]
    IN  m.msg = "NI_USER_RESPONSE" =>
          /\ m.fields.notificationType = m.arg.notificationType
          /\ m.fields.payload = [part \in m.arg.valid |-> <<m.arg.id, part>>]

\* deleteAidingData deletes what its flags ask for, for every satellite of each
\* system they name and of no other, though two systems share an array.
DeletesWhatWasAsked ==
  \A n \in DOMAIN inbox :
    inbox[n].by = "deleteAidingData" =>
      Deleted(inbox[n].fields) = AskedFor(inbox[n].arg)

\* Four methods pass on unchecked what the caller gave them; the others look at
\* it, or write a value of their own.
ArgumentsInRange(m) ==
  /\ m.by = "setGpsLock" => m.arg \in LockTypes
  /\ m.by = "setLPPConfig" => m.arg \in LppConfigs
  /\ m.by = "setAGLONASSProtocol" => m.arg \in AssistedGlonassProtocols
  /\ m.by = "setSensorPerfControlConfig" =>
       m.arg[1] \in SensorPerformanceControlModes /\ m.arg[2] \in SensorAlgorithms

\* A request that reaches the service is a message of its interface, with the
\* fields the service insists on and no others, and in its enumerated fields and
\* masks what the header knows, unless the caller of one of the four methods gave
\* it a value that the header does not know: then it is not.
RequestsWellFormed ==
  \A n \in DOMAIN inbox :
    WellFormed(inbox[n].msg, inbox[n].fields) <=> ArgumentsInRange(inbox[n])

\* Two satellites of a report never get the same number, none that has a number
\* is left out, and the masks are about GPS satellites of the report.
Faithful(report, status) ==
  LET named == {sv \in {LookedAt(report)[n] : n \in DOMAIN LookedAt(report)} :
                  Identified(sv) /\ Supported(sv)}
      prns == {status.sv_list[n].prn : n \in DOMAIN status.sv_list} \ {0}
  IN  /\ Cardinality(prns)
           = Cardinality({<<sv.system, sv.gnssSvId>> : sv \in named})
      /\ status.ephemeris_mask \cup status.almanac_mask \cup
           status.used_in_fix_mask
           \subseteq {sv.gnssSvId - 1 : sv \in {g \in named : g.system = "GPS"}}

\* What the adapters are told of the satellites is true to the indication.
SvReportIsFaithful ==
  [][TakeEvent /\ Ind.ind = "GNSS_SV_INFO" =>
       Faithful(Ind.fields, told'[1].what)]_vars

OnTheWay(msg) ==
  \/ \E n \in DOMAIN inbox : inbox[n].msg = msg
  \/ \E n \in DOMAIN wire : wire[n].ind = msg

\* Success of the methods that look at the status of the indication means that
\* the service has the setting, and a lock that was read is the one it has: but
\* for a call that took the late answer to an earlier one of its kind, whose
\* own is then still on its way.
SuccessMeansDone ==
  /\ (ret.by = "setGpsLock" /\ ret.value = 0 /\ ~OnTheWay("SET_ENGINE_LOCK"))
       => store.lockType = ret.arg
  /\ (ret.by = "getGpsLock" /\ ret.value # -1 /\ ~OnTheWay("GET_ENGINE_LOCK"))
       => store.lockType = ret.value
  /\ (/\ ret.by = "setXtraVersionCheck" /\ ret.value = "SUCCESS"
      /\ ~OnTheWay("SET_XTRA_VERSION_CHECK"))
       => store.xtraVersionCheckMode = ModeOf(ret.arg)

\* A call waits only for what can still come: the client takes every answer
\* that a method of LocApiV02 waits for, unless memory is short.
AnswersReachCallers ==
  call.by # "none" => OnTheWay(call.msg) \/ call.msg \in lost
=============================================================================
