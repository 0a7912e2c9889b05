-------------------------- MODULE DialoguesProofs --------------------------
(***************************************************************************)
(* Theorems about Dialogues, for any blocks, registrations, indications    *)
(* and sets of flags: every call waits for an answer that can still come,  *)
(* and the service is sent what the caller meant, whether it deletes data  *)
(* or answers a request of the network.                                    *)
(***************************************************************************)
EXTENDS Dialogues, TLAPS

\* A sequence, of whatever elements.
IsSeq(s) ==
  /\ Len(s) \in Nat
  /\ s = [n \in 1 .. Len(s) |-> s[n]]

\* Sequences in the sense of the library are sequences, and back.
LEMMA SeqIsSeq ==
  ASSUME NEW S, NEW s \in Seq(S)
  PROVE  IsSeq(s)
<1>1. Len(s) \in Nat /\ DOMAIN s = 1 .. Len(s)
  OBVIOUS
<1>2. s = [n \in DOMAIN s |-> s[n]]
  OBVIOUS
<1> QED
  BY <1>1, <1>2 DEF IsSeq

LEMMA IsSeqInSeq ==
  ASSUME NEW s, IsSeq(s), NEW S, \A n \in 1 .. Len(s) : s[n] \in S
  PROVE  s \in Seq(S)
  BY DEF IsSeq

\* Appending keeps the elements and adds one at the end.
LEMMA AppendIs ==
  ASSUME NEW s, NEW e, IsSeq(s)
  PROVE  /\ IsSeq(Append(s, e))
         /\ DOMAIN Append(s, e) = 1 .. Len(s) + 1
         /\ \A n \in DOMAIN s : Append(s, e)[n] = s[n]
         /\ Append(s, e)[Len(s) + 1] = e
         /\ DOMAIN s = 1 .. Len(s)
<1> DEFINE S == {s[n] : n \in 1 .. Len(s)} \cup {e}
<1>1. s \in Seq(S) /\ e \in S
  BY IsSeqInSeq
<1> HIDE DEF S
<1>2. Append(s, e) \in Seq(S) /\ Len(Append(s, e)) = Len(s) + 1
  BY <1>1
<1>3. DOMAIN s = 1 .. Len(s) /\ DOMAIN Append(s, e) = 1 .. Len(s) + 1
  BY <1>1, <1>2
<1>4. \A n \in DOMAIN s : Append(s, e)[n] = s[n]
  BY <1>1
<1>5. Append(s, e)[Len(s) + 1] = e
  BY <1>1
<1>6. IsSeq(Append(s, e))
  BY <1>2, SeqIsSeq
<1> QED
  BY <1>3, <1>4, <1>5, <1>6

\* Taking the head off moves the other elements down by one.
LEMMA TailIs ==
  ASSUME NEW s, IsSeq(s), s # <<>>
  PROVE  /\ IsSeq(Tail(s))
         /\ DOMAIN Tail(s) = 1 .. Len(s) - 1
         /\ DOMAIN s = 1 .. Len(s)
         /\ Len(s) \in Nat \ {0}
         /\ Head(s) = s[1]
         /\ \A n \in 1 .. Len(s) - 1 : Tail(s)[n] = s[n + 1]
<1> DEFINE S == {s[n] : n \in 1 .. Len(s)}
<1>1. s \in Seq(S)
  BY IsSeqInSeq
<1> HIDE DEF S
<1>2. Len(s) \in Nat \ {0} /\ DOMAIN s = 1 .. Len(s) /\ Head(s) = s[1]
  BY <1>1
<1>3. Tail(s) \in Seq(S) /\ Len(Tail(s)) = Len(s) - 1
  BY <1>1
<1>4. \A n \in 1 .. Len(s) - 1 : Tail(s)[n] = s[n + 1]
  BY <1>1, <1>2
<1>5. DOMAIN Tail(s) = 1 .. Len(s) - 1
  BY <1>3
<1>6. IsSeq(Tail(s))
  BY <1>3, SeqIsSeq
<1> QED
  BY <1>2, <1>4, <1>5, <1>6

-----------------------------------------------------------------------------
(* The messages *)

\* The messages that methods of LocApiV02 wait for.
Awaited ==
  {"INJECT_UTC_TIME", "INJECT_POSITION", "DELETE_ASSIST_DATA",
   "NI_USER_RESPONSE", "SET_SERVER", "GET_PREDICTED_ORBITS_DATA_SOURCE",
   "INFORM_LOCATION_SERVER_CONN_STATUS", "SET_PROTOCOL_CONFIG_PARAMETERS",
   "SET_SENSOR_CONTROL_CONFIG", "SET_SENSOR_PROPERTIES",
   "SET_SENSOR_PERFORMANCE_CONTROL_CONFIGURATION", "SET_EXTERNAL_POWER_CONFIG",
   "SET_ENGINE_LOCK", "GET_ENGINE_LOCK", "SET_XTRA_VERSION_CHECK",
   "GET_AVAILABLE_WWAN_POSITION", "GET_BEST_AVAILABLE_POSITION"}

\* The client knows the answers to all of them, and takes none for an event.
LEMMA AwaitedAreTaken ==
  ASSUME NEW msg \in Awaited
  PROVE  /\ validateRequest(msg)
         /\ locClientGetSizeAndTypeByIndId(msg) = "resp"
         /\ locClientHandleIndication(msg)
<1>1. msg \in RespInds
  BY DEF Awaited, RespInds, SettingsInds, ServicesInds
<1>2. msg \notin EventInds
  BY DEF Awaited, EventInds
<1>3. msg \notin NotHandled
  BY DEF Awaited, NotHandled
<1>4. msg \in WithPayload \cup WithoutPayload
  BY DEF Awaited, WithPayload, SettingsReqs, ServicesReqs, BatchingReqs,
    WithoutPayload
<1> QED
  BY <1>1, <1>2, <1>3, <1>4
  DEF validateRequest, locClientGetSizeAndTypeByIndId, locClientHandleIndication,
    HandlesAnswer

\* The methods that look at the status of the indication and change, or read,
\* a setting of the service.
Checked == {"setGpsLock", "getGpsLock", "setXtraVersionCheck"}

\* What they ask the service for.
SettingOK(m) ==
  /\ m.by = "setGpsLock" =>
       m.msg = "SET_ENGINE_LOCK" /\ m.fields = [lockType |-> m.arg]
  /\ m.by = "getGpsLock" =>
       m.msg = "GET_ENGINE_LOCK" /\ m.fields = <<>>
  /\ m.by = "setXtraVersionCheck" =>
       /\ m.msg = "SET_XTRA_VERSION_CHECK"
       /\ m.fields = [xtraVersionCheckMode |-> ModeOf(m.arg)]

\* A request says what its caller means.
Meant(m) ==
  /\ m.msg \in Awaited
  /\ SettingOK(m)
  /\ m.msg = "NI_USER_RESPONSE" =>
       /\ m.fields.notificationType = m.arg.notificationType
       /\ m.fields.payload = [part \in m.arg.valid |-> <<m.arg.id, part>>]
  /\ m.by = "deleteAidingData" => Deleted(m.fields) = AskedFor(m.arg)

\* What holds of every request on its way.
MessageOK(m) == Meant(m) /\ (WellFormed(m.msg, m.fields) <=> ArgumentsInRange(m))

\* A call of a method, unless it is refused, leads to a message that is meant,
Sends(c) ==
  /\ c.refused # "no" => c.by \notin Checked
  /\ c.refused = "no" =>
       /\ c.by # "none"
       /\ Meant(Message(c)) /\ Message(c).msg = c.msg
       /\ Message(c).by = c.by

\* and that is one of the interface of the service, if the arguments are values
\* that the interface knows.
Fits(c) ==
  c.refused = "no" =>
    (WellFormed(c.msg, Payload(c.msg, c.fields)) <=> ArgumentsInRange(c))

CallOK(c) == Sends(c) /\ Fits(c)

LEMMA SendsMessage ==
  ASSUME NEW c, CallOK(c), c.refused = "no"
  PROVE  MessageOK(Message(c))
BY DEF CallOK, Sends, Fits, MessageOK, Message, ArgumentsInRange

-----------------------------------------------------------------------------
(* deleteAidingData *)

\* The satellites of the first array: the block for GPS, when it is there,
\* comes before that for GLONASS, which starts with its own first number.
LEMMA SharedArray ==
  ASSUME NEW f
  PROVE  SvData(SvInfoList(f))
           = {item \in ({"GPS"} \X (1 .. SV_ID_RANGE) \X Data)
                \cup ({"GLONASS"} \X (65 .. 64 + SV_ID_RANGE) \X Data) :
                FlagOf(item[1], item[3]) \in f}
<1> USE AidingAssumption
<1> DEFINE G == IF GpsMask(f) # {} THEN SV_ID_RANGE ELSE 0
           L == IF GloMask(f) # {} THEN SV_ID_RANGE ELSE 0
           Item(i, d) == IF i < G THEN <<"GPS", 1 + i, d>>
                         ELSE <<"GLONASS", 65 + (i - G), d>>
           MaskAt(i) == IF i < G THEN GpsMask(f) ELSE GloMask(f)
<1>0. G \in Nat /\ L \in Nat /\ GpsLen(f) = G /\ SvLen(f) = G + L
  BY DEF GpsLen, SvLen
<1>1. ASSUME NEW x
      PROVE  x \in SvData(SvInfoList(f)) <=>
               \E i \in 0 .. G + L - 1 : \E d \in MaskAt(i) : x = Item(i, d)
  <2>1. DOMAIN SvInfoList(f) = 0 .. G + L - 1
    BY <1>0 DEF SvInfoList
  <2>2. ASSUME NEW i \in 0 .. G + L - 1
        PROVE  /\ SvInfoList(f)[i].mask = MaskAt(i)
               /\ \A d : <<SvInfoList(f)[i].system, SvInfoList(f)[i].id, d>>
                         = Item(i, d)
    <3>1. CASE i < G
      <4>1. SvInfoList(f)[i] = [system |-> "GPS", id |-> 1 + i,
                                mask |-> GpsMask(f)]
        BY <1>0, <3>1 DEF SvInfoList, GPS_SV_ID_OFFSET
      <4> QED
        BY <4>1, <3>1
    <3>2. CASE ~(i < G)
      <4>1. SvInfoList(f)[i] = [system |-> "GLONASS", id |-> 65 + (i - G),
                                mask |-> GloMask(f)]
        BY <1>0, <3>2 DEF SvInfoList, GloId, GLONASS_SV_ID_OFFSET
      <4> QED
        BY <4>1, <3>2
    <3> QED
      BY <3>1, <3>2
  <2> HIDE DEF Item, MaskAt, G, L
  <2>3. x \in SvData(SvInfoList(f)) <=>
          \E i \in 0 .. G + L - 1 : \E d \in SvInfoList(f)[i].mask :
            x = <<SvInfoList(f)[i].system, SvInfoList(f)[i].id, d>>
    BY <2>1 DEF SvData
  <2> QED
    BY <2>2, <2>3, Zenon
<1>2. /\ \A d : d \in GpsMask(f) <=> d \in Data /\ FlagOf("GPS", d) \in f
      /\ \A d : d \in GloMask(f) <=> d \in Data /\ FlagOf("GLONASS", d) \in f
  BY DEF GpsMask, GloMask, Chosen, Data, FlagOf
<1> DEFINE Right == {item \in ({"GPS"} \X (1 .. SV_ID_RANGE) \X Data)
                \cup ({"GLONASS"} \X (65 .. 64 + SV_ID_RANGE) \X Data) :
                FlagOf(item[1], item[3]) \in f}
<1>3. ASSUME NEW i \in 0 .. G + L - 1, NEW d \in MaskAt(i)
      PROVE  Item(i, d) \in Right
  <2>1. CASE i < G
    <3>1. d \in Data /\ FlagOf("GPS", d) \in f /\ 1 + i \in 1 .. SV_ID_RANGE
      BY <1>2, <2>1, <1>0
    <3> QED
      BY <3>1, <2>1
  <2>2. CASE ~(i < G)
    <3>1. d \in Data /\ FlagOf("GLONASS", d) \in f
      BY <1>2, <2>2
    <3>2. L = SV_ID_RANGE
      BY <2>2
    <3>3. 65 + (i - G) \in 65 .. 64 + SV_ID_RANGE
      BY <3>2, <2>2, <1>0
    <3> QED
      BY <3>1, <3>3, <2>2
  <2> QED
    BY <2>1, <2>2
<1>4. ASSUME NEW item \in Right
      PROVE  \E i \in 0 .. G + L - 1 : \E d \in MaskAt(i) : item = Item(i, d)
  <2>1. CASE item[1] = "GPS"
    <3>1. PICK n \in 1 .. SV_ID_RANGE, d \in Data : item = <<"GPS", n, d>>
      BY <2>1
    <3>2. d \in GpsMask(f)
      BY <3>1, <1>2
    <3>3. G = SV_ID_RANGE
      BY <3>2
    <3>4. n - 1 \in 0 .. G + L - 1 /\ n - 1 < G
      BY <3>3, <1>0
    <3>5. item = Item(n - 1, d) /\ d \in MaskAt(n - 1)
      BY <3>1, <3>2, <3>4
    <3> QED
      BY <3>4, <3>5
  <2>2. CASE item[1] # "GPS"
    <3>1. PICK n \in 65 .. 64 + SV_ID_RANGE, d \in Data :
            item = <<"GLONASS", n, d>>
      BY <2>2
    <3>2. d \in GloMask(f)
      BY <3>1, <1>2
    <3>3. L = SV_ID_RANGE
      BY <3>2
    <3>4. G + (n - 65) \in 0 .. G + L - 1 /\ ~(G + (n - 65) < G)
      BY <3>3, <1>0
    <3>5. item = Item(G + (n - 65), d) /\ d \in MaskAt(G + (n - 65))
      BY <3>1, <3>2, <3>4, <1>0
    <3> QED
      BY <3>4, <3>5
  <2> QED
    BY <2>1, <2>2
<1> HIDE DEF Right, Item, MaskAt
<1>5. SvData(SvInfoList(f)) = Right
  BY <1>1, <1>3, <1>4
<1> QED
  BY <1>5 DEF Right

\* The satellites of the second array.
LEMMA BdsArray ==
  ASSUME NEW f
  PROVE  SvData(BdsSvInfoList(f))
           = {item \in {"BDS"} \X (201 .. 200 + BDS_SV_ID_RANGE) \X Data :
                FlagOf(item[1], item[3]) \in f}
<1> USE AidingAssumption
<1> DEFINE B == IF BdsMask(f) # {} THEN BDS_SV_ID_RANGE ELSE 0
           Right == {item \in {"BDS"} \X (201 .. 200 + BDS_SV_ID_RANGE) \X Data :
                       FlagOf(item[1], item[3]) \in f}
<1>1. ASSUME NEW x
      PROVE  x \in SvData(BdsSvInfoList(f)) <=>
               \E i \in 0 .. B - 1 : \E d \in BdsMask(f) : x = <<"BDS", 201 + i, d>>
  <2>1. DOMAIN BdsSvInfoList(f) = 0 .. B - 1
    BY DEF BdsSvInfoList
  <2>2. ASSUME NEW i \in 0 .. B - 1
        PROVE  /\ BdsSvInfoList(f)[i].mask = BdsMask(f)
               /\ BdsSvInfoList(f)[i].system = "BDS"
               /\ BdsSvInfoList(f)[i].id = 201 + i
    BY DEF BdsSvInfoList, BDS_SV_ID_OFFSET
  <2> HIDE DEF B
  <2>3. x \in SvData(BdsSvInfoList(f)) <=>
          \E i \in 0 .. B - 1 : \E d \in BdsSvInfoList(f)[i].mask :
            x = <<BdsSvInfoList(f)[i].system, BdsSvInfoList(f)[i].id, d>>
    BY <2>1 DEF SvData
  <2> QED
    BY <2>2, <2>3, Zenon
<1>2. \A d : d \in BdsMask(f) <=> d \in Data /\ FlagOf("BDS", d) \in f
  BY DEF BdsMask, Chosen, Data, FlagOf
<1>3. ASSUME NEW i \in 0 .. B - 1, NEW d \in BdsMask(f)
      PROVE  <<"BDS", 201 + i, d>> \in Right
  <2>1. 201 + i \in 201 .. 200 + BDS_SV_ID_RANGE
    OBVIOUS
  <2> QED
    BY <2>1, <1>2
<1>4. ASSUME NEW item \in Right
      PROVE  \E i \in 0 .. B - 1 : \E d \in BdsMask(f) : item = <<"BDS", 201 + i, d>>
  <2>1. PICK n \in 201 .. 200 + BDS_SV_ID_RANGE, d \in Data : item = <<"BDS", n, d>>
    OBVIOUS
  <2>2. d \in BdsMask(f)
    BY <2>1, <1>2
  <2>3. n - 201 \in 0 .. B - 1 /\ 201 + (n - 201) = n
    BY <2>2
  <2> QED
    BY <2>1, <2>2, <2>3
<1> HIDE DEF Right
<1>5. SvData(BdsSvInfoList(f)) = Right
  BY <1>1, <1>3, <1>4
<1> QED
  BY <1>5 DEF Right

\* The request deletes what the flags ask for, whatever flags are set and
\* however many satellites the systems have.
THEOREM DeletesAskedFor ==
  ASSUME NEW f
  PROVE  Deleted(DeleteRequest(f)) = AskedFor(f)
<1>1. CASE f = GPS_DELETE_ALL
  BY <1>1 DEF Deleted, DeleteRequest, AskedFor
<1>2. CASE f # GPS_DELETE_ALL
  <2>1. SvData(SvInfoList(f)) \cup SvData(BdsSvInfoList(f))
          = {item \in SvItems : FlagOf(item[1], item[3]) \in f}
    BY SharedArray, BdsArray DEF SvItems
  <2>2. /\ DeleteRequest(f).deleteAllFlag = FALSE
        /\ DeleteRequest(f).deleteSvInfoList = SvInfoList(f)
        /\ DeleteRequest(f).deleteBdsSvInfoList = BdsSvInfoList(f)
        /\ DeleteRequest(f).deleteGnssDataMask
             = {GnssData[d] : d \in f \cap DOMAIN GnssData}
        /\ DeleteRequest(f).deleteCellDbDataMask
             = IF "CELLDB_INFO" \in f THEN CellDb ELSE {}
    BY <1>2 DEF DeleteRequest
  <2> QED
    BY <1>2, <2>1, <2>2 DEF Deleted, AskedFor
<1> QED
  BY <1>1, <1>2

-----------------------------------------------------------------------------
(* The requests and the interface of the service *)

\* A request with a payload is sent with the fields that the method gives it.
LEMMA PayloadIsSent ==
  ASSUME NEW msg \in WithPayload, NEW m
  PROVE  Payload(msg, m) = m
BY DEF Payload

LEMMA TimeAndPositionFit ==
  /\ \A time, reference, uncertainty, now :
       Fits(setTime(time, reference, uncertainty, now))
  /\ \A latitude, longitude, accuracy :
       Fits(injectPosition(latitude, longitude, accuracy))
<1>1. {"INJECT_UTC_TIME", "INJECT_POSITION"} \subseteq WithPayload
  BY DEF WithPayload, SettingsReqs
<1>2. ASSUME NEW time, NEW reference, NEW uncertainty, NEW now
      PROVE  Fits(setTime(time, reference, uncertainty, now))
  BY <1>1, PayloadIsSent
  DEF Fits, ArgumentsInRange, setTime, Send, WellFormed, InjectUtcTimeReq, Carries
<1>3. ASSUME NEW latitude, NEW longitude, NEW accuracy
      PROVE  Fits(injectPosition(latitude, longitude, accuracy))
  BY <1>1, PayloadIsSent
  DEF Fits, ArgumentsInRange, injectPosition, Send, WellFormed, InjectPositionReq,
    Carries
<1> QED
  BY <1>2, <1>3

\* The entries of the two arrays are in the ranges that the service documents:
\* GPS and GLONASS have room for as many satellites in one array.
LEMMA DeletionFits ==
  ASSUME NEW f
  PROVE  Fits(deleteAidingData(f))
<1> USE AidingAssumption
<1> DEFINE m == DeleteRequest(f)
<1>1. "DELETE_ASSIST_DATA" \in WithPayload
  BY DEF WithPayload, SettingsReqs
<1>2. CASE f = GPS_DELETE_ALL
  <2>1. m = [deleteAllFlag |-> TRUE]
    BY <1>2 DEF DeleteRequest
  <2>2. DeleteAssistDataReq(m)
    BY <2>1 DEF DeleteAssistDataReq, Carries
  <2> QED
    BY <1>1, <2>2, PayloadIsSent
    DEF Fits, ArgumentsInRange, deleteAidingData, Send, WellFormed
<1>3. CASE f # GPS_DELETE_ALL
  <2>1. /\ DOMAIN m = {"deleteAllFlag", "deleteSvInfoList", "deleteBdsSvInfoList",
                       "deleteGnssDataMask", "deleteCellDbDataMask"}
        /\ m.deleteSvInfoList = SvInfoList(f)
        /\ m.deleteBdsSvInfoList = BdsSvInfoList(f)
        /\ m.deleteGnssDataMask = {GnssData[d] : d \in f \cap DOMAIN GnssData}
        /\ m.deleteCellDbDataMask \subseteq CellDb
    BY <1>3 DEF DeleteRequest
  <2> HIDE DEF m
  <2>2. ASSUME NEW i \in DOMAIN SvInfoList(f)
        PROVE  /\ i \in 0 .. QMI_LOC_DELETE_MAX_SV_INFO_LENGTH - 1
               /\ DeleteSvInfo(SvInfoList(f)[i])
    <3>1. /\ i \in 0 .. SvLen(f) - 1
          /\ GpsLen(f) \in {0, SV_ID_RANGE}
          /\ GloMask(f) = {} => SvLen(f) = GpsLen(f)
          /\ GloMask(f) # {} => SvLen(f) = GpsLen(f) + SV_ID_RANGE
      BY DEF SvInfoList, SvLen, GpsLen
    <3>2. GpsMask(f) \subseteq DeletableSvData /\ GloMask(f) \subseteq DeletableSvData
      BY DEF GpsMask, GloMask, Chosen, DeletableSvData
    <3>3. CASE i < GpsLen(f)
      <4>1. SvInfoList(f)[i] = [system |-> "GPS", id |-> 1 + i, mask |-> GpsMask(f)]
        BY <3>1, <3>3 DEF SvInfoList, GPS_SV_ID_OFFSET
      <4>2. GpsMask(f) # {}
        BY <3>1, <3>3 DEF GpsLen
      <4>3. 1 + i \in 1 .. 32 /\ i \in 0 .. 127
        BY <3>1, <3>3
      <4> QED
        BY <3>2, <4>1, <4>2, <4>3
        DEF DeleteSvInfo, QMI_LOC_DELETE_MAX_SV_INFO_LENGTH
    <3>4. CASE ~(i < GpsLen(f))
      <4>1. SvInfoList(f)[i] = [system |-> "GLONASS", id |-> 65 + (i - GpsLen(f)),
                                mask |-> GloMask(f)]
        BY <3>1, <3>4 DEF SvInfoList, GloId, GLONASS_SV_ID_OFFSET
      <4>2. GloMask(f) # {}
        BY <3>1, <3>4
      <4>3. 65 + (i - GpsLen(f)) \in 65 .. 96 /\ i \in 0 .. 127
        BY <3>1, <3>4
      <4> QED
        BY <3>2, <4>1, <4>2, <4>3
        DEF DeleteSvInfo, QMI_LOC_DELETE_MAX_SV_INFO_LENGTH
    <3> QED
      BY <3>3, <3>4
  <2>3. ASSUME NEW i \in DOMAIN BdsSvInfoList(f)
        PROVE  /\ i \in 0 .. QMI_LOC_DELETE_MAX_BDS_SV_INFO_LENGTH - 1
               /\ DeleteBDSSvInfo(BdsSvInfoList(f)[i])
    <3>1. BdsMask(f) # {} /\ i \in 0 .. BDS_SV_ID_RANGE - 1
      BY DEF BdsSvInfoList
    <3>2. BdsSvInfoList(f)[i] = [system |-> "BDS", id |-> 201 + i,
                                 mask |-> BdsMask(f)]
      BY <3>1 DEF BdsSvInfoList, BDS_SV_ID_OFFSET
    <3>3. BdsMask(f) \subseteq DeletableSvData
      BY DEF BdsMask, Chosen, DeletableSvData
    <3> QED
      BY <3>1, <3>2, <3>3
      DEF DeleteBDSSvInfo, QMI_LOC_DELETE_MAX_BDS_SV_INFO_LENGTH
  <2>4. {GnssData[d] : d \in f \cap DOMAIN GnssData} \subseteq DeletableGnssData
    BY DEF GnssData, DeletableGnssData
  <2>5. CellDb \subseteq DeletableCellData
    BY DEF CellDb, DeletableCellData
  <2>6. DeleteAssistDataReq(m)
    BY <2>1, <2>2, <2>3, <2>4, <2>5 DEF DeleteAssistDataReq, Carries
  <2> QED
    BY <1>1, <2>6, PayloadIsSent
    DEF Fits, ArgumentsInRange, deleteAidingData, Send, WellFormed, m
<1> QED
  BY <1>2, <1>3

LEMMA ServersFit ==
  /\ \A url : \A len \in Int :
       Fits(setServerUrl(url, len, QMI_LOC_MAX_SERVER_ADDR_LENGTH + 1))
  /\ \A ip, port, type : Fits(setServer(ip, port, type))
  /\ Fits(requestXtraServer)
<1>1. "SET_SERVER" \in WithPayload
      /\ "GET_PREDICTED_ORBITS_DATA_SOURCE" \notin WithPayload
  BY DEF WithPayload, SettingsReqs, ServicesReqs, BatchingReqs
<1>2. ASSUME NEW url, NEW len \in Int
      PROVE  Fits(setServerUrl(url, len, QMI_LOC_MAX_SERVER_ADDR_LENGTH + 1))
  BY <1>1, PayloadIsSent
  DEF Fits, ArgumentsInRange, setServerUrl, Send, Refuse, WellFormed, SetServerReq,
    Carries, ServerTypes,
    QMI_LOC_MAX_SERVER_ADDR_LENGTH
<1>3. ASSUME NEW ip, NEW port, NEW type
      PROVE  Fits(setServer(ip, port, type))
  BY <1>1, PayloadIsSent
  DEF Fits, ArgumentsInRange, setServer, Send, WellFormed, SetServerReq, Carries,
    ServerTypes
<1>4. Fits(requestXtraServer)
  BY <1>1
  DEF Fits, ArgumentsInRange, requestXtraServer, Send, Payload, WellFormed, Carries
<1> QED
  BY <1>2, <1>3, <1>4

\* The bearers that are refused are those the interface has no name for.
LEMMA ConnectionsFit ==
  \A handle : \A is_succ \in BOOLEAN :
    /\ \A apn, bear : Fits(atlOpenStatus(handle, is_succ, apn, bear))
    /\ Fits(atlCloseStatus(handle, is_succ))
<1>1. "INFORM_LOCATION_SERVER_CONN_STATUS" \in WithPayload
  BY DEF WithPayload, ServicesReqs
<1> USE DEF Fits, ArgumentsInRange, Send, Refuse, WellFormed,
  InformLocationServerConnStatusReq, Carries,
  ServerRequests, ServerReqStatuses, PdnTypes, ConnStatus
<1>2. ASSUME NEW handle, NEW is_succ \in BOOLEAN, NEW apn, NEW bear
      PROVE  Fits(atlOpenStatus(handle, is_succ, apn, bear))
  BY <1>1, PayloadIsSent DEF atlOpenStatus
<1>3. ASSUME NEW handle, NEW is_succ \in BOOLEAN
      PROVE  Fits(atlCloseStatus(handle, is_succ))
  BY <1>1, PayloadIsSent DEF atlCloseStatus
<1> HIDE DEF Fits
<1> QED
  BY <1>2, <1>3

LEMMA ConfigurationFits ==
  /\ \A x : /\ Fits(setSUPLVersion(x)) /\ Fits(setLPPConfig(x))
            /\ Fits(setAGLONASSProtocol(x))
  /\ \A x, y : Fits(setSensorControlConfig(x, y))
  /\ \A walks : DOMAIN walks \subseteq DOMAIN WalkField =>
       Fits(setSensorProperties(walks))
  /\ \A mode, accel, gyro, accelHigh, gyroHigh, algorithm :
       Fits(setSensorPerfControlConfig(mode, accel, gyro, accelHigh, gyroHigh,
                                       algorithm))
  /\ \A x : Fits(setExtPowerConfig(x))
<1>1. {"SET_PROTOCOL_CONFIG_PARAMETERS", "SET_SENSOR_CONTROL_CONFIG",
       "SET_SENSOR_PROPERTIES", "SET_SENSOR_PERFORMANCE_CONTROL_CONFIGURATION",
       "SET_EXTERNAL_POWER_CONFIG"} \subseteq WithPayload
  BY DEF WithPayload, SettingsReqs, ServicesReqs
<1> USE DEF Fits, ArgumentsInRange, Send, Refuse, WellFormed, Carries
<1>2. ASSUME NEW x
      PROVE  /\ Fits(setSUPLVersion(x)) /\ Fits(setLPPConfig(x))
             /\ Fits(setAGLONASSProtocol(x))
  BY <1>1, PayloadIsSent
  DEF setSUPLVersion, setLPPConfig, setAGLONASSProtocol,
    SetProtocolConfigParametersReq, SuplVersions
<1>3. ASSUME NEW x, NEW y
      PROVE  Fits(setSensorControlConfig(x, y))
  BY <1>1, PayloadIsSent
  DEF setSensorControlConfig, SetSensorControlConfigReq, SensorUses, SensorProviders
<1>4. ASSUME NEW walks, DOMAIN walks \subseteq DOMAIN WalkField
      PROVE  Fits(setSensorProperties(walks))
  <2>1. {WalkField[w] : w \in DOMAIN walks} \subseteq
          {"gyroBiasVarianceRandomWalk", "accelerationRandomWalkSpectralDensity",
           "angleRandomWalkSpectralDensity", "rateRandomWalkSpectralDensity",
           "velocityRandomWalkSpectralDensity"}
    BY <1>4 DEF WalkField
  <2> QED
    BY <1>1, <2>1, PayloadIsSent DEF setSensorProperties, SetSensorPropertiesReq
<1>5. ASSUME NEW mode, NEW accel, NEW gyro, NEW accelHigh, NEW gyroHigh, NEW algorithm
      PROVE  Fits(setSensorPerfControlConfig(mode, accel, gyro, accelHigh, gyroHigh,
                                             algorithm))
  BY <1>1, PayloadIsSent
  DEF setSensorPerfControlConfig, SetSensorPerformanceControlConfigReq
<1>6. ASSUME NEW x
      PROVE  Fits(setExtPowerConfig(x))
  BY <1>1, PayloadIsSent
  DEF setExtPowerConfig, SetExternalPowerConfigReq, ExternalPowerStates
<1> QED
  BY <1>2, <1>3, <1>4, <1>5, <1>6

LEMMA SettingsFit ==
  /\ Fits(getGpsLock) /\ \A lock : Fits(setGpsLock(lock))
  /\ \A check : Fits(setXtraVersionCheck(check))
  /\ Fits(getWwanZppFix) /\ Fits(getBestAvailableZppFix)
<1>1. /\ {"SET_ENGINE_LOCK", "SET_XTRA_VERSION_CHECK", "GET_AVAILABLE_WWAN_POSITION",
          "GET_BEST_AVAILABLE_POSITION"} \subseteq WithPayload
      /\ "GET_ENGINE_LOCK" \notin WithPayload
  BY DEF WithPayload, SettingsReqs, ServicesReqs, BatchingReqs
<1> USE DEF Fits, ArgumentsInRange, Send, WellFormed, Carries
<1>2. Fits(getGpsLock)
  BY <1>1 DEF getGpsLock, Payload
<1>3. ASSUME NEW lock
      PROVE  Fits(setGpsLock(lock))
  BY <1>1, PayloadIsSent DEF setGpsLock, SetEngineLockReq
<1>4. ASSUME NEW check
      PROVE  Fits(setXtraVersionCheck(check))
  BY <1>1, PayloadIsSent
  DEF setXtraVersionCheck, ModeOf, SetXtraVersionCheckReq, XtraVersionChecks
<1>5. Fits(getWwanZppFix) /\ Fits(getBestAvailableZppFix)
  BY <1>1, PayloadIsSent
  DEF getWwanZppFix, getBestAvailableZppFix, GetAvailWwanPositionReq,
    GetBestAvailablePositionReq
<1> QED
  BY <1>2, <1>3, <1>4, <1>5

Mask == INSTANCE EventMask

\* What startFix and stopFix send, and every registration that can follow from
\* a mask of the adapter: no mode, accuracy or recurrence of the caller is sent
\* as a value the service does not know, and no unused bit of the mask is set.
THEOREM SessionsFit ==
  /\ \A mask \in SUBSET Mask!AdapterBits :
       /\ WellFormed("REG_EVENTS", [eventRegMask |-> Mask!convertMask(mask)])
       /\ WellFormed("REG_EVENTS", [eventRegMask |->
                      Mask!adjustMaskForNoSession(Mask!convertMask(mask))])
  /\ \A fixCriteria :
       /\ WellFormed("SET_OPERATION_MODE", set_mode_msg(fixCriteria))
       /\ WellFormed("START", start_msg(fixCriteria))
  /\ WellFormed("STOP", stop_msg)
<1>1. ASSUME NEW mask \in SUBSET Mask!AdapterBits
      PROVE  Mask!convertMask(mask) \subseteq EventRegMask
  <2>1. ASSUME NEW bit \in Mask!AdapterBits
        PROVE  Mask!EventsOfBit[bit] \subseteq EventRegMask
    BY DEF Mask!AdapterBits, Mask!EventsOfBit, EventRegMask, ServiceEvents
  <2> QED
    BY <2>1 DEF Mask!convertMask
<1>2. ASSUME NEW mask \in SUBSET Mask!AdapterBits
      PROVE  /\ WellFormed("REG_EVENTS", [eventRegMask |-> Mask!convertMask(mask)])
             /\ WellFormed("REG_EVENTS", [eventRegMask |->
                            Mask!adjustMaskForNoSession(Mask!convertMask(mask))])
  BY <1>1 DEF WellFormed, RegEventsReq, Carries, Mask!adjustMaskForNoSession
<1>3. ASSUME NEW fixCriteria
      PROVE  WellFormed("SET_OPERATION_MODE", set_mode_msg(fixCriteria))
  BY DEF WellFormed, SetOperationModeReq, Carries, set_mode_msg, operationMode,
    OperationModes
<1>4. ASSUME NEW fixCriteria
      PROVE  WellFormed("START", start_msg(fixCriteria))
  <2> DEFINE m == start_msg(fixCriteria)
  <2>1. accuracyLevel(fixCriteria.preferred_accuracy) \in AccuracyLevels
    BY DEF accuracyLevel, AccuracyLevels
  <2>2. /\ Carries(m, {"sessionId"},
              {"minInterval", "fixRecurrence", "configAltitudeAssumed",
               "horizontalAccuracyLevel", "applicationId"})
        /\ m.sessionId = 1 /\ m.configAltitudeAssumed = "DISABLED"
        /\ m.fixRecurrence \in FixRecurrences
        /\ "horizontalAccuracyLevel" \in DOMAIN m =>
             m.horizontalAccuracyLevel = accuracyLevel(fixCriteria.preferred_accuracy)
    BY DEF start_msg, Carries, FixRecurrences, LOC_API_V02_DEF_SESSION_ID
  <2> HIDE DEF m
  <2>3. StartReq(m)
    BY <2>1, <2>2 DEF StartReq, Carries
  <2> QED
    BY <2>3 DEF WellFormed, m
<1>5. WellFormed("STOP", stop_msg)
  BY DEF WellFormed, StopReq, Carries, stop_msg, LOC_API_V02_DEF_SESSION_ID
<1> QED
  BY <1>2, <1>3, <1>4, <1>5

\* What the user answers goes back as the service sent it.
LEMMA NiResponseFits ==
  ASSUME NEW userResponse, NEW request \in NiRequests
  PROVE  Fits(informNiResponse(userResponse, request, request))
<1>1. "NI_USER_RESPONSE" \in WithPayload
  BY DEF WithPayload, SettingsReqs
<1>2. request.valid \subseteq NiParts /\ request.notificationType \in NiNotifyVerifyTypes
  BY DialoguesAssumption DEF EventNiNotifyVerifyReqInd
<1> QED
  BY <1>1, <1>2, PayloadIsSent
  DEF Fits, ArgumentsInRange, informNiResponse, Send, Refuse, WellFormed,
    NiUserRespReq, Carries,
    UserResponses, NiUserResponses

\* The tables of the client agree with the service object: validateRequest lets
\* through only what the service takes, the client looks for no indication that
\* the service does not have, the bit it takes for an event is one that can be
\* registered, and of no request it can send does it lack the answer.
THEOREM ClientMatchesService ==
  /\ \A req : validateRequest(req) => req \in Commands \cap Responses
  /\ EventInds \subseteq ServiceEvents
  /\ \A event \in EventInds : EventMaskOf(event) \in EventRegMask
  /\ RespInds \subseteq ServiceAnswers \cup ServiceEvents
  /\ \A req \in ServiceAnswers : validateRequest(req) => req \in RespInds
<1> USE DEF WithPayload, SettingsReqs, ServicesReqs, BatchingReqs, WithoutPayload
<1>1. WithPayload \cup WithoutPayload \subseteq Commands
  BY DEF Commands
<1>2. EventInds \subseteq ServiceEvents
  BY DEF EventInds, ServiceEvents
<1>3. RespInds \subseteq ServiceAnswers \cup ServiceEvents
  BY DEF RespInds, SettingsInds, ServicesInds, ServiceAnswers, ServiceEvents, Commands
<1>4. \A req \in WithPayload \cup WithoutPayload :
        req \in ServiceAnswers => req \in RespInds
  BY DEF RespInds, SettingsInds, ServicesInds, ServiceAnswers, Commands
<1>5. \A event \in EventInds : EventMaskOf(event) \in EventRegMask
  BY DEF EventInds, EventMaskOf, EventRegMask, ServiceEvents
<1> HIDE DEF WithPayload, WithoutPayload
<1> QED
  BY <1>1, <1>2, <1>3, <1>4, <1>5 DEF validateRequest, Responses

\* The reports look at fields that the indications have, and at all of them that
\* set a flag: only the answer with the best position has a speed.
LEMMA ReportedFieldsExist ==
  /\ DOMAIN FlagOfField \cup {"latitude", "longitude"} \subseteq EventPositionReportInd
  /\ DOMAIN ZppFlags("getWwanZppFix") \subseteq GetAvailWwanPositionInd
  /\ DOMAIN ZppFlags("getBestAvailableZppFix") \subseteq GetBestAvailablePositionInd
  /\ {"horSpeed", "heading"} \cap GetAvailWwanPositionInd = {}
<1>1. DOMAIN FlagOfField \cup {"latitude", "longitude"} \subseteq EventPositionReportInd
  BY DEF FlagOfField, EventPositionReportInd, HorizontalPosition
<1>2. DOMAIN ZppFlags("getWwanZppFix") \subseteq GetAvailWwanPositionInd
  BY DEF ZppFlags, GetAvailWwanPositionInd, AvailWwanPosition
<1>3. DOMAIN ZppFlags("getBestAvailableZppFix") \subseteq GetBestAvailablePositionInd
  BY DEF ZppFlags, GetBestAvailablePositionInd, BestAvailablePosition
<1>4. {"horSpeed", "heading"} \cap GetAvailWwanPositionInd = {}
  BY DEF GetAvailWwanPositionInd, AvailWwanPosition
<1> QED
  BY <1>1, <1>2, <1>3, <1>4

-----------------------------------------------------------------------------
(* The calls *)

\* Every method but informNiResponse builds a message that is as it should be.
LEMMA MethodsOK ==
  ASSUME Methods
  PROVE  \E c : CallOK(c) /\ Ask(c) /\ UNCHANGED <<heap, notes>>
<1> USE DEF Sends, Meant, Message, Awaited, Send, Refuse, Checked, SettingOK
<1>1. CASE Inject
  <2>1. \A t, ref, u, now : Sends(setTime(t, ref, u, now))
    BY DEF setTime
  <2>2. \A lat, lon, acc : Sends(injectPosition(lat, lon, acc))
    BY DEF injectPosition
  <2> HIDE DEF Sends
  <2> QED
    BY <1>1, <2>1, <2>2, TimeAndPositionFit DEF Inject, Methods, CallOK
<1>2. CASE Delete
  <2>1. ASSUME NEW f
        PROVE  Sends(deleteAidingData(f))
    BY DeletesAskedFor DEF deleteAidingData, Payload, WithPayload, SettingsReqs,
      ServicesReqs, BatchingReqs
  <2> HIDE DEF Sends
  <2> QED
    BY <1>2, <2>1, DeletionFits DEF Delete, Methods, CallOK
<1>3. CASE Servers
  <2>1. \A url, len, size : Sends(setServerUrl(url, len, size))
    BY DEF setServerUrl
  <2>2. \A ip, port, type : Sends(setServer(ip, port, type))
    BY DEF setServer
  <2>3. Sends(requestXtraServer)
    BY DEF requestXtraServer
  <2> HIDE DEF Sends
  <2> QED
    BY <1>3, <2>1, <2>2, <2>3, ServersFit DEF Servers, Methods, CallOK
<1>4. CASE Connections
  <2>1. \A h, ok, apn, bear : Sends(atlOpenStatus(h, ok, apn, bear))
    BY DEF atlOpenStatus
  <2>2. \A h, ok : Sends(atlCloseStatus(h, ok))
    BY DEF atlCloseStatus
  <2> HIDE DEF Sends
  <2> QED
    BY <1>4, <2>1, <2>2, ConnectionsFit DEF Connections, Methods, CallOK
<1>5. CASE Configure
  <2>1. \A x : /\ Sends(setSUPLVersion(x)) /\ Sends(setLPPConfig(x))
              /\ Sends(setAGLONASSProtocol(x))
    BY DEF setSUPLVersion, setLPPConfig, setAGLONASSProtocol
  <2>2. \A x, y : Sends(setSensorControlConfig(x, y))
    BY DEF setSensorControlConfig
  <2>3. /\ \A x : Sends(setSensorProperties(x))
        /\ \A u, v, w, x, y, z : Sends(setSensorPerfControlConfig(u, v, w, x, y, z))
    BY DEF setSensorProperties, setSensorPerfControlConfig
  <2>4. \A x : Sends(setExtPowerConfig(x))
    BY DEF setExtPowerConfig
  <2> HIDE DEF Sends
  <2>5. \A given \in SUBSET {"gyroBias", "rateBias"} :
          CallOK(setSensorProperties([w \in given |-> 1]))
    <3>1. {"gyroBias", "rateBias"} \subseteq DOMAIN WalkField
      BY DEF WalkField
    <3> QED
      BY <2>3, <3>1, ConfigurationFits DEF CallOK
  <2> QED
    BY <1>5, <2>1, <2>2, <2>3, <2>4, <2>5, ConfigurationFits
    DEF Configure, Methods, CallOK
<1>6. CASE Lock
  <2>1. Sends(getGpsLock) /\ \A x : Sends(setGpsLock(x))
    BY DEF getGpsLock, setGpsLock, Payload, WithPayload, SettingsReqs,
      ServicesReqs, BatchingReqs
  <2> HIDE DEF Sends
  <2> QED
    BY <1>6, <2>1, SettingsFit DEF Lock, Methods, CallOK
<1>7. CASE XtraVersion
  <2>1. \A x : Sends(setXtraVersionCheck(x))
    BY DEF setXtraVersionCheck, Payload, WithPayload, SettingsReqs,
      ServicesReqs, BatchingReqs
  <2> HIDE DEF Sends
  <2> QED
    BY <1>7, <2>1, SettingsFit DEF XtraVersion, Methods, CallOK
<1>8. CASE Positions
  <2>1. Sends(getWwanZppFix) /\ Sends(getBestAvailableZppFix)
    BY DEF getWwanZppFix, getBestAvailableZppFix
  <2> HIDE DEF Sends
  <2> QED
    BY <1>8, <2>1, SettingsFit DEF Positions, Methods, CallOK
<1> QED
  BY <1>1, <1>2, <1>3, <1>4, <1>5, <1>6, <1>7, <1>8 DEF Methods

\* So does informNiResponse, when the copy it is given holds the request.
LEMMA NiResponseOK ==
  ASSUME NEW userResponse, NEW request \in NiRequests
  PROVE  CallOK(informNiResponse(userResponse, request, request))
<1>1. Sends(informNiResponse(userResponse, request, request))
  BY DEF Sends, Meant, Message, Awaited, Send, Refuse, informNiResponse,
    Payload, WithPayload, SettingsReqs, Checked, SettingOK
<1> QED
  BY <1>1, NiResponseFits DEF CallOK

-----------------------------------------------------------------------------
(* The inductive invariant *)

SeqInv == IsSeq(inbox) /\ IsSeq(wire)

HeapInv ==
  heap \in [Blocks -> [used : BOOLEAN, holds : {NoRequest} \cup NiRequests]]

MessagesInv == \A n \in DOMAIN inbox : MessageOK(inbox[n])

WireInv ==
  \A n \in DOMAIN wire :
    wire[n].ind = "NI_NOTIFY_VERIFY_REQ" => wire[n].fields \in NiRequests

\* The copy of every request the user has not answered is allocated, is the
\* copy of that request, and of no other.
NotesInv ==
  /\ \A note \in notes :
       /\ note.ptr \in Blocks /\ note.request \in NiRequests
       /\ heap[note.ptr].used
       /\ heap[note.ptr].holds = note.request
  /\ \A note, other \in notes : note.ptr = other.ptr => note = other

CallInv ==
  call.by # "none" =>
    /\ call.msg \in Awaited
    /\ OnTheWay(call.msg) \/ call.msg \in lost

DialoguesInv ==
  /\ SeqInv
  /\ HeapInv
  /\ MessagesInv
  /\ WireInv
  /\ NotesInv
  /\ CallInv

LEMMA InitInv == Init => DialoguesInv
<1> SUFFICES ASSUME Init PROVE DialoguesInv
  OBVIOUS
<1>1. SeqInv
  <2>1. <<>> \in Seq({})
    OBVIOUS
  <2> QED
    BY <2>1, SeqIsSeq DEF Init, SeqInv
<1>2. HeapInv /\ MessagesInv /\ WireInv /\ NotesInv /\ CallInv
  BY DEF Init, HeapInv, MessagesInv, WireInv, NotesInv, CallInv, NoCall
<1> QED
  BY <1>1, <1>2 DEF DialoguesInv

\* Sending a message that is as it should be.
LEMMA AskKeeps ==
  ASSUME DialoguesInv, NEW c, CallOK(c), Ask(c)
  PROVE  SeqInv' /\ MessagesInv' /\ WireInv' /\ CallInv'
<1>1. CASE UNCHANGED <<call, inbox>>
  BY <1>1 DEF Ask, DialoguesInv, SeqInv, MessagesInv, WireInv, CallInv
<1>2. CASE inbox' = Append(inbox, Message(c)) /\ c.refused = "no"
           /\ (call' = call \/ call' = Message(c))
  <2>1. /\ IsSeq(inbox')
        /\ DOMAIN inbox' = 1 .. Len(inbox) + 1
        /\ DOMAIN inbox = 1 .. Len(inbox)
        /\ \A n \in DOMAIN inbox : inbox'[n] = inbox[n]
        /\ inbox'[Len(inbox) + 1] = Message(c)
        /\ Len(inbox) \in Nat
    BY <1>2, AppendIs DEF DialoguesInv, SeqInv, IsSeq
  <2>2. MessageOK(Message(c))
    BY <1>2, SendsMessage
  <2>3. MessagesInv'
    <3> SUFFICES ASSUME NEW n \in DOMAIN inbox' PROVE MessageOK(inbox'[n])
      BY DEF MessagesInv, MessageOK
    <3>1. n \in DOMAIN inbox \/ n = Len(inbox) + 1
      BY <2>1
    <3> QED
      BY <3>1, <2>1, <2>2 DEF DialoguesInv, MessagesInv
  <2>4. SeqInv' /\ WireInv'
    BY <2>1 DEF Ask, DialoguesInv, SeqInv, WireInv
  <2>5. CallInv'
    <3>1. CASE call' = call
      BY <3>1 DEF Ask, CallInv
    <3>2. CASE call' = Message(c)
      <4>1. Message(c).msg \in Awaited
        BY <2>2 DEF MessageOK, Meant
      <4>2. Len(inbox) + 1 \in DOMAIN inbox'
        BY <2>1
      <4>3. \E n \in DOMAIN inbox' : inbox'[n].msg = call'.msg
        BY <4>2, <2>1, <3>2
      <4> QED
        BY <3>2, <4>1, <4>3 DEF CallInv, OnTheWay
    <3> QED
      BY <1>2, <3>1, <3>2
  <2> QED
    BY <2>3, <2>4, <2>5
<1>3. CASE call' = call /\ inbox' = inbox
  BY <1>1, <1>3
<1> QED
  BY <1>1, <1>2, <1>3 DEF Ask, SendReq

\* Taking an indication off the wire keeps what is said of the others, and the
\* waiting call keeps what it waits for, unless the indication is its answer.
LEMMA NextIndKeeps ==
  ASSUME DialoguesInv, NextInd
  PROVE  /\ SeqInv' /\ MessagesInv' /\ WireInv'
         /\ Ind.ind = "NI_NOTIFY_VERIFY_REQ" => Ind.fields \in NiRequests
         /\ \A msg : OnTheWay(msg) /\ msg # Ind.ind => OnTheWay(msg)'
<1>1. /\ IsSeq(wire')
      /\ DOMAIN wire' = 1 .. Len(wire) - 1
      /\ DOMAIN wire = 1 .. Len(wire)
      /\ Len(wire) \in Nat \ {0}
      /\ Ind = wire[1]
      /\ \A n \in 1 .. Len(wire) - 1 : wire'[n] = wire[n + 1]
  BY TailIs DEF NextInd, Ind, DialoguesInv, SeqInv
<1>2. SeqInv' /\ MessagesInv'
  BY <1>1 DEF NextInd, DialoguesInv, SeqInv, MessagesInv
<1>3. WireInv'
  <2> SUFFICES ASSUME NEW n \in DOMAIN wire', wire'[n].ind = "NI_NOTIFY_VERIFY_REQ"
               PROVE  wire'[n].fields \in NiRequests
    BY DEF WireInv
  <2>1. n + 1 \in DOMAIN wire /\ wire'[n] = wire[n + 1]
    BY <1>1
  <2> QED
    BY <2>1 DEF DialoguesInv, WireInv
<1>4. Ind.ind = "NI_NOTIFY_VERIFY_REQ" => Ind.fields \in NiRequests
  <2>1. 1 \in DOMAIN wire
    BY <1>1
  <2> QED
    BY <1>1, <2>1 DEF DialoguesInv, WireInv
<1>5. ASSUME NEW msg, OnTheWay(msg), msg # Ind.ind
      PROVE  OnTheWay(msg)'
  <2>1. CASE \E n \in DOMAIN inbox : inbox[n].msg = msg
    BY <2>1 DEF NextInd, OnTheWay
  <2>2. CASE \E n \in DOMAIN wire : wire[n].ind = msg
    <3>1. PICK n \in DOMAIN wire : wire[n].ind = msg
      BY <2>2
    <3>2. n # 1
      BY <3>1, <1>1, <1>5
    <3>3. n - 1 \in DOMAIN wire' /\ wire'[n - 1] = wire[n]
      BY <1>1, <3>1, <3>2
    <3> QED
      BY <3>1, <3>3 DEF OnTheWay
  <2> QED
    BY <1>5, <2>1, <2>2 DEF OnTheWay
<1> QED
  BY <1>2, <1>3, <1>4, <1>5

LEMMA ServeKeeps ==
  ASSUME DialoguesInv, Serve
  PROVE  DialoguesInv'
<1>1. PICK i : wire' = Append(wire, i) /\ i.ind = Head(inbox).msg
  <2> DEFINE Answer(status, fields) ==
        [ind |-> Head(inbox).msg, status |-> status, fields |-> fields]
  <2>1. \E status, fields : wire' = Append(wire, Answer(status, fields))
    BY Zenon DEF Serve
  <2>2. PICK status, fields : wire' = Append(wire, Answer(status, fields))
    BY <2>1
  <2>3. Answer(status, fields).ind = Head(inbox).msg
    OBVIOUS
  <2> QED
    BY <2>2, <2>3, Zenon
<1>2. /\ IsSeq(inbox')
      /\ DOMAIN inbox' = 1 .. Len(inbox) - 1
      /\ DOMAIN inbox = 1 .. Len(inbox)
      /\ Len(inbox) \in Nat \ {0}
      /\ Head(inbox) = inbox[1]
      /\ \A n \in 1 .. Len(inbox) - 1 : inbox'[n] = inbox[n + 1]
  BY TailIs DEF Serve, DialoguesInv, SeqInv
<1>3. /\ IsSeq(wire')
      /\ DOMAIN wire' = 1 .. Len(wire) + 1
      /\ DOMAIN wire = 1 .. Len(wire)
      /\ Len(wire) \in Nat
      /\ \A n \in DOMAIN wire : wire'[n] = wire[n]
      /\ wire'[Len(wire) + 1] = i
  BY <1>1, AppendIs DEF DialoguesInv, SeqInv, IsSeq
<1>4. i.ind \in Awaited /\ i.ind # "NI_NOTIFY_VERIFY_REQ"
  <2>1. 1 \in DOMAIN inbox
    BY <1>2
  <2>2. i.ind \in Awaited
    BY <1>1, <1>2, <2>1 DEF DialoguesInv, MessagesInv, MessageOK, Meant
  <2> QED
    BY <2>2 DEF Awaited
<1>5. MessagesInv'
  <2> SUFFICES ASSUME NEW n \in DOMAIN inbox' PROVE MessageOK(inbox'[n])
    BY DEF MessagesInv, MessageOK
  <2>1. n + 1 \in DOMAIN inbox /\ inbox'[n] = inbox[n + 1]
    BY <1>2
  <2> QED
    BY <2>1 DEF DialoguesInv, MessagesInv
<1>6. WireInv'
  <2> SUFFICES ASSUME NEW n \in DOMAIN wire', wire'[n].ind = "NI_NOTIFY_VERIFY_REQ"
               PROVE  wire'[n].fields \in NiRequests
    BY DEF WireInv
  <2>1. n \in DOMAIN wire \/ n = Len(wire) + 1
    BY <1>3
  <2> QED
    BY <2>1, <1>3, <1>4 DEF DialoguesInv, WireInv
<1>7. ASSUME NEW msg, OnTheWay(msg)
      PROVE  OnTheWay(msg)'
  <2>1. CASE \E n \in DOMAIN inbox : inbox[n].msg = msg
    <3>1. PICK n \in DOMAIN inbox : inbox[n].msg = msg
      BY <2>1
    <3>2. CASE n = 1
      <4>1. Len(wire) + 1 \in DOMAIN wire' /\ wire'[Len(wire) + 1].ind = msg
        BY <3>1, <3>2, <1>1, <1>2, <1>3
      <4> QED
        BY <4>1 DEF OnTheWay
    <3>3. CASE n # 1
      <4>1. n - 1 \in DOMAIN inbox' /\ inbox'[n - 1] = inbox[n]
        BY <3>1, <3>3, <1>2
      <4> QED
        BY <4>1, <3>1 DEF OnTheWay
    <3> QED
      BY <3>2, <3>3
  <2>2. CASE \E n \in DOMAIN wire : wire[n].ind = msg
    <3>1. PICK n \in DOMAIN wire : wire[n].ind = msg
      BY <2>2
    <3>2. n \in DOMAIN wire' /\ wire'[n].ind = msg
      BY <3>1, <1>3
    <3> QED
      BY <3>2 DEF OnTheWay
  <2> QED
    BY <1>7, <2>1, <2>2 DEF OnTheWay
<1>8. CallInv'
  BY <1>7 DEF Serve, DialoguesInv, CallInv
<1>9. HeapInv' /\ NotesInv'
  BY DEF Serve, DialoguesInv, HeapInv, NotesInv
<1> QED
  BY <1>2, <1>3, <1>5, <1>6, <1>8, <1>9 DEF DialoguesInv, SeqInv

\* An answer of the user: the adapter passes back the copy it was given.
LEMMA AnswerUserKeeps ==
  ASSUME DialoguesInv, AnswerUser
  PROVE  DialoguesInv'
<1>1. PICK note \in notes, userResponse \in {"ACCEPT", "NORESP", "OTHER"} :
        /\ Ask(informNiResponse(userResponse, note.request, heap[note.ptr].holds))
        /\ heap' = [heap EXCEPT ![note.ptr].used = FALSE]
        /\ notes' = notes \ {note}
  BY DEF AnswerUser
<1>2. /\ heap[note.ptr].holds = note.request /\ note.ptr \in Blocks
      /\ note.request \in NiRequests
  BY DEF DialoguesInv, NotesInv
<1>3. CallOK(informNiResponse(userResponse, note.request, heap[note.ptr].holds))
  BY <1>2, NiResponseOK
<1>4. SeqInv' /\ MessagesInv' /\ WireInv' /\ CallInv'
  BY <1>1, <1>3, AskKeeps
<1>5. HeapInv'
  BY <1>1, <1>2 DEF DialoguesInv, HeapInv
<1>6. NotesInv'
  <2>1. ASSUME NEW other \in notes'
        PROVE  /\ other.ptr \in Blocks /\ other.ptr # note.ptr
               /\ heap'[other.ptr] = heap[other.ptr]
    <3>1. other \in notes /\ other # note
      BY <1>1
    <3>2. other.ptr \in Blocks /\ other.ptr # note.ptr
      BY <3>1 DEF DialoguesInv, NotesInv
    <3> QED
      BY <3>2, <1>1, <1>2 DEF DialoguesInv, HeapInv
  <2> QED
    BY <2>1, <1>1 DEF DialoguesInv, NotesInv
<1> QED
  BY <1>4, <1>5, <1>6 DEF DialoguesInv

LEMMA EventKeeps ==
  ASSUME DialoguesInv, NEW event, NEW payload, Event(event, payload),
         event = "NI_NOTIFY_VERIFY_REQ" => payload \in NiRequests
  PROVE  DialoguesInv'
<1> DEFINE i == [ind |-> event, status |-> "SUCCESS", fields |-> payload]
<1>1. wire' = Append(wire, i) /\ UNCHANGED <<call, inbox, heap, notes, lost>>
  BY Zenon DEF Event
<1>2. i.ind = event /\ i.fields = payload
  OBVIOUS
<1> HIDE DEF i
<1>3. /\ IsSeq(wire')
      /\ DOMAIN wire' = 1 .. Len(wire) + 1
      /\ DOMAIN wire = 1 .. Len(wire)
      /\ Len(wire) \in Nat
      /\ \A n \in DOMAIN wire : wire'[n] = wire[n]
      /\ wire'[Len(wire) + 1] = i
  BY <1>1, AppendIs DEF DialoguesInv, SeqInv, IsSeq
<1>4. WireInv'
  <2> SUFFICES ASSUME NEW n \in DOMAIN wire', wire'[n].ind = "NI_NOTIFY_VERIFY_REQ"
               PROVE  wire'[n].fields \in NiRequests
    BY DEF WireInv
  <2>1. n \in DOMAIN wire \/ n = Len(wire) + 1
    BY <1>3
  <2> QED
    BY <2>1, <1>2, <1>3 DEF DialoguesInv, WireInv
<1>5. inbox' = inbox /\ call' = call /\ heap' = heap /\ notes' = notes
      /\ lost' = lost
  BY <1>1
<1>6. SeqInv' /\ MessagesInv' /\ HeapInv' /\ NotesInv'
  BY <1>3, <1>5
  DEF DialoguesInv, SeqInv, MessagesInv, HeapInv, NotesInv
<1>7. ASSUME NEW msg, OnTheWay(msg)
      PROVE  OnTheWay(msg)'
  <2>1. CASE \E n \in DOMAIN inbox : inbox[n].msg = msg
    BY <2>1, <1>5 DEF OnTheWay
  <2>2. CASE \E n \in DOMAIN wire : wire[n].ind = msg
    <3>1. PICK n \in DOMAIN wire : wire[n].ind = msg
      BY <2>2
    <3>2. n \in DOMAIN wire' /\ wire'[n].ind = msg
      BY <3>1, <1>3
    <3> QED
      BY <3>2 DEF OnTheWay
  <2> QED
    BY <1>7, <2>1, <2>2 DEF OnTheWay
<1>8. CallInv'
  <2> SUFFICES ASSUME call.by # "none"
               PROVE  /\ call.msg \in Awaited
                      /\ OnTheWay(call.msg)' \/ call.msg \in lost
    BY <1>5 DEF CallInv, OnTheWay
  <2>1. call.msg \in Awaited /\ (OnTheWay(call.msg) \/ call.msg \in lost)
    BY DEF DialoguesInv, CallInv
  <2> QED
    BY <2>1, <1>5, <1>7
<1> QED
  BY <1>4, <1>6, <1>8 DEF DialoguesInv

LEMMA EventsKeep ==
  ASSUME DialoguesInv, Events
  PROVE  DialoguesInv'
<1> DEFINE Ni == "NI_NOTIFY_VERIFY_REQ"
<1>1. /\ "POSITION_REPORT" # Ni /\ "GNSS_SV_INFO" # Ni /\ "ENGINE_STATE" # Ni
      /\ "INJECT_PREDICTED_ORBITS_REQ" # Ni
      /\ "LOCATION_SERVER_CONNECTION_REQ" # Ni
      /\ \A event \in {"NMEA", "INJECT_TIME_REQ", "INJECT_POSITION_REQ",
                       "WIFI_REQ", "FIX_SESSION_STATE", "GET_SERVER", "UNKNOWN"} :
           event # Ni
  OBVIOUS
<1>2. ASSUME NEW event, event # Ni, NEW payload, Event(event, payload)
      PROVE  DialoguesInv'
  BY <1>2, EventKeeps
<1>3. ASSUME NEW request \in NiRequests, Event(Ni, request)
      PROVE  DialoguesInv'
  BY <1>3, EventKeeps
<1> QED
  BY <1>1, <1>2, <1>3, Zenon DEF Events

\* An indication that is dropped is not an answer somebody waits for, or it was
\* dropped for lack of memory.
LEMMA DropIndKeeps ==
  ASSUME DialoguesInv, DropInd
  PROVE  DialoguesInv'
<1>1. /\ SeqInv' /\ MessagesInv' /\ WireInv'
      /\ \A msg : OnTheWay(msg) /\ msg # Ind.ind => OnTheWay(msg)'
  BY NextIndKeeps DEF DropInd
<1>2. HeapInv' /\ NotesInv'
  BY DEF DropInd, DialoguesInv, HeapInv, NotesInv
<1>3. call' = call /\ lost \subseteq lost'
  BY DEF DropInd
<1>4. CallInv'
  <2> SUFFICES ASSUME call.by # "none"
               PROVE  /\ call.msg \in Awaited
                      /\ OnTheWay(call.msg)' \/ call.msg \in lost'
    BY <1>3 DEF CallInv, OnTheWay
  <2>1. call.msg \in Awaited /\ (OnTheWay(call.msg) \/ call.msg \in lost)
    BY DEF DialoguesInv, CallInv
  <2>2. CASE call.msg = Ind.ind
    <3>1. IndType = "resp" /\ locClientHandleIndication(Ind.ind)
      BY <2>1, <2>2, AwaitedAreTaken DEF IndType
    <3>2. call.msg \in lost'
      BY <2>2, <3>1 DEF DropInd, Wanted
    <3> QED
      BY <2>1, <3>2
  <2>3. CASE call.msg # Ind.ind /\ OnTheWay(call.msg)
    <3>1. OnTheWay(call.msg)'
      BY <2>3, <1>1, <1>3
    <3> QED
      BY <2>1, <3>1
  <2>4. CASE call.msg \in lost
    BY <2>1, <2>4, <1>3
  <2> QED
    BY <2>1, <2>2, <2>3, <2>4
<1> QED
  BY <1>1, <1>2, <1>4 DEF DialoguesInv

LEMMA TakeAnswerKeeps ==
  ASSUME DialoguesInv, TakeAnswer
  PROVE  DialoguesInv'
<1>1. /\ SeqInv' /\ MessagesInv' /\ WireInv'
      /\ \A msg : OnTheWay(msg) /\ msg # Ind.ind => OnTheWay(msg)'
  BY NextIndKeeps DEF TakeAnswer
<1>2. HeapInv' /\ NotesInv'
  BY DEF TakeAnswer, DialoguesInv, HeapInv, NotesInv
<1>3. CallInv'
  <2>1. CASE call.msg # Ind.ind
    BY <2>1, <1>1 DEF TakeAnswer, DialoguesInv, CallInv
  <2>2. CASE call.msg = Ind.ind
    BY <2>2 DEF TakeAnswer, CallInv, NoCall
  <2> QED
    BY <2>1, <2>2
<1> QED
  BY <1>1, <1>2, <1>3 DEF DialoguesInv

\* Taking an event leaves the waiting call what it waits for.
LEMMA EventIsNoAnswer ==
  ASSUME DialoguesInv, IndType = "event", UNCHANGED <<call, lost>>,
         \A msg : OnTheWay(msg) /\ msg # Ind.ind => OnTheWay(msg)'
  PROVE  CallInv'
<1> SUFFICES ASSUME call.by # "none"
             PROVE  /\ call.msg \in Awaited
                    /\ OnTheWay(call.msg)' \/ call.msg \in lost
  BY DEF CallInv, OnTheWay
<1>1. call.msg \in Awaited /\ (OnTheWay(call.msg) \/ call.msg \in lost)
  BY DEF DialoguesInv, CallInv
<1>2. call.msg # Ind.ind
  BY <1>1, AwaitedAreTaken DEF IndType
<1> QED
  BY <1>1, <1>2

\* The buffer of an event is none that an adapter keeps.
LEMMA TakeEventKeeps ==
  ASSUME DialoguesInv, TakeEvent
  PROVE  DialoguesInv'
<1>1. PICK b \in Blocks : /\ EventAt(b) /\ UNCHANGED notes
                          /\ heap' = [heap EXCEPT ![b].holds = NoRequest]
  BY DEF TakeEvent
<1>2. /\ SeqInv' /\ MessagesInv' /\ WireInv'
      /\ \A msg : OnTheWay(msg) /\ msg # Ind.ind => OnTheWay(msg)'
  BY <1>1, NextIndKeeps DEF EventAt
<1>3. HeapInv'
  BY <1>1 DEF DialoguesInv, HeapInv
<1>4. NotesInv'
  <2>1. ASSUME NEW note \in notes
        PROVE  note.ptr \in Blocks /\ heap'[note.ptr] = heap[note.ptr]
    BY <1>1 DEF EventAt, Free, DialoguesInv, NotesInv, HeapInv
  <2> QED
    BY <1>1, <2>1 DEF DialoguesInv, NotesInv
<1>5. CallInv'
  BY <1>1, <1>2, EventIsNoAnswer DEF EventAt
<1> QED
  BY <1>2, <1>3, <1>4, <1>5 DEF DialoguesInv

\* The copy for the adapter is a block that nobody holds, and not the buffer
\* of the indication.
LEMMA TakeNiRequestKeeps ==
  ASSUME DialoguesInv, TakeNiRequest
  PROVE  DialoguesInv'
<1>1. PICK b \in Blocks : /\ EventAt(b) /\ Ind.ind = "NI_NOTIFY_VERIFY_REQ"
                          /\ reportNiRequest(b, Ind.fields)
  BY DEF TakeNiRequest
<1> DEFINE req == Ind.fields
<1>2. /\ SeqInv' /\ MessagesInv' /\ WireInv'
      /\ req \in NiRequests
      /\ \A msg : OnTheWay(msg) /\ msg # Ind.ind => OnTheWay(msg)'
  BY <1>1, NextIndKeeps DEF EventAt
<1>3. CallInv'
  BY <1>1, <1>2, EventIsNoAnswer DEF EventAt
<1> HIDE DEF req
<1>4. reportNiRequest(b, req) /\ b \in Free
  BY <1>1 DEF req, EventAt
<1>5. ASSUME NEW note \in notes
      PROVE  /\ note.ptr \in Blocks /\ note.ptr \notin Free
             /\ note.request \in NiRequests
             /\ heap[note.ptr].used /\ heap[note.ptr].holds = note.request
  BY DEF DialoguesInv, NotesInv, Free
<1>6. CASE /\ heap' = [heap EXCEPT ![b].holds = req]
           /\ UNCHANGED notes
  <2>1. HeapInv'
    BY <1>2, <1>6 DEF DialoguesInv, HeapInv
  <2>2. ASSUME NEW note \in notes
        PROVE  heap'[note.ptr] = heap[note.ptr]
    BY <1>4, <1>5, <1>6 DEF DialoguesInv, HeapInv
  <2>3. NotesInv'
    BY <1>6, <2>2 DEF DialoguesInv, NotesInv
  <2> QED
    BY <1>2, <1>3, <2>1, <2>3 DEF DialoguesInv
<1>7. ASSUME NEW copy \in Free \ {b},
             heap' = [heap EXCEPT ![b].holds = req,
                                  ![copy] = [used |-> TRUE, holds |-> req]],
             notes' = notes \cup {[request |-> req, ptr |-> copy]}
      PROVE  DialoguesInv'
  <2>1. copy \in Blocks /\ b \in Blocks
    BY DEF Free
  <2>2. HeapInv'
    BY <1>2, <1>7, <2>1 DEF DialoguesInv, HeapInv
  <2>3. heap'[copy].used /\ heap'[copy].holds = req
    BY <1>7, <2>1 DEF DialoguesInv, HeapInv
  <2>4. ASSUME NEW note \in notes
        PROVE  heap'[note.ptr] = heap[note.ptr] /\ note.ptr # copy
    BY <1>4, <1>5, <1>7, <2>1 DEF DialoguesInv, HeapInv
  <2>5. ASSUME NEW note \in notes'
        PROVE  /\ note.ptr \in Blocks /\ note.request \in NiRequests
               /\ heap'[note.ptr].used
               /\ heap'[note.ptr].holds = note.request
    <3>1. CASE note \in notes
      BY <3>1, <1>5, <2>4
    <3>2. CASE note = [request |-> req, ptr |-> copy]
      BY <3>2, <1>2, <2>1, <2>3
    <3> QED
      BY <1>7, <3>1, <3>2
  <2>6. ASSUME NEW note \in notes', NEW other \in notes', note.ptr = other.ptr
        PROVE  note = other
    <3> DEFINE new == [request |-> req, ptr |-> copy]
    <3>1. new.ptr = copy /\ notes' = notes \cup {new}
      BY <1>7
    <3> HIDE DEF new
    <3>2. CASE note \in notes /\ other \in notes
      BY <3>2, <2>6 DEF DialoguesInv, NotesInv
    <3>3. CASE note = new \/ other = new
      BY <3>1, <3>3, <2>4, <2>6
    <3> QED
      BY <3>1, <3>2, <3>3
  <2>7. NotesInv'
    BY <2>5, <2>6 DEF NotesInv
  <2> QED
    BY <1>2, <1>3, <2>2, <2>7 DEF DialoguesInv
<1> QED
  BY <1>4, <1>6, <1>7 DEF reportNiRequest, Notify

-----------------------------------------------------------------------------
(* The theorems *)

LEMMA NextInv == DialoguesInv /\ [Next]_vars => DialoguesInv'
<1> SUFFICES ASSUME DialoguesInv, [Next]_vars PROVE DialoguesInv'
  OBVIOUS
<1>1. CASE Methods
  <2>1. PICK c : CallOK(c) /\ Ask(c) /\ UNCHANGED <<heap, notes>>
    BY <1>1, MethodsOK
  <2>2. SeqInv' /\ MessagesInv' /\ WireInv' /\ CallInv'
    BY <2>1, AskKeeps
  <2>3. HeapInv' /\ NotesInv'
    BY <2>1 DEF DialoguesInv, HeapInv, NotesInv
  <2> QED
    BY <2>2, <2>3 DEF DialoguesInv
<1>2. CASE AnswerUser
  BY <1>2, AnswerUserKeeps
<1>3. CASE Timeout
  <2>1. UNCHANGED <<inbox, wire, heap, notes, lost>> /\ call' = NoCall
    BY <1>3 DEF Timeout, service
  <2> QED
    BY <2>1 DEF DialoguesInv, SeqInv, HeapInv, MessagesInv, WireInv, NotesInv,
      CallInv, NoCall
<1>4. CASE Serve
  BY <1>4, ServeKeeps
<1>5. CASE Events
  BY <1>5, EventsKeep
<1>6. CASE CallbackThread
  BY <1>6, DropIndKeeps, TakeAnswerKeeps, TakeEventKeeps, TakeNiRequestKeeps
  DEF CallbackThread
<1>7. CASE UNCHANGED vars
  <2>1. UNCHANGED <<call, inbox, wire, heap, notes, lost>>
    BY <1>7 DEF vars, service
  <2> QED
    BY <2>1 DEF DialoguesInv, SeqInv, HeapInv, MessagesInv, WireInv, NotesInv,
      CallInv, OnTheWay
<1> QED
  BY <1>1, <1>2, <1>3, <1>4, <1>5, <1>6, <1>7 DEF Next

LEMMA Invariance == Spec => []DialoguesInv
BY InitInv, NextInv, PTL DEF Spec

\* The answer of the user reaches the service with what the service sent along
\* with the request that the user answered: reportNiRequest keeps a copy of it
\* apart from the buffers of all indications.
THEOREM NiAnswersMatch == Spec => []NiAnswerMatches
<1>1. DialoguesInv => NiAnswerMatches
  BY DEF DialoguesInv, MessagesInv, MessageOK, Meant, NiAnswerMatches
<1> QED
  BY <1>1, Invariance, PTL

\* deleteAidingData deletes what its flags ask for, of as many satellites as
\* there are: the blocks of GPS and GLONASS in one array do not overlap, leave
\* no gap and keep to the numbers of their system.
THEOREM DeletesRight == Spec => []DeletesWhatWasAsked
<1>1. DialoguesInv => DeletesWhatWasAsked
  BY DEF DialoguesInv, MessagesInv, MessageOK, Meant, DeletesWhatWasAsked
<1> QED
  BY <1>1, Invariance, PTL

\* Nothing that a method waits for is thrown away by the tables and switches of
\* the client: while the method waits, its request is being served or the answer
\* is coming, unless there was no memory to decode it.
THEOREM AnswersReach == Spec => []AnswersReachCallers
<1>1. DialoguesInv => AnswersReachCallers
  BY DEF DialoguesInv, CallInv, AnswersReachCallers
<1> QED
  BY <1>1, Invariance, PTL

\* What reaches the service is a message of its interface, whichever method sends
\* it with whatever arguments, just when the four methods that do not check what
\* they pass on were given values the header knows: the list of satellites to
\* delete fits its array, a server address has room for its end, what the user
\* answered about is given back in fields that the response has.
THEOREM RequestsFit == Spec => []RequestsWellFormed
<1>1. DialoguesInv => RequestsWellFormed
  BY DEF DialoguesInv, MessagesInv, MessageOK, RequestsWellFormed
<1> QED
  BY <1>1, Invariance, PTL

-----------------------------------------------------------------------------
(* Settings *)

\* An answer that the call c may take for its own: if it reports success, the
\* service has the setting that c is about.
TrueAnswer(c, i) ==
  i.status = "SUCCESS" =>
    /\ c.by = "setGpsLock" => store.lockType = c.arg
    /\ c.by = "getGpsLock" /\ "lockType" \in DOMAIN i.fields =>
         store.lockType = i.fields.lockType
    /\ c.by = "setXtraVersionCheck" => store.xtraVersionCheckMode = ModeOf(c.arg)

\* The youngest indication of its kind on the wire.
Youngest(n) == \A k \in DOMAIN wire : k > n => wire[k].ind # wire[n].ind

\* The request of the waiting call is the last the service has to serve; once it
\* is served the service has nothing else to do, so that its settings stay, and
\* the youngest answer to a request of this kind is the true one.  Older ones
\* answer calls that gave up.
OwnAnswer ==
  \/ inbox # <<>> /\ inbox[Len(inbox)] = call
  \/ /\ inbox = <<>>
     /\ \A n \in DOMAIN wire :
          wire[n].ind = call.msg /\ Youngest(n) => TrueAnswer(call, wire[n])

SettingInv ==
  /\ DOMAIN store = {"lockType", "xtraVersionCheckMode"}
  /\ call.by # "none" => SettingOK(call) /\ OwnAnswer
  /\ SuccessMeansDone

\* A call that reports no success says nothing of the settings.
LEMMA NothingReported ==
  ASSUME /\ ret'.by = "setGpsLock" => ret'.value # 0
         /\ ret'.by = "getGpsLock" => ret'.value = -1
         /\ ret'.by = "setXtraVersionCheck" => ret'.value # "SUCCESS"
  PROVE  SuccessMeansDone'
BY DEF SuccessMeansDone

LEMMA NothingReturned ==
  ASSUME ret' = NoReturn
  PROVE  SuccessMeansDone'
BY NothingReported DEF NoReturn

LEMMA NoAnswerNoSuccess ==
  ASSUME NEW c, NEW status, Returns(c, status, NoAnswer)
  PROVE  SuccessMeansDone'
<1>1. ret'.by = c.by /\ ret'.value = Result(c.by, status, NoAnswer)
  BY DEF Returns
<1>2. ~Succeeded(status, NoAnswer)
  BY DEF Succeeded, NoAnswer
<1>3. /\ c.by = "setGpsLock" => Result(c.by, status, NoAnswer) # 0
      /\ c.by = "getGpsLock" => Result(c.by, status, NoAnswer) = -1
      /\ c.by = "setXtraVersionCheck" => Result(c.by, status, NoAnswer) # "SUCCESS"
  BY <1>2 DEF Result
<1> QED
  BY <1>1, <1>3, NothingReported

LEMMA AskSettles ==
  ASSUME DialoguesInv, SettingInv, NEW c, CallOK(c), Ask(c)
  PROVE  SettingInv'
<1>1. call.by = "none" /\ UNCHANGED <<wire, store>>
  BY DEF Ask
<1>2. SuccessMeansDone'
  <2>1. CASE ret' = NoReturn
    BY <2>1, NothingReturned
  <2>2. CASE \E status : Returns(c, status, NoAnswer)
    BY <2>2, NoAnswerNoSuccess
  <2>3. CASE c.refused # "no"
    <3>1. ret'.by = c.by
      BY <2>3 DEF Ask, NoReturn
    <3>2. c.by \notin Checked
      BY <2>3 DEF CallOK, Sends
    <3> QED
      BY <3>1, <3>2, NothingReported DEF Checked
  <2> QED
    BY <2>1, <2>2, <2>3 DEF Ask, SendReq
<1>3. CASE call' = call
  BY <1>1, <1>2, <1>3 DEF SettingInv
<1>4. CASE c.refused = "no" /\ call' = Message(c) /\ inbox' = Append(inbox, Message(c))
  <2>1. SettingOK(Message(c))
    BY <1>4, SendsMessage DEF MessageOK, Meant
  <2>2. /\ IsSeq(inbox') /\ DOMAIN inbox' = 1 .. Len(inbox) + 1
        /\ inbox'[Len(inbox) + 1] = Message(c) /\ Len(inbox) \in Nat
    BY <1>4, AppendIs DEF DialoguesInv, SeqInv, IsSeq
  <2>3. Len(inbox') = Len(inbox) + 1
    <3>1. Len(inbox') \in Nat /\ DOMAIN inbox' = 1 .. Len(inbox')
      BY <2>2 DEF IsSeq
    <3> QED
      BY <2>2, <3>1
  <2>4. inbox' # <<>>
    BY <2>2
  <2>5. SettingOK(call)' /\ OwnAnswer'
    BY <1>4, <2>1, <2>2, <2>3, <2>4 DEF OwnAnswer, SettingOK
  <2> QED
    BY <1>1, <1>2, <2>5 DEF SettingInv
<1> QED
  BY <1>3, <1>4 DEF Ask, SendReq

\* The service serves the requests in order.  If the waiting call's is not the
\* next, it stays the last.
LEMMA ServeSettles ==
  ASSUME DialoguesInv, SettingInv, Serve
  PROVE  SettingInv'
<1> DEFINE m == Head(inbox)
<1>1. /\ inbox # <<>> /\ inbox' = Tail(inbox) /\ call' = call /\ ret' = NoReturn
  BY DEF Serve
<1>2. PICK i : /\ wire' = Append(wire, i) /\ i.ind = m.msg
               /\ \/ i.status # "SUCCESS" /\ store' = store
                  \/ i.fields \in Answers(m.msg) /\ store' = Stored(m.fields)
  <2>1. CASE \E fields \in Answers(m.msg) :
               /\ wire' = Append(wire, [ind |-> m.msg, status |-> "SUCCESS",
                                        fields |-> fields])
               /\ store' = Stored(m.fields)
    BY <2>1
  <2>2. CASE /\ wire' = Append(wire, [ind |-> m.msg, status |-> "GENERAL_FAILURE",
                                      fields |-> <<>>])
             /\ UNCHANGED store
    BY <2>2
  <2> QED
    BY <2>1, <2>2 DEF Serve
<1>3. DOMAIN store' = {"lockType", "xtraVersionCheckMode"}
  BY <1>2 DEF Stored, SettingInv
<1>4. /\ IsSeq(inbox') /\ DOMAIN inbox' = 1 .. Len(inbox) - 1
      /\ DOMAIN inbox = 1 .. Len(inbox) /\ Len(inbox) \in Nat \ {0}
      /\ m = inbox[1]
      /\ \A n \in 1 .. Len(inbox) - 1 : inbox'[n] = inbox[n + 1]
  BY <1>1, TailIs DEF DialoguesInv, SeqInv
<1>5. /\ DOMAIN wire' = 1 .. Len(wire) + 1 /\ DOMAIN wire = 1 .. Len(wire)
      /\ wire'[Len(wire) + 1] = i /\ Len(wire) \in Nat
  BY <1>2, AppendIs DEF DialoguesInv, SeqInv, IsSeq
<1> HIDE DEF m
<1>6. Len(inbox') = Len(inbox) - 1
  <2>1. Len(inbox') \in Nat /\ DOMAIN inbox' = 1 .. Len(inbox')
    BY <1>4 DEF IsSeq
  <2>2. \A j, k \in Nat : 1 .. j = 1 .. k => j <= k
    <3> SUFFICES ASSUME NEW j \in Nat, NEW k \in Nat, 1 .. j = 1 .. k, j > k
                 PROVE  FALSE
      OBVIOUS
    <3>1. j \in 1 .. j
      OBVIOUS
    <3> QED
      BY <3>1
  <2>3. Len(inbox) - 1 \in Nat
    BY <1>4
  <2>4. Len(inbox) - 1 <= Len(inbox') /\ Len(inbox') <= Len(inbox) - 1
    BY <1>4, <2>1, <2>2, <2>3
  <2> QED
    BY <2>1, <2>3, <2>4
<1>7. ASSUME call.by # "none"
      PROVE  SettingOK(call)' /\ OwnAnswer'
  <2>1. SettingOK(call) /\ inbox[Len(inbox)] = call
    BY <1>1, <1>7 DEF SettingInv, OwnAnswer
  <2>2. SettingOK(call)'
    BY <1>1, <2>1 DEF SettingOK
  <2>3. CASE Len(inbox) # 1
    <3>1. inbox' # <<>> /\ inbox'[Len(inbox')] = call
      BY <1>4, <1>6, <2>1, <2>3
    <3> QED
      BY <1>1, <2>2, <3>1 DEF OwnAnswer
  <2>4. CASE Len(inbox) = 1
    <3>1. inbox' = <<>> /\ m = call
      BY <1>4, <1>6, <2>1, <2>4 DEF IsSeq
    <3>2. TrueAnswer(call, i)'
      <4> SUFFICES ASSUME i.status = "SUCCESS"
                   PROVE  /\ call.by = "setGpsLock" => store'.lockType = call.arg
                          /\ call.by = "getGpsLock" /\ "lockType" \in DOMAIN i.fields =>
                               store'.lockType = i.fields.lockType
                          /\ call.by = "setXtraVersionCheck" =>
                               store'.xtraVersionCheckMode = ModeOf(call.arg)
        BY <1>1 DEF TrueAnswer
      <4>1. i.fields \in Answers(call.msg) /\ store' = Stored(call.fields)
        BY <1>2, <3>1
      <4>2. DOMAIN store = {"lockType", "xtraVersionCheckMode"}
        BY DEF SettingInv
      <4>3. call.by = "setGpsLock" => store'.lockType = call.arg
        BY <2>1, <4>1, <4>2 DEF SettingOK, Stored
      <4>4. call.by = "setXtraVersionCheck" =>
              store'.xtraVersionCheckMode = ModeOf(call.arg)
        BY <2>1, <4>1, <4>2 DEF SettingOK, Stored
      <4>5. call.by = "getGpsLock" /\ "lockType" \in DOMAIN i.fields =>
              store'.lockType = i.fields.lockType
        <5> SUFFICES ASSUME call.by = "getGpsLock", "lockType" \in DOMAIN i.fields
                     PROVE  store'.lockType = i.fields.lockType
          OBVIOUS
        <5>1. call.msg = "GET_ENGINE_LOCK" /\ call.fields = <<>>
          BY <2>1 DEF SettingOK, Checked
        <5>2. i.fields \in {<<>>, [lockType |-> store.lockType]}
          BY <4>1, <5>1 DEF Answers
        <5>3. i.fields = [lockType |-> store.lockType]
          BY <5>2
        <5>4. store'.lockType = store.lockType
          BY <4>1, <4>2, <5>1 DEF Stored
        <5> QED
          BY <5>3, <5>4
      <4> QED
        BY <4>3, <4>4, <4>5
    <3>3. m.msg = call.msg
      BY <3>1
    <3>4. ASSUME NEW n \in DOMAIN wire', wire'[n].ind = call.msg, Youngest(n)'
          PROVE  n = Len(wire) + 1
      BY <1>2, <1>5, <3>3, <3>4 DEF Youngest
    <3>5. OwnAnswer'
      BY <1>1, <1>5, <3>1, <3>2, <3>4 DEF OwnAnswer, TrueAnswer
    <3> QED
      BY <2>2, <3>5
  <2> QED
    BY <2>3, <2>4
<1> QED
  BY <1>1, <1>3, <1>7, NothingReturned DEF SettingInv

\* An event is not an answer that somebody waits for.
LEMMA EventSettles ==
  ASSUME DialoguesInv, SettingInv, NEW event, NEW payload, Event(event, payload),
         event \notin Awaited
  PROVE  SettingInv'
<1> DEFINE i == [ind |-> event, status |-> "SUCCESS", fields |-> payload]
<1>1. /\ wire' = Append(wire, i) /\ UNCHANGED <<call, inbox, store>>
      /\ ret' = NoReturn
  BY Zenon DEF Event
<1>2. i.ind = event
  OBVIOUS
<1> HIDE DEF i
<1>3. /\ DOMAIN wire' = 1 .. Len(wire) + 1 /\ DOMAIN wire = 1 .. Len(wire)
      /\ \A n \in DOMAIN wire : wire'[n] = wire[n]
      /\ wire'[Len(wire) + 1] = i /\ Len(wire) \in Nat
  BY <1>1, AppendIs DEF DialoguesInv, SeqInv, IsSeq
<1>4. ASSUME call.by # "none"
      PROVE  SettingOK(call)' /\ OwnAnswer'
  <2>1. SettingOK(call) /\ OwnAnswer /\ call.msg \in Awaited
    BY <1>4 DEF SettingInv, DialoguesInv, CallInv
  <2>2. CASE inbox # <<>> /\ inbox[Len(inbox)] = call
    BY <1>1, <2>1, <2>2 DEF OwnAnswer, SettingOK
  <2>3. CASE /\ inbox = <<>>
             /\ \A n \in DOMAIN wire :
                  wire[n].ind = call.msg /\ Youngest(n) => TrueAnswer(call, wire[n])
    <3>1. ASSUME NEW n \in DOMAIN wire', wire'[n].ind = call.msg, Youngest(n)'
          PROVE  TrueAnswer(call, wire'[n])
      <4>1. n \in DOMAIN wire
        BY <1>2, <1>3, <2>1, <3>1
      <4>2. Youngest(n)
        BY <1>3, <3>1, <4>1 DEF Youngest
      <4> QED
        BY <1>3, <2>3, <3>1, <4>1, <4>2
    <3>2. \A n \in DOMAIN wire' : TrueAnswer(call, wire'[n]) => TrueAnswer(call, wire[n])'
      BY <1>1 DEF TrueAnswer
    <3>3. OwnAnswer'
      BY <1>1, <2>3, <3>1, <3>2 DEF OwnAnswer
    <3> QED
      BY <1>1, <2>1, <3>3 DEF SettingOK
  <2> QED
    BY <2>1, <2>2, <2>3 DEF OwnAnswer
<1> QED
  BY <1>1, <1>4, NothingReturned DEF SettingInv

LEMMA EventsSettle ==
  ASSUME DialoguesInv, SettingInv, Events
  PROVE  SettingInv'
<1>1. /\ {"POSITION_REPORT", "GNSS_SV_INFO", "NI_NOTIFY_VERIFY_REQ", "ENGINE_STATE",
          "INJECT_PREDICTED_ORBITS_REQ", "LOCATION_SERVER_CONNECTION_REQ",
          "NMEA", "INJECT_TIME_REQ", "INJECT_POSITION_REQ", "WIFI_REQ",
          "FIX_SESSION_STATE", "GET_SERVER", "UNKNOWN"} \cap Awaited = {}
  BY DEF Awaited
<1>2. PICK event \in {"POSITION_REPORT", "GNSS_SV_INFO", "NI_NOTIFY_VERIFY_REQ",
          "ENGINE_STATE", "INJECT_PREDICTED_ORBITS_REQ",
          "LOCATION_SERVER_CONNECTION_REQ",
          "NMEA", "INJECT_TIME_REQ", "INJECT_POSITION_REQ", "WIFI_REQ",
          "FIX_SESSION_STATE", "GET_SERVER", "UNKNOWN"} :
        \E payload : Event(event, payload)
  BY Zenon DEF Events
<1> QED
  BY <1>1, <1>2, EventSettles

\* Taking an indication that is not for the call off the wire leaves the
\* youngest in place.
LEMMA NextIndSettles ==
  ASSUME DialoguesInv, SettingInv, NextInd, call' = call, ret' = NoReturn
  PROVE  SettingInv'
<1>1. /\ DOMAIN wire' = 1 .. Len(wire) - 1
      /\ DOMAIN wire = 1 .. Len(wire)
      /\ Len(wire) \in Nat \ {0}
      /\ \A n \in 1 .. Len(wire) - 1 : wire'[n] = wire[n + 1]
  BY TailIs DEF NextInd, DialoguesInv, SeqInv
<1>2. inbox' = inbox /\ store' = store
  BY DEF NextInd
<1>3. ASSUME call.by # "none"
      PROVE  SettingOK(call)' /\ OwnAnswer'
  <2>1. SettingOK(call) /\ OwnAnswer
    BY <1>3 DEF SettingInv
  <2>2. CASE inbox # <<>> /\ inbox[Len(inbox)] = call
    BY <1>2, <2>1, <2>2 DEF OwnAnswer, SettingOK
  <2>3. CASE /\ inbox = <<>>
             /\ \A n \in DOMAIN wire :
                  wire[n].ind = call.msg /\ Youngest(n) => TrueAnswer(call, wire[n])
    <3>1. ASSUME NEW n \in DOMAIN wire', wire'[n].ind = call.msg, Youngest(n)'
          PROVE  TrueAnswer(call, wire'[n])
      <4>1. n + 1 \in DOMAIN wire /\ wire'[n] = wire[n + 1]
        BY <1>1
      <4>2. Youngest(n + 1)
        <5> SUFFICES ASSUME NEW k \in DOMAIN wire, k > n + 1
                     PROVE  wire[k].ind # wire[n + 1].ind
          BY DEF Youngest
        <5>1. k - 1 \in DOMAIN wire' /\ k - 1 > n /\ wire'[k - 1] = wire[k]
          BY <1>1
        <5> QED
          BY <3>1, <4>1, <5>1 DEF Youngest
      <4> QED
        BY <2>3, <3>1, <4>1, <4>2
    <3>2. \A n \in DOMAIN wire' : TrueAnswer(call, wire'[n]) => TrueAnswer(call, wire[n])'
      BY <1>2 DEF TrueAnswer
    <3>3. OwnAnswer'
      BY <1>2, <2>3, <3>1, <3>2 DEF OwnAnswer
    <3> QED
      BY <2>1, <3>3 DEF SettingOK
  <2> QED
    BY <2>1, <2>2, <2>3 DEF OwnAnswer
<1> QED
  BY <1>2, <1>3, NothingReturned DEF SettingInv

\* A call that takes an answer of its kind, and leaves none on the way, has taken
\* the youngest, which is true.
LEMMA TakeAnswerSettles ==
  ASSUME DialoguesInv, SettingInv, TakeAnswer
  PROVE  SettingInv'
<1>1. CASE call.msg # Ind.ind
  BY <1>1, NextIndSettles DEF TakeAnswer
<1>2. CASE call.msg = Ind.ind
  <2>1. /\ call' = NoCall /\ Returns(call, "SUCCESS", Ind)
        /\ inbox' = inbox /\ store' = store
    BY <1>2 DEF TakeAnswer, NextInd
  <2>2. /\ ret'.by = call.by /\ ret'.arg = call.arg
        /\ ret'.value = Result(call.by, "SUCCESS", Ind)
    BY <2>1 DEF Returns
  <2> DEFINE Coming == \/ \E n \in DOMAIN inbox : inbox[n].msg = call.msg
                       \/ \E n \in DOMAIN wire' : wire'[n].ind = call.msg
  <2>3. SuccessMeansDone'
    <3>1. CASE call.by \notin Checked
      BY <2>2, <3>1, NothingReported DEF Checked
    <3>2. CASE call.by \in Checked /\ ~Succeeded("SUCCESS", Ind)
      <4>1. /\ call.by = "setGpsLock" => ret'.value # 0
            /\ call.by = "getGpsLock" => ret'.value = -1
            /\ call.by = "setXtraVersionCheck" => ret'.value # "SUCCESS"
        BY <2>2, <3>2 DEF Result
      <4> QED
        BY <2>2, <4>1, NothingReported
    <3>3. CASE call.by \in Checked /\ Coming
      <4>1. /\ call.by = "setGpsLock" => OnTheWay("SET_ENGINE_LOCK")'
            /\ call.by = "getGpsLock" => OnTheWay("GET_ENGINE_LOCK")'
            /\ call.by = "setXtraVersionCheck" => OnTheWay("SET_XTRA_VERSION_CHECK")'
        BY <2>1, <3>3 DEF SettingInv, SettingOK, Checked, OnTheWay
      <4> QED
        BY <2>2, <4>1 DEF SuccessMeansDone
    <3>4. CASE call.by \in Checked /\ Succeeded("SUCCESS", Ind) /\ ~Coming
      <4>1. OwnAnswer
        BY <3>4 DEF SettingInv, Checked
      <4>2. inbox = <<>>
        <5> SUFFICES ASSUME inbox # <<>>, inbox[Len(inbox)] = call
                     PROVE  FALSE
          BY <4>1 DEF OwnAnswer
        <5>1. Len(inbox) \in DOMAIN inbox
          BY TailIs DEF DialoguesInv, SeqInv
        <5> QED
          BY <3>4, <5>1
      <4>3. /\ 1 \in DOMAIN wire /\ Ind = wire[1]
            /\ \A k \in DOMAIN wire : k > 1 => k - 1 \in DOMAIN wire' /\ wire'[k - 1] = wire[k]
        <5>1. /\ DOMAIN wire' = 1 .. Len(wire) - 1
              /\ DOMAIN wire = 1 .. Len(wire)
              /\ Len(wire) \in Nat \ {0} /\ Head(wire) = wire[1]
              /\ \A n \in 1 .. Len(wire) - 1 : wire'[n] = wire[n + 1]
          BY TailIs DEF TakeAnswer, NextInd, DialoguesInv, SeqInv
        <5> QED
          BY <5>1 DEF Ind
      <4>4. Youngest(1)
        BY <1>2, <3>4, <4>3 DEF Youngest
      <4>5. \A n \in DOMAIN wire :
              wire[n].ind = call.msg /\ Youngest(n) => TrueAnswer(call, wire[n])
        BY <4>1, <4>2 DEF OwnAnswer
      <4>6. TrueAnswer(call, Ind)
        BY <1>2, <4>3, <4>4, <4>5
      <4>7. /\ call.by = "setGpsLock" => store.lockType = call.arg
            /\ call.by = "getGpsLock" /\ "lockType" \in DOMAIN Ind.fields =>
                 store.lockType = Ind.fields.lockType
            /\ call.by = "setXtraVersionCheck" =>
                 store.xtraVersionCheckMode = ModeOf(call.arg)
        BY <3>4, <4>6 DEF TrueAnswer, Succeeded
      <4>8. call.by = "getGpsLock" /\ ret'.value # -1 =>
              "lockType" \in DOMAIN Ind.fields /\ ret'.value = Ind.fields.lockType
        BY <2>2 DEF Result, Has
      <4> QED
        BY <2>1, <2>2, <4>7, <4>8 DEF SuccessMeansDone
    <3> QED
      BY <3>1, <3>2, <3>3, <3>4
  <2> QED
    BY <2>1, <2>3 DEF SettingInv, NoCall
<1> QED
  BY <1>1, <1>2

LEMMA SettingStep ==
  ASSUME DialoguesInv, SettingInv, [Next]_vars
  PROVE  SettingInv'
<1>1. CASE Methods
  BY <1>1, MethodsOK, AskSettles
<1>2. CASE AnswerUser
  <2>1. PICK note \in notes, userResponse \in {"ACCEPT", "NORESP", "OTHER"} :
          Ask(informNiResponse(userResponse, note.request, heap[note.ptr].holds))
    BY <1>2 DEF AnswerUser
  <2>2. heap[note.ptr].holds = note.request /\ note.request \in NiRequests
    BY DEF DialoguesInv, NotesInv
  <2>3. CallOK(informNiResponse(userResponse, note.request, heap[note.ptr].holds))
    BY <2>2, NiResponseOK
  <2> QED
    BY <2>1, <2>3, AskSettles
<1>3. CASE Timeout
  <2>1. SuccessMeansDone'
    BY <1>3, NoAnswerNoSuccess DEF Timeout
  <2> QED
    BY <1>3, <2>1 DEF Timeout, service, SettingInv, NoCall
<1>4. CASE Serve
  BY <1>4, ServeSettles
<1>5. CASE Events
  BY <1>5, EventsSettle
<1>6. CASE CallbackThread
  <2>1. CASE TakeAnswer
    BY <2>1, TakeAnswerSettles
  <2>2. CASE DropInd \/ TakeEvent \/ TakeNiRequest
    <3>1. NextInd /\ call' = call /\ ret' = NoReturn
      BY <2>2 DEF DropInd, TakeEvent, TakeNiRequest, EventAt
    <3> QED
      BY <3>1, NextIndSettles
  <2> QED
    BY <1>6, <2>1, <2>2 DEF CallbackThread
<1>7. CASE UNCHANGED vars
  BY <1>7 DEF vars, service, SettingInv, SettingOK, OwnAnswer, Youngest, TrueAnswer,
    SuccessMeansDone, OnTheWay
<1> QED
  BY <1>1, <1>2, <1>3, <1>4, <1>5, <1>6, <1>7 DEF Next

\* Success reported by a method that looks at the status of the indication means
\* that the service has the setting, however many earlier calls of its kind gave
\* up or failed, unless an answer of its kind is still on its way.
THEOREM SuccessIsTrue == Spec => []SuccessMeansDone
<1>1. Init => SettingInv
  BY NothingReturned DEF Init, SettingInv, SuccessMeansDone, NoCall, NoReturn
<1>2. DialoguesInv /\ SettingInv /\ [Next]_vars => SettingInv'
  BY SettingStep
<1>3. SettingInv => SuccessMeansDone
  BY DEF SettingInv
<1> QED
  BY <1>1, <1>2, <1>3, Invariance, PTL DEF Spec
=============================================================================
