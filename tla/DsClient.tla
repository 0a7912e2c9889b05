------------------------------ MODULE DsClient ------------------------------
(***************************************************************************)
(* The data call for emergency SUPL sessions: ds_client.c, and the data    *)
(* call operations of LocApiV02 that use it.                               *)
(*                                                                         *)
(* Opening a call takes four things in turn, a notifier for the WDS        *)
(* service, a WDS client, a session block and a DSI handle, and any step   *)
(* may fail with some of them in hand.  One thread opens, starts, stops    *)
(* and closes calls; the thread of dsi_netctrl delivers events with the    *)
(* address of the block as a cookie.  Notifiers and WDS clients are named  *)
(* after the open that made them.                                          *)
(***************************************************************************)
EXTENDS Naturals, Sequences, FiniteSets

CONSTANTS
  Blocks,       \* addresses calloc may return
  NULL,
  ProfileLists, \* lists of profiles a modem may have
  MaxWaits,     \* DS_CLIENT_SERVICE_TIMEOUT_TOTAL / DS_CLIENT_SERVICE_TIMEOUT
  Faults,       \* which calls may fail
  Retries,      \* told ENGINE_BUSY, the adapter opens again without a close
  ReleaseWaits, \* dsi_rel_data_srvc_hndl waits for a callback in progress
  MaxOpens,     \* bound: opens by the adapter
  MaxDowns      \* bound: times the WDS service goes away

ProfileType == [emergency : {"absent", "no", "yes"},
                pdp : {"absent", "ipv4", "ppp", "ipv6", "ipv4v6"}]

ASSUME DsAssumption ==
  /\ NULL \notin Blocks
  /\ \A ps \in ProfileLists : ps \in Seq(ProfileType)
  /\ MaxWaits \in Nat \ {0}
  /\ Faults \subseteq {"notifier", "init", "alloc", "list", "settings", "release",
                       "session", "dsi", "start", "stop"}
  /\ Retries \in BOOLEAN
  /\ ReleaseWaits \in BOOLEAN
  /\ MaxOpens \in Nat
  /\ MaxDowns \in Nat

VARIABLES
  pc,        \* where the thread of the adapter is
  opens,     \* number of the open
  waits,     \* timeout, in units of DS_CLIENT_SERVICE_TIMEOUT
  ret,       \* ret of ds_client_open_call
  list,      \* the list of profiles, what is left of it after profile i
  settings,  \* profile_settings_resp_msg
  call,      \* the profile index and the IP version found
  result,    \* what openAndStartDataCall returned
  handle,    \* dsClientHandle
  heap,      \* the session blocks
  dsi,       \* DSI handles that are not released
  wds,       \* WDS clients that are not released
  notifiers, \* notifiers that are not released
  service,   \* is the WDS service up, how often it went away
  sig,       \* the signal of this open's notifier
  cb         \* the thread of dsi_netctrl

open  == <<opens, waits, ret, list, settings, call>>
env   == <<service, sig>>
qmi   == <<wds, notifiers>>
block == <<handle, heap, dsi>>
vars  == <<pc, open, result, block, qmi, env, cb>>

IpVersions == {"4", "6", "4_6"}
NoCall == [found |-> FALSE, index |-> 0, ip |-> "4"]
Unset  == [emergency |-> "absent", pdp |-> "absent"]

DsiHandle == [id : 1 .. MaxOpens, user : Blocks,
              state : {"none", "starting", "up", "stopping"},
              index : Nat, ip : IpVersions]

TypeOK ==
  /\ pc \in {"idle", "look", "notify", "clear", "lookup", "wait", "again",
             "info", "list", "settings", "next", "release", "session", "fill",
             "dsi", "start", "free"}
  /\ opens \in 0 .. MaxOpens
  /\ waits \in 0 .. MaxWaits
  /\ ret \in {"SUCCESS", "RETRY_LATER", "FAILURE"}
  /\ result \in {"none", "SUCCESS", "ENGINE_BUSY", "UNSUPPORTED"}
  /\ list \in [all : ProfileLists \cup {<<>>}, i : Nat]
  /\ settings \in ProfileType
  /\ call \in [found : BOOLEAN, index : Nat, ip : IpVersions]
  /\ handle \in Blocks \cup {NULL}
  /\ heap \in [Blocks -> [alloc : BOOLEAN, caller : BOOLEAN, dsi : 0 .. MaxOpens]]
  /\ dsi \subseteq DsiHandle
  /\ wds \cup notifiers \subseteq 1 .. MaxOpens
  /\ service \in [up : BOOLEAN, downs : 0 .. MaxDowns]
  /\ sig \in BOOLEAN
  /\ cb \in [at : {"idle", "run"}, block : Blocks \cup {NULL}, id : 0 .. MaxOpens,
             report : {"opened", "closed"}]

Zeroed == [alloc |-> TRUE, caller |-> FALSE, dsi |-> 0]
Freed  == [alloc |-> FALSE, caller |-> FALSE, dsi |-> 0]

Init ==
  /\ pc = "idle"
  /\ opens = 0 /\ waits = 0
  /\ ret = "FAILURE"
  /\ list = [all |-> <<>>, i |-> 0]
  /\ settings = Unset
  /\ call = NoCall
  /\ result = "none"
  /\ handle = NULL
  /\ heap = [b \in Blocks |-> Freed]
  /\ dsi = {}
  /\ wds = {} /\ notifiers = {}
  /\ service \in [up : BOOLEAN, downs : {0}]
  /\ sig = FALSE
  /\ cb = [at |-> "idle", block |-> NULL, id |-> 0, report |-> "closed"]

MayFail(step) == step \in Faults

\* openAndStartDataCall returns what it makes of the failure r.
ReturnWith(r) ==
  /\ ret' = r
  /\ result' = IF r = "RETRY_LATER" THEN "ENGINE_BUSY" ELSE "UNSUPPORTED"
  /\ pc' = "idle"

-----------------------------------------------------------------------------
(* ds_client_qmi_ctrl_point_init: wait for the service, become its client *)

\* The adapter closes a session before it opens the next one.
openAndStartDataCall ==
  /\ pc = "idle" /\ opens < MaxOpens
  /\ handle = NULL \/ (Retries /\ result = "ENGINE_BUSY")
  /\ pc' = "look"
  /\ opens' = opens + 1
  /\ waits' = 0
  /\ call' = NoCall /\ settings' = Unset
  /\ UNCHANGED <<ret, list, result, block, qmi, env, cb>>

LookFirst ==
  /\ pc = "look"
  /\ pc' = IF service.up THEN "info" ELSE "notify"
  /\ UNCHANGED <<open, result, block, qmi, env, cb>>

NotifierInit ==
  /\ pc = "notify"
  /\ notifiers' = notifiers \cup {opens}
  /\ sig' = service.up
  /\ pc' = "clear"
  /\ UNCHANGED <<open, result, block, wds, service, cb>>

SignalClear ==
  /\ pc = "clear"
  /\ sig' = FALSE
  /\ pc' = "lookup"
  /\ UNCHANGED <<open, result, block, qmi, service, cb>>

LookUp ==
  /\ pc = "lookup"
  /\ pc' = IF service.up THEN "info" ELSE "wait"
  /\ UNCHANGED <<open, result, block, qmi, env, cb>>

Signalled ==
  /\ pc = "wait" /\ sig
  /\ pc' = "again"
  /\ UNCHANGED <<open, result, block, qmi, env, cb>>

MoreWaits_Forever(w) == TRUE

\* The condition of the loop on the timeout.
MoreWaits(w) == w < MaxWaits

TimedOut ==
  /\ pc = "wait" /\ ~sig
  /\ waits' = IF waits < MaxWaits THEN waits + 1 ELSE waits
  /\ IF MoreWaits(waits + 1)
     THEN pc' = "clear" /\ UNCHANGED <<ret, result>>
     ELSE ReturnWith("FAILURE")
  /\ UNCHANGED <<opens, list, settings, call, block, qmi, env, cb>>

\* After a signal the service is looked up once more, and the loop ends.
LookAgain ==
  /\ pc = "again"
  /\ IF service.up THEN pc' = "info" /\ UNCHANGED <<ret, result>>
     ELSE ReturnWith("FAILURE")
  /\ UNCHANGED <<opens, waits, list, settings, call, block, qmi, env, cb>>

ClientInit_KeepsNotifier ==
  /\ pc = "info" /\ service.up
  /\ wds' = wds \cup {opens}
  /\ pc' = "list"
  /\ UNCHANGED <<open, result, block, notifiers, env, cb>>

\* qmi_client_init, and the notifier has done its work.
ClientInit ==
  /\ pc = "info" /\ service.up
  /\ wds' = wds \cup {opens}
  /\ notifiers' = notifiers \ {opens}
  /\ pc' = "list"
  /\ UNCHANGED <<open, result, block, env, cb>>

\* The steps that make ds_client_open_call return at once.
StepFails ==
  /\ \/ pc = "notify" /\ MayFail("notifier")
     \/ pc = "info" /\ (MayFail("init") \/ ~service.up)
     \/ pc = "list" /\ (MayFail("list") \/ ~service.up)
     \/ pc = "settings" /\ (MayFail("settings") \/ ~service.up)
  /\ ReturnWith("FAILURE")
  /\ UNCHANGED <<opens, waits, list, settings, call, block, qmi, env, cb>>

-----------------------------------------------------------------------------
(* The search for a profile that supports emergency calls *)

\* When the request cannot be allocated ds_client_get_profile_list reports
\* success, and the list is the empty one it was given.
GetProfileList ==
  /\ pc = "list"
  /\ \E ps \in (IF MayFail("alloc") THEN {<<>>} ELSE {})
               \cup (IF service.up THEN ProfileLists ELSE {}) :
       list' = [all |-> ps, i |-> 1]
  /\ ret' = "SUCCESS"
  /\ pc' = "settings"
  /\ UNCHANGED <<opens, waits, settings, call, result, block, qmi, env, cb>>

IpVersion(pdp) ==
  CASE pdp = "ipv6" -> "6" [] pdp = "ipv4v6" -> "4_6" [] OTHER -> "4"

\* The decoder writes the fields that are in the message, and no others.
Decoded(old, profile) ==
  [f \in {"emergency", "pdp"} |->
     IF profile[f] = "absent" THEN old[f] ELSE profile[f]]

GetProfileSettings ==
  /\ pc = "settings" /\ list.i <= Len(list.all) /\ service.up
  /\ settings' = Decoded(settings, list.all[list.i])
  /\ ret' = "SUCCESS"
  /\ pc' = "next"
  /\ UNCHANGED <<opens, waits, list, call, result, block, qmi, env, cb>>

Found ==
  /\ pc = "next" /\ settings.emergency = "yes"
  /\ call' = [found |-> TRUE, index |-> list.i, ip |-> IpVersion(settings.pdp)]
  /\ pc' = "release"
  /\ UNCHANGED <<opens, waits, ret, list, settings, result, block, qmi, env, cb>>

Cleared_Not == settings

\* The memset between two profiles.
Cleared == Unset

NextProfile ==
  /\ pc = "next" /\ settings.emergency # "yes"
  /\ settings' = Cleared
  /\ list' = [list EXCEPT !.i = @ + 1]
  /\ pc' = "settings"
  /\ UNCHANGED <<opens, waits, ret, call, result, block, qmi, env, cb>>

NoneLeft ==
  /\ pc = "settings" /\ list.i > Len(list.all)
  /\ pc' = "release"
  /\ UNCHANGED <<open, result, block, qmi, env, cb>>

-----------------------------------------------------------------------------
(* The session *)

\* The WDS client has done its work.  A release that fails is an error, and
\* the call goes on all the same.
ClientRelease ==
  /\ pc = "release"
  /\ \E ok \in BOOLEAN :
       /\ ~ok => MayFail("release")
       /\ wds' = IF ok THEN wds \ {opens} ELSE wds
       /\ IF call.found
          THEN /\ ret' = IF ok THEN ret ELSE "FAILURE"
               /\ pc' = "session"
               /\ UNCHANGED result
          ELSE ReturnWith("FAILURE")
  /\ UNCHANGED <<opens, waits, list, settings, call, block, notifiers, env, cb>>

Calloc ==
  /\ pc = "session"
  /\ \E b \in Blocks :
       /\ ~heap[b].alloc
       /\ heap' = [heap EXCEPT ![b] = Zeroed]
       /\ handle' = b
  /\ pc' = "fill"
  /\ UNCHANGED <<open, result, dsi, qmi, env, cb>>

\* The null pointer is stored in the caller's handle.
CallocFails ==
  /\ pc = "session"
  /\ MayFail("session") \/ \A b \in Blocks : heap[b].alloc
  /\ handle' = NULL
  /\ ReturnWith("FAILURE")
  /\ UNCHANGED <<opens, waits, list, settings, call, heap, dsi, qmi, env, cb>>

FillCaller_Late ==
  /\ pc = "fill"
  /\ pc' = "dsi"
  /\ UNCHANGED <<open, result, block, qmi, env, cb>>

FillCaller ==
  /\ pc = "fill"
  /\ heap' = [heap EXCEPT ![handle].caller = TRUE]
  /\ pc' = "dsi"
  /\ UNCHANGED <<open, result, handle, dsi, qmi, env, cb>>

\* With a DSI handle the call is started, unless the release had failed.
GetDsiHandle ==
  /\ pc = "dsi"
  /\ dsi' = dsi \cup {[id |-> opens, user |-> handle, state |-> "none",
                       index |-> 0, ip |-> "4"]}
  /\ heap' = [heap EXCEPT ![handle].dsi = opens]
  /\ IF ret = "SUCCESS" THEN pc' = "start" /\ UNCHANGED <<ret, result>>
     ELSE ReturnWith(ret)
  /\ UNCHANGED <<opens, waits, list, settings, call, handle, qmi, env, cb>>

\* The block stays, without a DSI handle.
GetDsiHandleFails ==
  /\ pc = "dsi" /\ MayFail("dsi")
  /\ ReturnWith("RETRY_LATER")
  /\ UNCHANGED <<opens, waits, list, settings, call, block, qmi, env, cb>>

Own == {d \in dsi : handle # NULL /\ d.id = heap[handle].dsi}

\* ds_client_start_call.
StartCall ==
  /\ pc = "start"
  /\ \E ok \in BOOLEAN :
       /\ ~ok => MayFail("start")
       /\ dsi' = (dsi \ Own) \cup
                 {[d EXCEPT !.state = IF ok THEN "starting" ELSE "none",
                            !.index = call.index, !.ip = call.ip] : d \in Own}
       /\ result' = IF ok THEN "SUCCESS" ELSE "UNSUPPORTED"
  /\ pc' = "idle"
  /\ UNCHANGED <<open, handle, heap, qmi, env, cb>>

stopDataCall ==
  /\ pc = "idle" /\ handle # NULL
  /\ \E ok \in BOOLEAN :
       /\ ~ok => MayFail("stop")
       /\ dsi' = IF ok THEN (dsi \ Own) \cup
                            {[d EXCEPT !.state = IF d.state = "none" THEN @
                                                 ELSE "stopping"] : d \in Own}
                 ELSE dsi
  /\ UNCHANGED <<pc, open, result, handle, heap, qmi, env, cb>>

\* ds_client_close_call up to the release of the DSI handle; the block is freed
\* next.
closeDataCall ==
  /\ pc = "idle" /\ handle # NULL
  /\ ReleaseWaits => cb.at = "idle" \/ cb.id # heap[handle].dsi
  /\ dsi' = dsi \ Own
  /\ heap' = [heap EXCEPT ![handle].dsi = 0]
  /\ pc' = "free"
  /\ UNCHANGED <<open, result, handle, qmi, env, cb>>

HandleAfterFree_Kept == handle

\* The caller's handle is reset with the block.
HandleAfterFree == NULL

FreeSession ==
  /\ pc = "free"
  /\ heap' = [heap EXCEPT ![handle] = Freed]
  /\ handle' = HandleAfterFree
  /\ result' = "none"
  /\ pc' = "idle"
  /\ UNCHANGED <<open, dsi, qmi, env, cb>>

-----------------------------------------------------------------------------
(* dsi_netctrl and the WDS service *)

\* The network comes up (also reported as WDS_CONNECTED) or goes away.
NetEvent(d, report) ==
  /\ cb.at = "idle"
  /\ d.state \in (IF report = "opened" THEN {"starting", "up"}
                  ELSE {"starting", "up", "stopping"})
  /\ dsi' = (dsi \ {d}) \cup
            {[d EXCEPT !.state = IF report = "opened" THEN "up" ELSE "none"]}
  /\ cb' = [at |-> "run", block |-> d.user, id |-> d.id, report |-> report]
  /\ UNCHANGED <<pc, open, result, handle, heap, qmi, env>>

\* net_ev_cb calls the adapter back: reportDataCallOpened, -Closed.
net_ev_cb ==
  /\ cb.at = "run"
  /\ cb' = [cb EXCEPT !.at = "idle"]
  /\ UNCHANGED <<pc, open, result, block, qmi, env>>

ServiceUp ==
  /\ ~service.up
  /\ service' = [service EXCEPT !.up = TRUE]
  /\ sig' = (sig \/ opens \in notifiers)
  /\ UNCHANGED <<pc, open, result, block, qmi, cb>>

ServiceDown ==
  /\ service.up /\ service.downs < MaxDowns
  /\ service' = [up |-> FALSE, downs |-> service.downs + 1]
  /\ UNCHANGED <<pc, open, result, block, qmi, sig, cb>>

-----------------------------------------------------------------------------
Opening ==
  \/ LookFirst \/ NotifierInit \/ SignalClear \/ LookUp \/ Signalled \/ TimedOut
  \/ LookAgain \/ ClientInit \/ StepFails
  \/ GetProfileList \/ GetProfileSettings \/ Found \/ NextProfile \/ NoneLeft
  \/ ClientRelease \/ Calloc \/ CallocFails \/ FillCaller
  \/ GetDsiHandle \/ GetDsiHandleFails \/ StartCall

Next ==
  \/ openAndStartDataCall \/ Opening
  \/ stopDataCall \/ closeDataCall \/ FreeSession
  \/ \E d \in dsi, report \in {"opened", "closed"} : NetEvent(d, report)
  \/ net_ev_cb
  \/ ServiceUp \/ ServiceDown

Spec == Init /\ [][Next]_vars

\* The thread of the adapter runs, and every wait it does has a timeout.
\* Nothing is assumed of the service.
FairSpec == Spec /\ WF_vars(Opening)

-----------------------------------------------------------------------------
\* Events find the session they are for: its block is allocated and knows whom
\* to call, from the moment the DSI handle exists until it is released.
EventFindsCaller ==
  /\ \A d \in dsi : heap[d.user].alloc /\ heap[d.user].caller
  /\ cb.at = "run" => heap[cb.block].alloc /\ heap[cb.block].caller

\* Between calls every session block and every DSI handle can be reached from
\* the adapter's handle, so that closeDataCall can release it.
SessionsReachable ==
  pc = "idle" =>
    /\ {b \in Blocks : heap[b].alloc} = {handle} \ {NULL}
    /\ dsi = Own
    /\ \A d \in dsi : d.user = handle

\* The IP version of a type of PDP, IPv4 when there is none.  Of a type that
\* the code does not know it is UnknownPdpIsDual that says what is promised.
Version == [absent |-> "4", ipv4 |-> "4", ipv6 |-> "6", ipv4v6 |-> "4_6"]

\* The call is made with the first profile that supports emergency calls, and
\* with the IP version of that profile: nothing is carried over from the
\* settings of the profiles before it.
FirstEmergencyProfile ==
  pc = "idle" /\ result = "SUCCESS" =>
    \A d \in Own :
      LET yes == {i \in DOMAIN list.all : list.all[i].emergency = "yes"}
      IN  /\ d.index \in yes /\ \A i \in yes : d.index <= i
          /\ \A pdp \in DOMAIN Version :
               list.all[d.index].pdp = pdp => d.ip = Version[pdp]

\* A profile of an unknown type of PDP is used for IPv4 and IPv6, as the message
\* in the code says; the code sets IPv4.
UnknownPdpIsDual ==
  pc = "idle" /\ result = "SUCCESS" =>
    \A d \in Own :
      list.all[d.index].pdp \notin DOMAIN Version => d.ip = "4_6"

\* An open that succeeds has given back its notifier and its WDS client.
CleanAfterSuccess ==
  pc = "idle" /\ result = "SUCCESS" => opens \notin wds \cup notifiers

\* openAndStartDataCall returns, also when the WDS service never comes up.
OpenReturns == (pc = "look") ~> (pc = "idle")
=============================================================================
