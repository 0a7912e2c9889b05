# A TLA+ model of the location API (loc_api_v02)

The repository is the modem-facing half of a GPS HAL: it turns the calls of the
location adapter into QMI requests to the location service on the modem and the
service's indications into callbacks. This directory holds TLA+ modules that
model its control flow, TLC configurations that check them on small instances,
and proofs, checked by TLAPS, that hold for every instance.

Source paths below are relative to `src/loc_api/`.

## 1. Inventory

### loc_sync_req (`loc_api_v02/loc_api_sync_req.c`)

Turns request + later indication into one blocking call.

* **State.** Eight slots (`loc_sync_array`): `slot_in_use[]`, and per slot the
  client, the indication waited for, a pointer to the caller's buffer (in the
  caller's stack frame), `ind_is_waiting`, `ind_has_arrived`; `in_use`; one
  global mutex, and a lock and a condition variable per slot.
* **Operations.** `loc_sync_req_init`, `loc_sync_send_req` (= allocate a slot,
  fill it in, send, wait, free it), `loc_sync_process_ind`.
* **Interaction.** Called by any thread of the adapter; `loc_sync_process_ind`
  is called on QMI's callback thread through `globalRespCb`.
* **Hard.** Indication before wait, after the timeout, for a caller that gave
  up; two callers of the same kind; the pool full; free without the slot lock.
* **Correct if** a slot has one owner, a buffer is written only during its
  call and only with the kind of answer asked for, no wakeup is lost, success
  means answered, and every call returns.

### loc_api_v02_client (`loc_api_v02/loc_api_v02_client.c`)

Wraps the QMI client library.

* **State.** Per client a heap block (`locClientCbDataStructT`): cookie, QMI
  handle, callbacks, registered event mask, a pointer `pMe` to itself that tells
  a live block from a freed one; the cached list of supported messages.
* **Operations.** `locClientOpen` (wait for the service, `qmi_client_init`,
  register events, up to 21 tries), `locClientClose`, `locClientSendReq`
  (validate, send, follow the event mask), `locClientIndCb`,
  `locClientErrorCb`, `locClientSupportMsgCheck`, table look-ups.
* **Hard.** Indications and errors that arrive during open or close; failure of
  the release; waiting for a service that never comes; restart of the modem.
* **Correct if** no callback runs on a freed client, every error after a
  successful open reaches the adapter, a failed open leaves nothing behind, and
  the mask kept is the mask registered.

### LocApiV02 (`loc_api_v02/LocApiV02.cpp`)

The adapter.

* **State.** `clientHandle`, `mMask`, `mQmiMask`, `mInSession`, `mEngineOn`, the
  data-call handle, and a message queue to the adapter's own thread.
* **Operations.** open, close, startFix, stopFix, about twenty request wrappers
  around `loc_sync_send_req`, `setXtraData` (a file in parts), event and error
  callbacks, data calls.
* **Hard.** The engine-state report is acted on later, on another thread, while
  start and stop change the event mask; the service restarts during a session;
  several requests in a row of which one fails; narrow counters.
* **Correct if** tracking events are registered exactly while a session is on
  (or the engine has not stopped yet), a restart restores the registration, and
  a file is injected part by part with the right offsets.

### ds_client (`ds_api/ds_client.c`)

Starts an emergency data call: finds a profile over WDS, then opens and starts
a DSI handle.

* **State.** Global: the DSI library's one-time initialisation; per call a
  heap block with the DSI handle and the caller's callbacks.
* **Hard.** Errors in the middle of open; a call that fails to start; network
  events on another thread during close.
* **Correct if** everything acquired is released once on every path.

### location_service_v02 (`loc_api_v02/location_service_v02.c`, `.h`)

Generated: the messages of the service, their fields and what may be in them,
and the tables from which QMI encodes them. Two thirds of the repository's lines.

* **State.** None.
* **Interaction.** Every request is a structure of the header in which the
  optional fields have a validity flag each; the client and the adapter have
  their own lists of messages, written by hand.
* **Hard.** Nothing checks at run time that a request has its mandatory fields,
  that a value is one of the enumeration or that a list fits; tables in two
  files must agree.
* **Correct if** every request that is sent is one the interface describes, and
  the client's tables name what the service has.

### Not modelled

* Of `location_service_v02`, the encodings (types, offsets and sizes of TLVs) and
  the messages that no method sends or reads: geofences, batching, sensor data,
  certificates, cells.
* `loc_api_v02_log.*` and `loc_util_log.h` only name things for the log; build
  files.
* Data that nothing depends on: measured values, the text of notifications
  (`hexcode`, `decodeAddress`, `convertNiEncoding`), time stamps, the technology
  mask of positions.
* `locClientGetSizeByRespIndId` and its like are modelled by the tables they
  search, not by sizes. `loc_sync_process_ind` relies on the sizes only to know
  how much to copy.
* `LocApiBase`, the engine above it, QMI, DSI and the modem are not in the
  repository. What the code relies on is stated with the modules below and
  marked external in `PROJECT.json`.

## 2. Modules

| module | what it is |
| --- | --- |
| `SyncCall` | abstract: what `loc_sync_send_req` promises its callers |
| `LocSyncReq` | `loc_api_sync_req.c`, one action per critical section |
| `LocSyncReqRefinement` | the mapping under which `LocSyncReq` implements `SyncCall` |
| `LocSyncReqProofs` | the inductive invariant of `LocSyncReq` and its theorems |
| `LocSyncReqRefinementProofs` | whose answer a call gets, and that the mapping is right |
| `MCLocSyncReq` | instances for TLC |
| `EventMask` | `convertMask`, `adjustMaskForNoSession` and the events they are about |
| `LocApiSession` | sessions, event registration and restart: `LocApiV02.cpp` over `loc_api_v02_client.c` |
| `LocApiSessionProofs` | its inductive invariant and theorems |
| `MCLocApiSession` | instances for TLC |
| `LocClient` | the life of a client: open and close against the callback thread |
| `LocClientProofs`, `MCLocClient` | its theorems; its instance |
| `FileTransfer` | abstract: what the injection of a file promises |
| `XtraInjection` | `setXtraData` with its narrow counters |
| `XtraInjectionRefinement` | the mapping under which `XtraInjection` implements `FileTransfer` |
| `XtraInjectionProofs`, `MCXtraInjection` | the theorems of both; their instance |
| `DsClient` | `ds_client.c` and the data calls of `LocApiV02` |
| `DsClientProofs`, `MCDsClient` | its theorems; its instance |
| `SupportedMsgs` | `locClientSupportMsgCheck`, `checkQmiMsgsSupported` |
| `SupportedMsgsProofs`, `MCSupportedMsgs` | its theorems; its instance |
| `LocationService` | the interface of the service: its messages, their fields and values |
| `ClientMessages` | tables and switches of the client: which messages it knows, how it sends and takes them |
| `AidingData` | the request that `deleteAidingData` builds, and what was asked for |
| `Requests` | every method of `LocApiV02` that sends one request: message, result |
| `Reports` | `eventCb` and the `report` functions |
| `Dialogues` | composes the last five: calls, indications, requests to the user |
| `DialoguesProofs`, `MCDialogues` | its theorems; its instance |

### LocSyncReq

A caller goes through `pc`:

    idle -> alloced -> selected -> sending -> sent -> waiting -> freeing -> returned -> idle

| action | code |
| --- | --- |
| `loc_sync_req_init` | the whole function; any later call changes nothing |
| `loc_alloc_slot`, `BufferFull` | the search under the global mutex, with and without a free slot |
| `loc_sync_select_ind` | the slot's fields are filled in under the slot lock |
| `Transmit`, `SendReturns`, `SendFails` | `locClientSendReq`: the request leaves; the call returns |
| `loc_sync_wait_for_ind` | up to `pthread_cond_timedwait` |
| `Woken`, `WokenSpuriously`, `TimedOut` | that call returns and the lock is held again |
| `loc_free_slot` | under the global mutex |
| `Leave` | the adapter method has used the result; its frame is popped |
| `loc_sync_process_ind`, `VisitSlot`, `EndScan` | entry with the global mutex, one turn of the loop per slot lock, exit |

`loc_sync_process_ind` is the only code that holds the global mutex while it
waits for another lock, so the mutex is "held" exactly while `scan` is not
`NoScan`, and the actions that need it have the guard `MutexFree`. Sections
under a slot lock contain no other blocking call and are single actions.

Identity of data: an indication is a record of client, id and the call whose
request it answers. The code never looks at the last (there is no transaction
id on the wire); the properties do. `mem` is the content of the payload buffer
in each stack frame; a frame is a thread and a call number, so that a pointer
into a frame that no longer exists can be told from one into the frame of the
thread's next call. The service takes requests into `asked` and answers them in
any order, late, or never. Left out: `ind_is_selected` and `req_id` (written,
never read) and logging.

`Faults` says what the environment may do: `"timeout"`, `"spurious"` wakeups,
and `"send_error"`, an error report for a request that the service has.

### SyncCall

No slots or locks: a call is idle, open or done; an indication fills the buffer
of one open call of its kind or is dropped; a call that wants a payload returns
success only with one; every call returns. A call may find its buffer filled a
second time before it returns - the code allows it, see the findings.

### LocApiSession

Three parties run concurrently. The **message thread** of the location engine
runs the methods of `LocApiV02` one at a time; `task.at` says which request of
the method it is about to make or waits for. The **callback thread** of QMI takes
indications and errors from `channel` and queues messages in `msgs`. The
**service** (`modem`) has an engine that other users switch too, and crashes and
comes back as a new incarnation.

| action | code |
| --- | --- |
| `open`, `startFix`, `stopFix` | the method up to the first request it waits for |
| `RegisterSent`, `RegisterReturns`, `RegisterFails` | `locClientRegisterEventMask`: the service takes the mask; the response updates the client's copy; or neither, or only the first |
| `AfterRegister` | what the method does with the result; part of the two actions above |
| `Connect`, `OpenReturns`, `OpenFails` | `locClientOpen`: a service is found and the mask registered; the callbacks are filled in and `open` stores its masks; all tries failed |
| `SetModeReturns`, `StartReturns`, `StartFixFails` | the two requests of `startFix` |
| `StopReturns` | the rest of `stopFix` |
| `MsgUpdateEngineState` | the message of `reportEngineState` |
| `EngineEvent`, `errorCb` | `locClientIndCb` and `eventCb`, `locClientErrorCb` and `errorCb` |
| `EngineUp`, `EngineOn`, `EngineOff`, `Crash`, `Restart` | external |

`LocApiBase` is not in the repository. What the code relies on is modelled: it
runs the methods and the messages on one thread, in order, and in answer to
`handleEngineUpEvent` closes the adapter and opens it with what all users have
asked for (`users`). `close` is part of `EngineUp`; the adapter has no other
caller of it but its destructor.

A mask is a set of bits, and `EventMask` has all the bits of the code, so that
`convertMask` is modelled in full. Each try of `locClientOpen` that fails and is
followed by another leaves no trace; only the last one is an action. Every
status but success and failure is left out, and so is the content of requests.
`Faults` says what may go wrong besides a crash between methods: `"send"`, a
request that fails although the service is there, or whose response is lost;
`"open"`, an open that gives up; `"crash_in_open"`, a crash between the
registration in `locClientOpenInstance` and the assignment of the callbacks.
Two counters are bounded, `MaxEngineOn` and `MaxRestarts`.

### LocClient

One thread, the only caller in `LocApiV02`, opens and closes; another delivers
indications and errors, and all it has to start from is the address of the
block, given to QMI as a cookie. `heap` has the blocks, `clients` the QMI
clients that are not released; a freed block may be handed out again, and a
read of a freed block gives anything.

| action | code |
| --- | --- |
| `Open`, `OpenFailed` | `locClientOpen`: the loop of tries |
| `Calloc`, `CallocFails`, `SetMe`, `RegisterEventMask`, `RegisterFails`, `Fill` | `locClientOpenInstance`, the callbacks one assignment at a time |
| `NotifierInit`, `SignalClear`, `LookUp`, `SignalWait`, `ClientInit`, `RegisterErrorCb`, `CtrlPointInitFails` | `locClientQmiCtrlPointInit` |
| `Close`, `Release`, `ReleaseFails`, `Memset`, `Free` | `locClientClose` |
| `Deliver`, `CheckBlock`, `CheckAgain`, `CallBack` | `locClientIndCb`, `locClientErrorCb`: entry, the checks, the second check, the callback |
| `ServiceUp`, `ServiceDown` | external |

The release of the notifier in front of `ClientInit` is not an action: nothing
looks at it afterwards. `Faults` names the calls that may fail.

### XtraInjection and FileTransfer

`setXtraData` sends a file in parts. The data of a part is where it was copied
from and how long it is, so that wrong offsets show. `part` and `len_injected`
wrap around as 8 and 16 bits do (`PartMod`, `LenMod`). Answers come in order,
perhaps after the call has given up, and then answer the next part. `Faults`:
`"send"` (not sent), `"refuse"` (refused by the service), `"late"` (a timeout).
`FileTransfer` is the promise: the bytes come in order and once each until one
piece is lost, and the call returns. The mapping is in
`XtraInjectionRefinement`; it covers files that fit the counters.

### DsClient

Opening a data call takes a notifier, a WDS client, a block and a DSI handle;
each step may fail with some of them in hand. The actions follow
`ds_client_qmi_ctrl_point_init` (`LookFirst` to `ClientInit`),
`ds_client_get_profile_list` and `ds_client_get_profile_settings`
(`GetProfileList` to `NoneLeft`), the rest of `ds_client_open_call`
(`ClientRelease` to `GetDsiHandleFails`), `ds_client_start_call`,
`stopDataCall`, `closeDataCall`. `NetEvent` and `net_ev_cb` are the other
thread. The response buffer of the profile settings is reused, and a field the
modem leaves out keeps its old value (`Decoded`).

### SupportedMsgs

The bit array of the service becomes a word, once, and the word is kept. Words
and bytes are sets of bits; widths are parameters. A shift by the width of `int`
or more is undefined in C; the model takes both outcomes a build can give.

### LocationService

One predicate for each request that `LocApiV02` sends: the fields it must have,
those it may have, and the values, lengths and identifiers the header allows.
Indications that a method or a report looks into have their fields. A message is
a record of its valid fields; enumerations are sets of names, masks sets of bits.
`Commands`, `Responses`, `ServiceAnswers` and `ServiceEvents` are the three tables
of the service object. What the header says in words (a percentage from 1 to 99,
the satellites of a system) is part of a predicate where `LocApiV02` fills in the
field. Numbers that measure something are not checked.

### Requests, AidingData, Reports, ClientMessages

Functions, one for each method, switch or table: what message a method builds
from its arguments, what it returns for a status and an answer, what calls into
`LocApiBase` an event leads to, which messages the client lets through. Sets of
flags are sets of names. `AidingData` and `Reports` also have the reference the
functions are compared with: what the flags ask for, and what a report of
satellites must say. `deleteAidingData` is modelled as built without
`PDK_FEATURE_SET`. Of `startFix` and `stopFix`, `Requests` has only the messages:
when they are sent, and what becomes of the masks, is in `LocApiSession`.

### Dialogues

The adapters' thread calls one method at a time (`Ask`, over all methods) and
waits; the request goes to `inbox`, the answer comes back on `wire` among the
events, in order; the callback thread takes the indications one at a time.

| action | code |
| --- | --- |
| `Inject`, `Delete`, `Servers`, `Connections`, `Configure`, `Lock`, `XtraVersion`, `Positions` | the methods, up to the wait |
| `Timeout` | the wait ends without the indication |
| `DropInd` | `locClientIndCb` returns early |
| `TakeAnswer` | `globalRespCb`; the rest of the method that waited |
| `TakeEvent` | `globalEventCb`, `eventCb` |
| `TakeNiRequest` | the same for a request to the user: `reportNiRequest` |
| `AnswerUser` | `informNiResponse`, called by an adapter that then frees its copy |
| `Serve`, `Events` | external: the service answers in order, and reports what it likes |

What the module adds to its parts is memory and time. Buffers of indications and
the copy for the adapter come from the same few `Blocks`; answers fail, get lost
or come late; other indications come while the user thinks. Left out, since
other modules have it: slots (`LocSyncReq`; here at most one call waits, and an
indication for which nobody waits is thrown away), opening and registration
(`LocClient`, `LocApiSession`), parts (`XtraInjection`).

## 3. Runs

| run | question | bounds |
| --- | --- | --- |
| `sync_safety` | do slots, buffers, wakeups stay right when answers are late, calls are abandoned and slots reused; is the code a `SyncCall`, its liveness included? | 2 callers x 2 calls, 2 slots, 2 kinds of indication of which one has no known size |
| `sync_crowded` | more callers than slots, spurious wakeups: does every slot have one owner? | 3 callers, 2 slots |
| `sync_answered` | without timeouts and with different kinds: own answer, kept, and the call returns because it was answered | 2 callers x 3 calls |
| `sync_same_kind` | a disagreement with the documentation, below | 2 callers x 1 call |
| `session_safety` | what holds whatever fails: the two masks agree, and requests of the network stay registered | 2 users, all faults, engine on twice, 1 restart |
| `session_reliable` | when requests fail only because the service died: a running session has its reports, tracking events are not left on, all users are served after a restart, every loss is noticed, tracking ends with the engine, a dead client is replaced | 3 users, engine on twice, 2 restarts |
| `session_never_on` | a disagreement with the documentation, below | 1 user |
| `xtra` | right parts, no late answer taken for another, copies inside the file, a transfer in order, and it returns | parts of 4 bytes, counters of 3 and 4 bits, files of 0 to 24 bytes at and around every boundary |
| `client` | no callback on a freed block or for a client that is not open, nothing left behind, no signal missed, open returns or waits for a service that stays away | 2 blocks, 2 opens of 2 tries, the service away twice |
| `data` | events find their session, nothing is out of reach of close, right profile, nothing kept after success, open returns | 2 blocks, 3 opens, 5 lists of at most 3 profiles, 2 waits, WDS away twice |
| `supported` | the word is what the service said; nothing is believed in that is not there | all arrays of at most 3 bytes of 2 bits, `int` of 3 and word of 4 bits |
| `dialogues` | is the service sent what caller or user meant, are the adapters told the truth, does every answer have a way to its caller? | 2 calls or events and any number of answers to them, 3 blocks, 2 satellites per system, all pairs of 6 satellites and lists that are cut off |

Two slots instead of eight: the loops treat slots alike, and what matters is
that one indication can pass a slot that does not match, match a second one,
and that the pool can be full. Two calls per caller are needed for a late answer
to meet the same caller's next call and a slot's next owner. Three callers are
needed for the pool of two to overflow. One client is enough because the code
compares handles only for equality, and the invalid handle is a second value.

In `client`, two blocks let one client's block be given to the next while an
indication of the first is under way, and one retry shows what a failed try
leaves. In `data`, three opens meet a session left by a failure and one left by
a failed start. In `dialogues`, two inputs are what it takes for a late answer to
meet the next call of its kind, and for two requests to the user to be open;
three blocks hold two copies and a buffer. With one input the run covers each
method and event by itself.

**Fairness.** `Fairness` has weak fairness for each caller inside a call (the
scheduler runs threads; `pthread_cond_timedwait` with a deadline returns) and for
the callback thread inside the scan. Starting a call is not fair. The mutex is
not assumed fair: weak fairness is enough since the number of indications is
bounded by `MaxCalls`. Only `AnsweredSpec` assumes that the service answers; it
is the premise of `sync_answered`, where there are no timeouts and a missed
wakeup would be final. Deadlock is checked in every run; since a repeated
`loc_sync_req_init` is always possible while the mutex is free, it means here
that the mutex is never held for good, and stuck callers are `CallsReturn`'s
business.

In the session runs two users differ in what they want: one tracks, one answers
requests of the network and also wants a bit the adapter must exclude; a third
wants NMEA, whose event two bits stand for. The engine must come on twice for a
report of one session to be acted on in the next, and the service must restart
twice for a restart to fall on an adapter that has restarted before.

`FairSpec` of `LocApiSession` assumes: weak fairness of the rest of a method
(requests have timeouts), of the callback thread and of the service's return;
that an engine no session needs stops; and strong fairness of processing a
message, since the thread is only now and then free of users' calls but serves
them and the messages in the order they came. The service's reports are not
assumed to arrive: one that is not registered, or meets a client without
callbacks, is lost.

`FairSpec` of `XtraInjection`: the caller's thread runs and its wait has a
timeout; the service answers. Of `LocClient`: both threads run, but nothing is
assumed of the service, for which an open waits without a timeout: hence
`OpenReturnsOrWaits`; `qmi_client_release` returns (strong fairness: it lets no new callback of that
client begin, so the moments between callbacks are enough). Of `DsClient`: only
that the adapter's thread runs, since all its waits have timeouts; nothing is
assumed of WDS. `Dialogues` and `SupportedMsgs` have safety properties only.

In all runs but those of `LocSyncReq` the bound on inputs, and a service that has
nothing to say, end the behaviours, so deadlock is not checked where the cfg says
so; that nothing waits for good is what the liveness properties say.

### What the properties take for granted

A property that does not hold of every use is checked under a condition that is
part of the configuration, and the proofs have the same condition.

* `Reliable` in several properties of `LocApiSession` (no request fails while
  the service runs): the code ignores the result of the registration in
  `startFix`, `stopFix` and the engine-off message, and without the premise a
  session without its reports, or tracking events left on, are ordinary
  behaviour.
* `client`: `qmi_client_release` waits for a callback in progress
  (`ReleaseWaits`), which the QMI library promises and the code needs: it
  clears and frees the block next. With `ReleaseWaits = FALSE` TLC finds a
  callback on a freed block (`loc_api_v02_client.c:1466`). And registering the
  error callback does not fail: when it does, `locClientQmiCtrlPointInit`
  leaves the QMI client alive and its cookie is freed
  (`loc_api_v02_client.c:2075`; add `"error_cb"` to `Faults`). That open returns
  or waits for good is said of a service that in the end stays or stays away
  (`ServiceSettles`; in the run it does, as it goes away at most `MaxDowns`
  times).
* `data`: `dsi_rel_data_srvc_hndl` waits for an event of the network that is
  being delivered (`ReleaseWaits`), since the block is freed next
  (`ds_client.c:719`). With `ReleaseWaits = FALSE` TLC finds the event in a freed
    block (`EventFindsCaller`). And, told that the engine is busy, the adapter
  closes before it opens again.
  Otherwise (`Retries = TRUE`) a block is overwritten in the handle and out of
  reach (`ds_client.c:658`).
* `supported`: a service that restarts has at least the messages it had
  (`Grows`). The two messages asked for have ids beyond the number of messages
  (`FewLargeIds`), so that the loop, bounded by a number of bytes
  (`loc_api_v02_client.c:655`), sees them all, and no shift reaches the sign of
  an `int` (`:665`).
* `xtra`: a file that fits the counters (fewer than 256 parts of 1024 bytes in
  at most 65535 bytes, so fewer than 64 parts), for `PartsAreRight` and the
  refinement; the counters wrap beyond it (`LocApiV02.cpp:1088`). With 255 parts
  or more the loop on an 8-bit counter never ends (`:1109`).
* `dialogues`: adapters call one method at a time, as the message thread does, and
  the service answers in the order of the requests. `setGpsLock`, `setLPPConfig`,
  `setAGLONASSProtocol` and `setSensorPerfControlConfig` are called with values the
  header knows and with others; they pass on either unchecked
  (`LocApiV02.cpp:2792`, `:1394`, `:1658`, `:1553`), so `RequestsWellFormed` says
  that a request fits the interface exactly if the caller's value does.

### Findings

* `sync_same_kind`: after the signal and before its owner runs, a slot matches
  the next indication of its kind too. Two concurrent calls for one kind can
  both lose: the first reads the second's payload, the second times out.
* `session_never_on`: the engine's on-report waits in the queue while `stopFix`
  runs, which therefore de-registers at once, ENGINE_STATE included. Then the
  message sets `mEngineOn`, and nothing resets it. The next session, in which
  the engine never comes on, is not de-registered at its end.

More disagreements between code and comments, or conditions nobody states, came
up and have no run of their own. The first five can be seen with TLC by changing
the configuration as said:

* With all slots taken `loc_sync_send_req` returns success without having sent
  anything (`loc_api_sync_req.c:500`; `NumSlots = 2`, three threads of
  `SameCall`, `SuccessHasPayload`).
* The wait is not in a loop: a spurious wakeup is success (`:453`; `Faults =
  {"spurious"}`, the same property).
* Three comments have an open block for a fixed time at most (`LocApiV02.cpp:198`:
  "will block if the service is unavailable for a fixed time out";
  `loc_api_v02_client.c:1976`: "wait for the service to come up or timeout";
  `:2155`: "until a service is up or a timeout occurs"). The timeout of the wait is
  0, which is none (`:2043`): while no service comes the open does not return, and
  the thread it was called on does nothing else (`OpenReturns` of `LocClient`, in
  place of `OpenReturnsOrWaits` in `MCLocClient.cfg`).
* For a type of PDP it does not know the code says "Setting default as ipv4/v6"
  (`ds_client.c:613`) and sets IPv4 (`:615`; `UnknownPdpIsDual` in
  `MCDsClient.cfg`). `FirstEmergencyProfile` is about the types it knows, and about
  none given.
* The error callback is filled in after the registration
  (`loc_api_v02_client.c:2204`); a service that dies in between leaves an adapter
  that believes itself connected (`Faults = {"crash_in_open"}`,
  `LossIsReported`).
* `setXtraData` goes on after a part that failed, without advancing the offset,
  and returns what became of the last part (`LocApiV02.cpp:1136`, `:1152`).
* Most methods look at the status of the indication only for the log, and report
  success of a request that failed. `setGpsLock`, `getGpsLock` and
  `setXtraVersionCheck` do look, but a late answer to an earlier call is taken
  for theirs; hence the premise of `SuccessMeansDone`.
* A request of the network with a Vx service interaction and nothing else is
  dropped; nobody answers it (`LocApiV02.cpp:2300`).
* `reportXtraServerUrl` does not look at the valid flag of the list (`:2332`) and
  reads three entries of an empty one. `setServer` accepts a URL that fills the
  field and cuts off its last character. `getBestAvailableZppFix` may leave its
  technology mask uninitialised.
* `eventCb` handles FIX_SESSION_STATE, which `convertMask` never registers, and
  ignores some events it does register. The comment says BeiDou slots are 1-37
  (`:2005`); the header, and the code, use 201-237. A QMI bit exists for GPS
  SVSTEER data, and no flag sets it.
* Six answers are in the client's table and unknown to
  `locClientHandleIndication`; nobody waits for them today, which is what
  `AnswersReachCallers` says. Two events are in the table of answers too. An
  indication id is among the requests `validateRequest` accepts, and the size of
  SET_PREMIUM_SERVICES_CONFIG is that of the request
  (`loc_api_v02_client.c:508`).
* The order of the bits in `LocApiV02.cpp:218` is the other way round than the
  comment at `loc_api_v02_client.c:2505` has it.

## 4. Proofs

`LocSyncReqProofs` proves, for any threads, slots, clients, kinds, number of
calls and faults, from `ConstantsAssumption` alone: `TypeOK`,
`EverySlotHasOneOwner`, `InUseIsExact`, `PayloadIsOfKindRequested`,
`NoLostWakeup` and the action property `BufferWrittenOnlyDuringCall`.

None of these is inductive alone; the invariant is built in three layers, each
preserved given the ones below:

1. `Types`: `TypeOK`, and a caller in a call has arguments, a call number and,
   when it holds a slot, a valid index (`CallsHaveArguments`).
2. `Ownership`: the slots in use are those held by exactly one caller. It needs
   that nobody is in a call before the first initialisation
   (`InitialisedFirst`), and for `in_use` what the running scan has seen so far
   (`ScanSawSlots`): as long as the mutex is held no slot changes hands.
3. `Contents`: a slot whose owner has passed `loc_sync_select_ind` holds that
   owner's arguments and all other slots are empty (`SlotsFollowCalls`) - this
   is why a stale pointer cannot be written through, even between
   `loc_alloc_slot` and the rest of `loc_sync_select_ind`; only live frames hold
   a payload (`BuffersAreLive`); a payload that came before the wait is recorded
   in `ind_has_arrived` (`ArrivalRecorded`), which gives `NoLostWakeup`.

`MatchesOwner` is the lemma that carries the last step: a slot that matches an
indication belongs to a call in progress that asked for it.

`LocSyncReqRefinementProofs` goes on from there with conditions the code does not
state:

* `SuccessIsEarned` (`SuccessHasPayload`) and `KeepsItsPromise`, the safety half
  of the refinement of `SyncCall` (`ImplementsSyncCall`), if there are at least
  as many slots as threads (`PoolSuffices`) and no spurious wakeups. The
  invariant is `Earned`: a status of SUCCESS goes with a filled buffer, and so
  does an arrival or a signal that the owner of the slot has not yet seen. It
  needs `SignalsAreFresh`: only a caller that sleeps is signalled, so no signal is
  left for the next owner of its slot.
* `OwnAnswers` (`AnswerIsOwn`) and `AnswersAreKept` (the action property
  `AnswerKept`), if concurrent calls wait for different indications and nothing
  fails or times out. `OneAnswerEach`: every answer that has not been handed over
  is that of a call in progress which has none yet, also while the scan has it
  in hand (with `AnswersWereAsked`: the service answers only what was asked, and
  once).

`LocApiSessionProofs` proves, for any masks, excluded bits, faults and bounds,
from `SessionAssumption` alone: `TypeOK`, `MasksInStep`,
`RequestsAlwaysRegistered`, `TrackingOnlyWhileEngineOn`, `ClientCopyInStep`,
`SessionReportsRegistered`, `AllUsersServed`, that only a client without a
service is replaced (`OnlyLostClientsReplaced`, which no run repeats), and,
unless the service can die inside an open, `LossIsReported`. Again in layers on
top of `TypeOK`:

1. `ClientState`: when the client has its callbacks, and what the thread may be
   in the middle of while it has none.
2. `MaskState`: the two masks agree (`MasksInStep`); a mask on its way to the
   service keeps all that is not tracking (`PendingMask`, `PendingRegistered`).
   Only then is `RequestsAlwaysRegistered` preserved: whichever mask a failed
   or lost registration leaves behind, old or new, has the requests in it.
3. `QuietState`: outside a session a mask on its way has no tracking event
   (`PendingQuiet`), a session is on while `startFix` runs (`StartInSession`),
   and the service has tracking events only if somebody is about to switch them
   off or `mEngineOn` is true (`ServiceQuiet`).
4. `LossInv`: the error and its message are there at most once, and only while
   the client is lost (`LossOnce`): an error left over from an earlier client
   would throw a good one away. Then a lost client is told (`LossTold`).
5. `SessionState`: while the service runs a session, the registration it has
   covers the session's mask, and so does the one on its way. This is where the
   order of `startFix` and of `stopFix` matters.
6. `UsersState`: the adapter's mask, or the one a method is about to store, is
   what all users asked for.

`XtraInjectionProofs`, for any lengths, widths and faults: `TypeOK` and
`ReadsInsideFile` (`BaseInv`: the offset stays inside the file although it may
wrap). If there are fewer parts than the counter has values (`PartsFit`):
`CountedPartsTaken` from `LateInv` (requests, answers and the parts at hand are
in order of their numbers, so a late answer has a smaller number and is told
from this part's), and from `RightInv` `PartsAreRight` and that a file all of
whose parts were counted is with the service as a whole. `InjectionIsTransfer` is
the safety half of the refinement of `FileTransfer` (`ImplementsTransfer`). As
long as nothing is lost the service holds exactly the bytes in front of an
offset (`BytesInOrder`), so that what it got is a number (`GotIsReached`); each
step then takes the next piece, loses one, returns, or is a stutter.

`LocClientProofs`, for any blocks, retries and bounds, under `SafeQmi` (the two
conditions above): `TypeOK`, `CookiesAlive`, `NoDanglingCallback`,
`CalledOnlyWhileOpen`, `HandleIsComplete`, `NoOrphans`. `ClientInv` says who owns each
block: the thread that opens, by its step (`OwnerInv`, `OwnBlockInv`,
`FilledInv`); a QMI client, one to one (`ClientsInv`); and that a callback in
progress is on a client that is not released (`CallbackInv`). `NoOrphans` needs
more: at every step of open and close, which allocated block has no client and
which client's block is the thread's own (`BlocksAreOwned`).

`DsClientProofs`, for any blocks, profiles and faults, without retries:
`TypeOK`, `SessionsReachable`, `FirstEmergencyProfile`, and `EventFindsCaller` if
the release of a DSI handle waits for its callback (`ReleaseWaits`).
`DsInv`: one block at most, the handle's; its DSI handle (`BlockInv`, `DsiInv`),
the event thread (`CbInv`), and the settings are those of profile `i` and of no
other (`SearchInv`). With retries as well: `CleanAfterSuccess`, from `CleanInv`, which
says at which steps the notifier and the WDS client of the open are held.

`SupportedMsgsProofs`: `BitsAreExact` and `NothingInvented`, under
`FewLargeIds`, for any widths, arrays and messages.

`DialoguesProofs`, for any blocks, registered events, flags, reports and
requests: `NiAnswerMatches`, `DeletesWhatWasAsked`, `AnswersReachCallers`,
`SuccessMeansDone`, `RequestsWellFormed`, and apart from the state machine
`DeletesAskedFor` for any set of flags and numbers of satellites.
`RequestsWellFormed` (theorem `RequestsFit`) needs a lemma for each group of
methods and no new invariant but that a request to the user comes from
`NiRequests`. It rests on `AidingAssumption`, at most 32 satellites in a block and
at most 37 of BDS (`LocApiV02.cpp:64`, `:70`, and the sizes of the two arrays): the
numbers of GPS and GLONASS then stay in the ranges that tell the systems apart.
And it rests on `DialoguesAssumption`, that the service sends what its own interface
allows. Positions, times, rates and the like are taken as they come: the theorem is
about fields, lengths, identifiers, masks and enumerations. `SessionsFit` says the
same of the messages of sessions and registrations, whatever
the fix criteria; `ClientMatchesService`, that the hand-written tables of the client
agree with those of the service. `DialoguesInv` says of every request under way that it is as the
method means it (`MessagesInv`), which for answers to the user needs that the
copy held for each open request is allocated, that request's and no other's
(`NotesInv`), whatever buffers are written meanwhile; and that what a call
waits for is under way or was lost for lack of memory (`CallInv`), for which
`AwaitedAreTaken` looks up all awaited messages in the client's tables.
`SettingInv` carries `SuccessMeansDone`: the request of the call that waits is the
last in the queue, or all were served and the youngest answer of its kind tells
the truth about it (`OwnAnswer`). A call takes the oldest; that is its own if
no other is behind it.

Model-checked only:

* liveness, which the prover cannot do: the fair halves of the refinements
  (`ImplementsFairSyncCall`, `ImplementsFairTransfer`), `CallsReturn`,
  `EngineOffQuiets`, `Reconnects`, `Returns`, `ServiceNoticed`,
  `OpenReturnsOrWaits`, `OpenReturns` of `DsClient`;
* `SvReportIsFaithful`, about a fold over a list: needs induction over data.

All other properties of passing runs are proved.

`TypeOK` of most modules, `PayloadIsOfKindRequested`, `CookiesAlive` and
`HandleIsComplete` are proved and not repeated in a run.

## 5. Plan

Done: all components with state are modelled, each with its properties, its run
and, but for the liveness, proofs of what matters most in it.

Left: one module in which several calls go through the slots of `LocSyncReq`
while `LocClient` closes the client; a call in progress then waits for its
timeout. The two are checked apart.

## 6. Reading the modules

An operator named `X_Something` placed just before `X` is `X` with a plausible
bug. It belongs to no specification; `PROJECT.json` lists, for every property of
every run, one such variant under which TLC finds the property violated.

    tlc -workers 2 -config MCLocSyncReq_safety.cfg MCLocSyncReq
    tlapm LocSyncReqProofs.tla
