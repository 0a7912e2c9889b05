--------------------------- MODULE LocApiSession ---------------------------
(***************************************************************************)
(* Which events the adapter LocApiV02 has registered with the location     *)
(* service, through fix sessions, engine reports and restarts of the       *)
(* service: LocApiV02.cpp with the parts of loc_api_v02_client.c it stands *)
(* on.                                                                     *)
(*                                                                         *)
(* Three parties run concurrently.  The methods of LocApiV02 run one at a  *)
(* time on the message thread of the location engine ("task"), which waits *)
(* in every request it sends.  QMI's callback thread delivers what the     *)
(* service sent and turns it into messages for that thread ("msgs").  The  *)
(* service has an engine that other users switch on and off as well, and   *)
(* may crash and come back.                                                *)
(*                                                                         *)
(* The client keeps its own copy of the mask it registered and drops       *)
(* events that are not in it when they arrive.                             *)
(*                                                                         *)
(* LocApiBase and the engine above it are not part of the repository: they *)
(* call open, startFix and stopFix, run the messages in order, and after   *)
(* handleEngineUpEvent close and open the adapter again with what all      *)
(* users have asked for.                                                   *)
(***************************************************************************)
EXTENDS EventMask, Naturals, Sequences

CONSTANTS
  Masks,            \* the masks users may open the adapter with
  mExcludedMask,    \* bits this adapter must not serve
  Faults,           \* what may go wrong besides a crash, see below
  MaxEngineOn,      \* bound: times the engine is switched on
  MaxRestarts       \* bound: times the service comes back

\* "send": a request fails, or its response is lost, though the service is
\* there; "open": locClientOpen gives up; "crash_in_open": the service may die
\* in locClientOpenInstance after it took the registration.
AllFaults == {"send", "open", "crash_in_open"}

ASSUME SessionAssumption ==
  /\ Masks \subseteq SUBSET AdapterBits
  /\ mExcludedMask \subseteq AdapterBits
  /\ Faults \subseteq AllFaults
  /\ MaxEngineOn \in Nat
  /\ MaxRestarts \in Nat

VARIABLES
  conn,          \* the client behind clientHandle
  mMask, mQmiMask, mInSession, mEngineOn,
  users,         \* what all users of LocApiBase have asked for
  task,          \* the method the message thread is in
  msgs,          \* its queue
  channel,       \* indications and errors QMI has yet to deliver
  modem,         \* the service
  engineOns,     \* times the engine was switched on
  onSinceStart   \* history: the engine was on at some time since startFix

adapterVars == <<mMask, mQmiMask, mInSession, mEngineOn>>
vars == <<conn, adapterVars, users, task, msgs, channel, modem, engineOns,
          onSinceStart>>

-----------------------------------------------------------------------------
\* inst is the incarnation of the service it talks to, 0 for no client; ready:
\* the callbacks have been filled in.
Conns == [inst : Nat, ready : BOOLEAN, eventRegMask : SUBSET Events]
NoConn == [inst |-> 0, ready |-> FALSE, eventRegMask |-> {}]

\* The service: which incarnation, whether it runs, the events registered by
\* our client, whether it runs a fix session for us, and its engine.
Modems == [inst : Nat, up : BOOLEAN, regs : SUBSET Events, session : BOOLEAN,
           engine : BOOLEAN]

\* Requests of our client reach a service.
Live == /\ conn.inst # 0
        /\ conn.inst = modem.inst
        /\ modem.up

\* at: the request the thread is about to make or waits for; qmiMask: the mask
\* to be registered; then: what follows a registration; newMask: for open.
Tasks == [at : {"idle", "opening", "connected", "register", "registered",
                "set_mode", "start", "stopped"},
          qmiMask : SUBSET Events,
          then : {"idle", "set_mode", "update_mask"},
          newMask : SUBSET AdapterBits]
Idle == [at |-> "idle", qmiMask |-> {}, then |-> "idle", newMask |-> {}]

\* A request may fail.
MayFail == ~Live \/ "send" \in Faults

Init ==
  /\ conn = NoConn
  /\ mMask = {}
  /\ mQmiMask = {}
  /\ mInSession = FALSE
  /\ mEngineOn = FALSE
  /\ users = {}
  /\ task = Idle
  /\ msgs = <<>>
  /\ channel = <<>>
  /\ modem = [inst |-> 1, up |-> TRUE, regs |-> {}, session |-> FALSE,
              engine |-> FALSE]
  /\ engineOns = 0
  /\ onSinceStart = FALSE

-----------------------------------------------------------------------------
(* Registration *)

\* The method goes on to register qmiMask, less what only a session needs.
registerEventMask(inSession, qmiMask, then, newMask) ==
  task' = [at      |-> "register",
           qmiMask |-> IF inSession THEN qmiMask
                                    ELSE adjustMaskForNoSession(qmiMask),
           then    |-> then,
           newMask |-> newMask]

\* The service has taken the mask ...
RegisterSent ==
  /\ task.at = "register"
  /\ Live
  /\ modem' = [modem EXCEPT !.regs = task.qmiMask]
  /\ task' = [task EXCEPT !.at = "registered"]
  /\ UNCHANGED <<conn, adapterVars, users, msgs, channel, engineOns,
                 onSinceStart>>

\* What a method does when the registration returns.  Only open looks at the
\* result.
AfterRegister_IgnoresResult(ok) ==
  /\ task' = IF task.then = "set_mode" THEN [Idle EXCEPT !.at = "set_mode"]
                                       ELSE Idle
  /\ IF task.then = "update_mask"
       THEN /\ mMask' = task.newMask
            /\ mQmiMask' = convertMask(task.newMask)
       ELSE UNCHANGED <<mMask, mQmiMask>>
  /\ UNCHANGED <<mInSession, mEngineOn>>

AfterRegister(ok) ==
  /\ task' = IF task.then = "set_mode" THEN [Idle EXCEPT !.at = "set_mode"]
                                       ELSE Idle
  /\ IF ok /\ task.then = "update_mask"
       THEN /\ mMask' = task.newMask
            /\ mQmiMask' = convertMask(task.newMask)
       ELSE UNCHANGED <<mMask, mQmiMask>>
  /\ UNCHANGED <<mInSession, mEngineOn>>

\* Leaves the client's copy of the mask as it is.
RegisterReturns_NoCopy ==
  /\ task.at = "registered"
  /\ AfterRegister(TRUE)
  /\ UNCHANGED <<conn, users, msgs, channel, modem, engineOns, onSinceStart>>

\* ... and the response brings the client's copy up to date.
RegisterReturns ==
  /\ task.at = "registered"
  /\ conn' = [conn EXCEPT !.eventRegMask = task.qmiMask]
  /\ AfterRegister(TRUE)
  /\ UNCHANGED <<users, msgs, channel, modem, engineOns, onSinceStart>>

\* The request failed, before the service had it or after.
RegisterFails ==
  /\ task.at \in {"register", "registered"}
  /\ MayFail
  /\ AfterRegister(FALSE)
  /\ UNCHANGED <<conn, users, msgs, channel, modem, engineOns, onSinceStart>>

-----------------------------------------------------------------------------
(* Opening and closing *)

\* Registers what the new user wants and nothing else.
OpenWith_NewUserOnly(client, oldMask, mask) ==
  LET newMask == mask \ mExcludedMask
      qmiMask == convertMask(newMask)
  IN  \/ /\ client.inst = 0
         /\ task' = [at |-> "opening", then |-> "idle", newMask |-> newMask,
                     qmiMask |-> adjustMaskForNoSession(qmiMask)]
      \/ /\ client.inst # 0
         /\ newMask # oldMask
         /\ registerEventMask(mInSession, qmiMask, "update_mask", newMask)
      \/ /\ client.inst # 0
         /\ newMask = oldMask
         /\ task' = Idle

\* The body of open, for a client and a mask that close may just have reset.
\* A new client starts with the mask of no session, even in a session.
OpenWith(client, oldMask, mask) ==
  LET newMask == oldMask \cup (mask \ mExcludedMask)
      qmiMask == convertMask(newMask)
  IN  \/ /\ client.inst = 0
         /\ task' = [at |-> "opening", then |-> "idle", newMask |-> newMask,
                     qmiMask |-> adjustMaskForNoSession(qmiMask)]
      \/ /\ client.inst # 0
         /\ newMask # oldMask
         /\ registerEventMask(mInSession, qmiMask, "update_mask", newMask)
      \/ /\ client.inst # 0
         /\ newMask = oldMask
         /\ task' = Idle

\* One more user opens the adapter.
open(mask) ==
  /\ task = Idle
  /\ users' = users \cup mask
  /\ OpenWith(conn, mMask, mask)
  /\ UNCHANGED <<conn, adapterVars, msgs, channel, modem, engineOns,
                 onSinceStart>>

\* locClientOpen finds a service, waiting for one if need be, and registers.
\* Until it returns the client has no callbacks.
Connect ==
  /\ task.at = "opening"
  /\ modem.up
  /\ conn' = [inst |-> modem.inst, ready |-> FALSE,
              eventRegMask |-> task.qmiMask]
  /\ modem' = [modem EXCEPT !.regs = task.qmiMask]
  /\ task' = [task EXCEPT !.at = "connected"]
  /\ UNCHANGED <<adapterVars, users, msgs, channel, engineOns, onSinceStart>>

\* Keeps the mask of the first client it had.
OpenReturns_OldQmiMask ==
  /\ task.at = "connected"
  /\ conn' = [conn EXCEPT !.ready = TRUE]
  /\ mMask' = task.newMask
  /\ mQmiMask' = IF mQmiMask = {} THEN convertMask(task.newMask) ELSE mQmiMask
  /\ task' = Idle
  /\ UNCHANGED <<mInSession, mEngineOn, users, msgs, channel, modem, engineOns,
                 onSinceStart>>

\* mInSession and mEngineOn are what they were with the previous client.
OpenReturns ==
  /\ task.at = "connected"
  /\ conn' = [conn EXCEPT !.ready = TRUE]
  /\ mMask' = task.newMask
  /\ mQmiMask' = convertMask(task.newMask)
  /\ task' = Idle
  /\ UNCHANGED <<mInSession, mEngineOn, users, msgs, channel, modem, engineOns,
                 onSinceStart>>

\* All tries of locClientOpen failed.
OpenFails ==
  /\ "open" \in Faults
  /\ task.at \in {"opening", "connected"}
  /\ conn' = NoConn
  /\ mMask' = {}
  /\ mQmiMask' = {}
  /\ modem' = IF Live THEN [modem EXCEPT !.regs = {}] ELSE modem
  /\ channel' = <<>>
  /\ task' = Idle
  /\ UNCHANGED <<mInSession, mEngineOn, users, msgs, engineOns, onSinceStart>>

\* Keeps the handle when the release of the old client fails.
close_KeepsHandle ==
  /\ conn' \in {NoConn, conn}
  /\ mMask' = {}

\* clientHandle is forgotten whatever locClientClose returns; mQmiMask stays.
close ==
  /\ conn' = NoConn
  /\ mMask' = {}

\* The message that LocApiBase sends itself in handleEngineUpEvent: close and
\* open with what all users want.  (handleEngineDownEvent changes none of this.)
EngineUp ==
  /\ task = Idle
  /\ msgs # <<>>
  /\ Head(msgs) = "engine_up"
  /\ msgs' = Tail(msgs)
  /\ close
  /\ OpenWith(conn', mMask', users)
  /\ channel' = <<>>
  /\ UNCHANGED <<mQmiMask, mInSession, mEngineOn, users, modem, engineOns,
                 onSinceStart>>

-----------------------------------------------------------------------------
(* Fix sessions *)

\* Registers before it notes that a session is on.
startFix_RegistersFirst ==
  /\ task = Idle
  /\ mInSession' = TRUE
  /\ registerEventMask(mInSession, mQmiMask, "set_mode", {})
  /\ onSinceStart' = modem.engine
  /\ UNCHANGED <<conn, mMask, mQmiMask, mEngineOn, users, msgs, channel, modem,
                 engineOns>>

\* The result of the registration is not looked at.
startFix ==
  /\ task = Idle
  /\ mInSession' = TRUE
  /\ registerEventMask(TRUE, mQmiMask, "set_mode", {})
  /\ onSinceStart' = modem.engine
  /\ UNCHANGED <<conn, mMask, mQmiMask, mEngineOn, users, msgs, channel, modem,
                 engineOns>>

\* QMI_LOC_SET_OPERATION_MODE, a synchronous request.
SetModeReturns ==
  /\ task.at = "set_mode"
  /\ Live
  /\ task' = [Idle EXCEPT !.at = "start"]
  /\ UNCHANGED <<conn, adapterVars, users, msgs, channel, modem, engineOns,
                 onSinceStart>>

\* QMI_LOC_START.
StartReturns ==
  /\ task.at = "start"
  /\ Live
  /\ modem' = [modem EXCEPT !.session = TRUE]
  /\ task' = Idle
  /\ UNCHANGED <<conn, adapterVars, users, msgs, channel, engineOns,
                 onSinceStart>>

\* One of the two fails; mInSession and the registration stay.
StartFixFails ==
  /\ task.at \in {"set_mode", "start"}
  /\ MayFail
  /\ task' = Idle
  /\ UNCHANGED <<conn, adapterVars, users, msgs, channel, modem, engineOns,
                 onSinceStart>>

\* QMI_LOC_STOP, whether or not it succeeds.
stopFix ==
  /\ task = Idle
  /\ \/ /\ Live
        /\ modem' = [modem EXCEPT !.session = FALSE]
     \/ /\ MayFail
        /\ UNCHANGED modem
  /\ task' = [Idle EXCEPT !.at = "stopped"]
  /\ UNCHANGED <<conn, adapterVars, users, msgs, channel, engineOns,
                 onSinceStart>>

\* Leaves it to the engine-off report to de-register, on or not.
StopReturns_WaitsForEngineOff ==
  /\ task.at = "stopped"
  /\ mInSession' = FALSE
  /\ task' = Idle
  /\ UNCHANGED <<conn, mMask, mQmiMask, mEngineOn, users, msgs, channel, modem,
                 engineOns, onSinceStart>>

\* If the engine is on, its engine-off report will de-register.
StopReturns ==
  /\ task.at = "stopped"
  /\ mInSession' = FALSE
  /\ IF mEngineOn THEN task' = Idle
                  ELSE registerEventMask(FALSE, mQmiMask, "idle", {})
  /\ UNCHANGED <<conn, mMask, mQmiMask, mEngineOn, users, msgs, channel, modem,
                 engineOns, onSinceStart>>

\* Stores the new state before it looks at the old one.
MsgUpdateEngineState_StoresFirst ==
  /\ task = Idle
  /\ msgs # <<>>
  /\ Head(msgs) \in {"engine_on", "engine_off"}
  /\ mEngineOn' = (Head(msgs) = "engine_on")
  /\ IF mEngineOn' /\ ~mInSession /\ Head(msgs) = "engine_off"
       THEN registerEventMask(FALSE, mQmiMask, "idle", {})
       ELSE task' = Idle
  /\ msgs' = Tail(msgs)
  /\ UNCHANGED <<conn, mMask, mQmiMask, mInSession, users, channel, modem,
                 engineOns, onSinceStart>>

\* An engine report, when its turn comes in the queue.  Nothing else reads
\* mEngineOn while the thread registers the mask.
MsgUpdateEngineState ==
  /\ task = Idle
  /\ msgs # <<>>
  /\ Head(msgs) \in {"engine_on", "engine_off"}
  /\ IF mEngineOn /\ ~mInSession /\ Head(msgs) = "engine_off"
       THEN registerEventMask(FALSE, mQmiMask, "idle", {})
       ELSE task' = Idle
  /\ mEngineOn' = (Head(msgs) = "engine_on")
  /\ msgs' = Tail(msgs)
  /\ UNCHANGED <<conn, mMask, mQmiMask, mInSession, users, channel, modem,
                 engineOns, onSinceStart>>

-----------------------------------------------------------------------------
(* The callback thread *)

\* locClientIndCb and eventCb: an engine report becomes a message, unless the
\* client has no callbacks yet or its copy of the mask lacks the event.
EngineEvent ==
  /\ channel # <<>>
  /\ Head(channel) \in {"engine_on", "engine_off"}
  /\ channel' = Tail(channel)
  /\ msgs' = IF conn.ready /\ "ENGINE_STATE" \in conn.eventRegMask
               THEN Append(msgs, Head(channel)) ELSE msgs
  /\ UNCHANGED <<conn, adapterVars, users, task, modem, engineOns,
                 onSinceStart>>

\* Reports that the service is gone only if no fix session is on.
errorCb_NotInSession ==
  /\ channel # <<>>
  /\ Head(channel) = "error"
  /\ channel' = Tail(channel)
  /\ msgs' = IF conn.ready /\ ~mInSession THEN Append(msgs, "engine_up") ELSE msgs
  /\ UNCHANGED <<conn, adapterVars, users, task, modem, engineOns,
                 onSinceStart>>

\* locClientErrorCb and errorCb: the service is gone.  A client without
\* callbacks drops the error.
errorCb ==
  /\ channel # <<>>
  /\ Head(channel) = "error"
  /\ channel' = Tail(channel)
  /\ msgs' = IF conn.ready THEN Append(msgs, "engine_up") ELSE msgs
  /\ UNCHANGED <<conn, adapterVars, users, task, modem, engineOns,
                 onSinceStart>>

-----------------------------------------------------------------------------
(* The service *)

\* An event for our client, if it has registered for it.
Report(event) ==
  channel' = IF Live /\ "ENGINE_STATE" \in modem.regs
               THEN Append(channel, event) ELSE channel

EngineOn ==
  /\ modem.up
  /\ ~modem.engine
  /\ engineOns < MaxEngineOn
  /\ engineOns' = engineOns + 1
  /\ modem' = [modem EXCEPT !.engine = TRUE]
  /\ onSinceStart' = TRUE
  /\ Report("engine_on")
  /\ UNCHANGED <<conn, adapterVars, users, task, msgs>>

EngineOff ==
  /\ modem.up
  /\ modem.engine
  /\ modem' = [modem EXCEPT !.engine = FALSE]
  /\ Report("engine_off")
  /\ UNCHANGED <<conn, adapterVars, users, task, msgs, engineOns, onSinceStart>>

\* QMI reports the loss to the client that was connected.
Crash ==
  /\ modem.up
  /\ modem.inst <= MaxRestarts
  /\ Live /\ ~conn.ready => "crash_in_open" \in Faults
  /\ modem' = [modem EXCEPT !.up = FALSE, !.regs = {}, !.session = FALSE,
                            !.engine = FALSE]
  /\ channel' = IF Live THEN Append(channel, "error") ELSE channel
  /\ UNCHANGED <<conn, adapterVars, users, task, msgs, engineOns, onSinceStart>>

Restart ==
  /\ ~modem.up
  /\ modem' = [modem EXCEPT !.up = TRUE, !.inst = @ + 1]
  /\ UNCHANGED <<conn, adapterVars, users, task, msgs, channel, engineOns,
                 onSinceStart>>

-----------------------------------------------------------------------------
\* The rest of a method.
TaskStep ==
  \/ RegisterSent \/ RegisterReturns \/ RegisterFails
  \/ Connect \/ OpenReturns
  \/ SetModeReturns \/ StartReturns \/ StartFixFails
  \/ StopReturns

ProcessMsg == MsgUpdateEngineState \/ EngineUp

User == (\E mask \in Masks : open(mask)) \/ startFix \/ stopFix

Callback == EngineEvent \/ errorCb

Next ==
  \/ TaskStep \/ OpenFails \/ ProcessMsg \/ User \/ Callback
  \/ EngineOn \/ EngineOff \/ Crash \/ Restart

Spec == Init /\ [][Next]_vars

\* Requests return, QMI delivers, and the queue is served in order: users that
\* keep the thread busy cannot hold a message back for ever.  The service comes
\* back after a crash, and its engine stops when no session needs it.
Fairness ==
  /\ WF_vars(TaskStep)
  /\ SF_vars(ProcessMsg)
  /\ WF_vars(Callback)
  /\ WF_vars(Restart)
  /\ WF_vars(EngineOff /\ ~modem.session)

FairSpec == Spec /\ Fairness

-----------------------------------------------------------------------------
TypeOK ==
  /\ conn \in Conns
  /\ mMask \subseteq AdapterBits
  /\ mQmiMask \subseteq Events
  /\ mInSession \in BOOLEAN
  /\ mEngineOn \in BOOLEAN
  /\ users \subseteq AdapterBits
  /\ task \in Tasks
  /\ msgs \in Seq({"engine_on", "engine_off", "engine_up"})
  /\ channel \in Seq({"engine_on", "engine_off", "error"})
  /\ modem \in Modems
  /\ engineOns \in 0..MaxEngineOn
  /\ onSinceStart \in BOOLEAN

\* The two masks the adapter keeps say the same while it has a client, through
\* failed registrations, failed opens and close, which resets only one of them.
MasksInStep == conn.ready => mQmiMask = convertMask(mMask)

\* Requests of the network and alerts are never switched off: whatever sessions,
\* engine reports, new users, failures and restarts do to the registration, an
\* opened adapter has these events registered with the service, and the client
\* lets them pass.
RequestsAlwaysRegistered ==
  Live /\ conn.ready =>
    /\ mQmiMask \ Tracking \subseteq modem.regs
    /\ mQmiMask \ Tracking \subseteq conn.eventRegMask

\* No request fails while the service runs.
Reliable == "send" \notin Faults

\* The service runs a fix session for the adapter only while the reports of
\* that session are registered: at every moment, also while start, stop, a new
\* user or an old engine report change the registration.
SessionReportsRegistered ==
  Reliable /\ modem.session => mQmiMask \subseteq modem.regs

\* The client's copy of the mask is the mask the service has, except while a
\* registration is on its way.
ClientCopyInStep ==
  Reliable /\ Live /\ task.at # "registered" =>
    conn.eventRegMask = modem.regs

\* Between sessions tracking events stay registered only while the adapter
\* believes the engine on; if it believes it off nothing would ever switch
\* them off.
TrackingOnlyWhileEngineOn ==
  Reliable /\ Live /\ task = Idle /\ ~mInSession /\ ~mEngineOn =>
    modem.regs \cap Tracking = {}

\* After a restart the adapter serves all its users again, not only the last.
AllUsersServed ==
  Faults \subseteq {"crash_in_open"} /\ Live /\ task = Idle =>
    mMask = users \ mExcludedMask

\* A client that lost its service is told: the error is on its way or its
\* message queued ("This function is called to inform the client that the
\* service is no longer available").  It fails when the service dies before
\* locClientOpenInstance has filled in the callbacks.
LossIsReported ==
  conn.ready /\ ~Live =>
    \/ \E i \in DOMAIN channel : channel[i] = "error"
    \/ \E i \in DOMAIN msgs : msgs[i] = "engine_up"

\* "if engine on never happend, deregister events without waiting for Engine
\* Off": after a session in which the engine was never on, and with no report
\* left that could still do it, no tracking event is registered.  It fails when
\* the engine-on report of an earlier session was still queued while stopFix
\* de-registered ENGINE_STATE with the rest: mEngineOn then stays true.
QuietIfEngineNeverOn ==
  /\ Reliable /\ Live /\ task = Idle /\ ~mInSession
  /\ ~onSinceStart
  /\ channel = <<>> /\ msgs = <<>>
  => modem.regs \cap Tracking = {}

Quiet == Live => modem.regs \cap Tracking = {}

\* If tracking events outlive a session because the engine is still on, its
\* end switches them off, whatever reports are queued and lost on the way.
EngineOffQuiets ==
  /\ Live
  /\ task = Idle
  /\ ~mInSession
  /\ modem.engine
  /\ "ENGINE_STATE" \in modem.regs
  ~> mInSession \/ Quiet

\* A client whose service died is replaced by one that is connected.
Reconnects == conn.ready /\ ~Live ~> conn.ready /\ Live
=============================================================================
