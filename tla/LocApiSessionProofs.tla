------------------------ MODULE LocApiSessionProofs ------------------------
(***************************************************************************)
(* Theorems about LocApiSession, for any users and masks, any number of    *)
(* restarts and engine reports, and every combination of faults.           *)
(***************************************************************************)
EXTENDS LocApiSession, SequenceTheorems, TLAPS

-----------------------------------------------------------------------------
(* The inductive invariant *)

\* What the thread is doing and which client it has: outside open a client is
\* either complete or absent, and none belongs to a service yet to come.
ClientState ==
  /\ modem.inst # 0
  /\ conn.inst <= modem.inst
  /\ conn.inst = 0 => ~conn.ready
  /\ task.at = "opening" => conn.inst = 0
  /\ task.at = "connected" => conn.inst # 0 /\ ~conn.ready
  /\ task.at \notin {"opening", "connected"} /\ conn.inst # 0 => conn.ready

\* A mask under way contains the requests of the adapter's mask, and those of
\* the one that will replace it.
PendingMask ==
  /\ task.at \in {"register", "registered"} =>
       /\ mQmiMask \ Tracking \subseteq task.qmiMask
       /\ task.then = "update_mask" =>
            convertMask(task.newMask) \ Tracking \subseteq task.qmiMask
  /\ task.at \in {"opening", "connected"} =>
       convertMask(task.newMask) \ Tracking \subseteq task.qmiMask

\* What the service and the client have of it before the method goes on.
PendingRegistered ==
  /\ task.at \in {"registered", "connected"} /\ Live =>
       modem.regs = task.qmiMask
  /\ task.at = "connected" => conn.eventRegMask = task.qmiMask

MaskState ==
  /\ MasksInStep
  /\ PendingMask
  /\ PendingRegistered
  /\ RequestsAlwaysRegistered

\* With reliable requests: a mask under way outside a session has no tracking
\* event, and neither has the service unless the adapter waits for engine-off.
PendingQuiet ==
  \/ task.at \in {"opening", "connected"}
  \/ task.at \in {"register", "registered"} /\ ~mInSession
  => task.qmiMask \cap Tracking = {}

StartInSession ==
  task.at \in {"set_mode", "start"} \/ task.then = "set_mode" => mInSession

ServiceQuiet ==
  /\ Live /\ ~mInSession /\ ~mEngineOn
  /\ task.at \notin {"register", "registered"}
  => modem.regs \cap Tracking = {}

QuietState ==
  Reliable => PendingQuiet /\ StartInSession /\ ServiceQuiet /\ ClientCopyInStep

-----------------------------------------------------------------------------
(* Masks *)

\* convertMask yields events of the service ...
LEMMA ConvertType ==
  ASSUME NEW mask \in SUBSET AdapterBits
  PROVE  convertMask(mask) \in SUBSET Events
BY DEF convertMask, Events

\* ... and keeps what a smaller mask asked for.
LEMMA ConvertMonotone ==
  ASSUME NEW small, NEW big, small \subseteq big
  PROVE  convertMask(small) \subseteq convertMask(big)
BY DEF convertMask

-----------------------------------------------------------------------------
(* Types *)

LEMMA TypeInit == Init => TypeOK
<1> SUFFICES ASSUME Init PROVE TypeOK
  OBVIOUS
<1>1. NoConn \in Conns /\ Idle \in Tasks
  BY DEF NoConn, Conns, Idle, Tasks
<1>2. modem \in Modems
  BY DEF Init, Modems
<1>3. /\ msgs \in Seq({"engine_on", "engine_off", "engine_up"})
      /\ channel \in Seq({"engine_on", "engine_off", "error"})
  BY DEF Init
<1>4. engineOns \in 0..MaxEngineOn
  BY SessionAssumption DEF Init
<1> QED
  BY <1>1, <1>2, <1>3, <1>4 DEF Init, TypeOK

LEMMA TypeStep == TypeOK /\ [Next]_vars => TypeOK'
<1> SUFFICES ASSUME TypeOK, [Next]_vars PROVE TypeOK'
  OBVIOUS
<1> USE SessionAssumption
<1>t. Idle \in Tasks /\ NoConn \in Conns
  BY DEF NoConn, Conns, Idle, Tasks
<1>m. task.qmiMask \subseteq Events /\ task.newMask \subseteq AdapterBits
  BY DEF TypeOK, Tasks
<1>r. ASSUME NEW q \in SUBSET Events, NEW new \in SUBSET AdapterBits,
             NEW then \in {"idle", "set_mode", "update_mask"}
      PROVE  /\ [at |-> "register", qmiMask |-> q, then |-> then,
                 newMask |-> new] \in Tasks
             /\ [at |-> "register", qmiMask |-> adjustMaskForNoSession(q),
                 then |-> then, newMask |-> new] \in Tasks
  BY DEF adjustMaskForNoSession, Tasks
<1>o. ASSUME NEW client, NEW old \in SUBSET AdapterBits,
             NEW mask \in SUBSET AdapterBits, OpenWith(client, old, mask)
      PROVE  task' \in Tasks
  <2> DEFINE newMask == old \cup (mask \ mExcludedMask)
             qmiMask == convertMask(newMask)
  <2>1. newMask \in SUBSET AdapterBits
    OBVIOUS
  <2>2. qmiMask \in SUBSET Events
    BY <2>1, ConvertType
  <2>3. adjustMaskForNoSession(qmiMask) \in SUBSET Events
    BY <2>2 DEF adjustMaskForNoSession
  <2>4. \/ task' = [at |-> "opening", then |-> "idle", newMask |-> newMask,
                    qmiMask |-> adjustMaskForNoSession(qmiMask)]
        \/ registerEventMask(mInSession, qmiMask, "update_mask", newMask)
        \/ task' = Idle
    BY <1>o DEF OpenWith
  <2> HIDE DEF newMask, qmiMask
  <2>5. registerEventMask(mInSession, qmiMask, "update_mask", newMask)
          => task' \in Tasks
    BY <1>r, <2>1, <2>2 DEF registerEventMask
  <2> QED
    BY <1>t, <2>1, <2>3, <2>4, <2>5 DEF Tasks
<1>a. ASSUME NEW ok \in BOOLEAN, AfterRegister(ok)
      PROVE  /\ task' \in Tasks /\ mMask' \subseteq AdapterBits
             /\ mQmiMask' \subseteq Events
             /\ mInSession' \in BOOLEAN /\ mEngineOn' \in BOOLEAN
  <2>1. task' \in Tasks
    BY <1>a, <1>t DEF AfterRegister, Idle, Tasks
  <2>2. convertMask(task.newMask) \in SUBSET Events
    BY <1>m, ConvertType
  <2> QED
    BY <1>a, <1>m, <2>1, <2>2 DEF AfterRegister, TypeOK
<1>1. CASE RegisterSent
  <2>1. modem' \in Modems
    BY <1>1, <1>m DEF RegisterSent, TypeOK, Modems
  <2>2. task' \in Tasks
    BY <1>1 DEF RegisterSent, TypeOK, Tasks
  <2> QED
    BY <1>1, <2>1, <2>2 DEF RegisterSent, TypeOK, adapterVars
<1>2. CASE RegisterReturns
  <2>1. conn' \in Conns
    BY <1>2, <1>m DEF RegisterReturns, TypeOK, Conns
  <2> QED
    BY <1>2, <1>a, <2>1 DEF RegisterReturns, TypeOK
<1>3. CASE RegisterFails
  BY <1>3, <1>a DEF RegisterFails, TypeOK
<1>4. ASSUME NEW mask \in Masks, open(mask) PROVE TypeOK'
  <2>1. mask \in SUBSET AdapterBits /\ mMask \in SUBSET AdapterBits
    BY DEF TypeOK
  <2>2. task' \in Tasks
    BY <1>4, <1>o, <2>1 DEF open
  <2> QED
    BY <1>4, <2>1, <2>2 DEF open, TypeOK, adapterVars
<1>5. CASE Connect
  <2>1. modem' \in Modems /\ conn' \in Conns
    BY <1>5, <1>m DEF Connect, TypeOK, Modems, Conns
  <2>2. task' \in Tasks
    BY <1>5 DEF Connect, TypeOK, Tasks
  <2> QED
    BY <1>5, <2>1, <2>2 DEF Connect, TypeOK, adapterVars
<1>6. CASE OpenReturns
  <2>1. conn' \in Conns
    BY <1>6 DEF OpenReturns, TypeOK, Conns
  <2>2. convertMask(task.newMask) \in SUBSET Events
    BY <1>m, ConvertType
  <2> QED
    BY <1>6, <1>m, <1>t, <2>1, <2>2 DEF OpenReturns, TypeOK
<1>7. CASE OpenFails
  <2>1. modem' \in Modems
    BY <1>7 DEF OpenFails, TypeOK, Modems
  <2> QED
    BY <1>7, <1>t, <2>1 DEF OpenFails, TypeOK
<1>8. CASE EngineUp
  <2>1. msgs' \in Seq({"engine_on", "engine_off", "engine_up"})
    BY <1>8, HeadTailProperties DEF EngineUp, TypeOK
  <2>2. /\ OpenWith(conn', {}, users)
        /\ conn' = NoConn /\ mMask' = {}
    BY <1>8 DEF EngineUp, close
  <2>3. users \in SUBSET AdapterBits
    BY DEF TypeOK
  <2>4. task' \in Tasks
    BY <1>o, <2>2, <2>3
  <2> QED
    BY <1>8, <1>t, <2>1, <2>2, <2>4 DEF EngineUp, TypeOK
<1>9. CASE startFix
  <2>1. task' \in Tasks
    BY <1>9, <1>r DEF startFix, registerEventMask, TypeOK
  <2> QED
    BY <1>9, <2>1 DEF startFix, TypeOK, Modems
<1>10. CASE SetModeReturns
  BY <1>10 DEF SetModeReturns, TypeOK, adapterVars, Idle, Tasks
<1>11. CASE StartReturns
  <2>1. modem' \in Modems
    BY <1>11 DEF StartReturns, TypeOK, Modems
  <2> QED
    BY <1>11, <1>t, <2>1 DEF StartReturns, TypeOK, adapterVars
<1>12. CASE StartFixFails
  BY <1>12, <1>t DEF StartFixFails, TypeOK, adapterVars
<1>13. CASE stopFix
  <2>1. modem' \in Modems
    BY <1>13 DEF stopFix, TypeOK, Modems
  <2>2. task' \in Tasks
    BY <1>13 DEF stopFix, Idle, Tasks
  <2> QED
    BY <1>13, <2>1, <2>2 DEF stopFix, TypeOK, adapterVars
<1>14. CASE StopReturns
  <2>1. task' \in Tasks
    BY <1>14, <1>r, <1>t DEF StopReturns, registerEventMask, TypeOK
  <2> QED
    BY <1>14, <2>1 DEF StopReturns, TypeOK
<1>15. CASE MsgUpdateEngineState
  <2>1. task' \in Tasks
    BY <1>15, <1>r, <1>t DEF MsgUpdateEngineState, registerEventMask,
                             TypeOK
  <2>2. msgs' \in Seq({"engine_on", "engine_off", "engine_up"})
    BY <1>15, HeadTailProperties DEF MsgUpdateEngineState, TypeOK
  <2> QED
    BY <1>15, <2>1, <2>2 DEF MsgUpdateEngineState, TypeOK
<1>16. CASE EngineEvent
  <2>1. channel' \in Seq({"engine_on", "engine_off", "error"})
    BY <1>16, HeadTailProperties DEF EngineEvent, TypeOK
  <2>2. msgs' \in Seq({"engine_on", "engine_off", "engine_up"})
    BY <1>16, AppendProperties DEF EngineEvent, TypeOK
  <2> QED
    BY <1>16, <2>1, <2>2 DEF EngineEvent, TypeOK, adapterVars
<1>17. CASE errorCb
  <2>1. channel' \in Seq({"engine_on", "engine_off", "error"})
    BY <1>17, HeadTailProperties DEF errorCb, TypeOK
  <2>2. msgs' \in Seq({"engine_on", "engine_off", "engine_up"})
    BY <1>17, AppendProperties DEF errorCb, TypeOK
  <2> QED
    BY <1>17, <2>1, <2>2 DEF errorCb, TypeOK, adapterVars
<1>18. CASE EngineOn
  <2>1. modem' \in Modems
    BY <1>18 DEF EngineOn, TypeOK, Modems
  <2>2. channel' \in Seq({"engine_on", "engine_off", "error"})
    BY <1>18, AppendProperties DEF EngineOn, Report, TypeOK
  <2> QED
    BY <1>18, <2>1, <2>2 DEF EngineOn, TypeOK, adapterVars
<1>19. CASE EngineOff
  <2>1. modem' \in Modems
    BY <1>19 DEF EngineOff, TypeOK, Modems
  <2>2. channel' \in Seq({"engine_on", "engine_off", "error"})
    BY <1>19, AppendProperties DEF EngineOff, Report, TypeOK
  <2> QED
    BY <1>19, <2>1, <2>2 DEF EngineOff, TypeOK, adapterVars
<1>20. CASE Crash
  <2>1. modem' \in Modems
    BY <1>20 DEF Crash, TypeOK, Modems
  <2>2. channel' \in Seq({"engine_on", "engine_off", "error"})
    BY <1>20, AppendProperties DEF Crash, TypeOK
  <2> QED
    BY <1>20, <2>1, <2>2 DEF Crash, TypeOK, adapterVars
<1>21. CASE Restart
  <2>1. modem' \in Modems
    <3>1. modem.inst + 1 \in Nat
      BY DEF TypeOK, Modems
    <3> QED
      BY <1>21, <3>1 DEF Restart, TypeOK, Modems
  <2> QED
    BY <1>21, <2>1 DEF Restart, TypeOK, adapterVars
<1>22. CASE UNCHANGED vars
  BY <1>22 DEF vars, adapterVars, TypeOK
<1> QED
  BY <1>1, <1>2, <1>3, <1>4, <1>5, <1>6, <1>7, <1>8, <1>9, <1>10, <1>11, <1>12,
     <1>13, <1>14, <1>15, <1>16, <1>17, <1>18, <1>19, <1>20, <1>21, <1>22
     DEF Next, TaskStep, ProcessMsg, User, Callback

\* The adapter, the client and the two queues keep their types: no message or
\* indication of an unknown kind is ever queued, and every mask is one of
\* events that exist.
THEOREM TypeCorrect == Spec => []TypeOK
BY TypeInit, TypeStep, PTL DEF Spec

-----------------------------------------------------------------------------
(* The client *)

LEMMA ClientInit == Init => ClientState
BY DEF Init, ClientState, NoConn, Idle

LEMMA ClientStep == TypeOK /\ ClientState /\ [Next]_vars => ClientState'
<1> SUFFICES ASSUME TypeOK, ClientState, [Next]_vars PROVE ClientState'
  OBVIOUS
<1> USE DEF ClientState
<1>t. conn \in Conns /\ modem \in Modems /\ task \in Tasks
  BY DEF TypeOK
<1>n. conn.inst \in Nat /\ modem.inst \in Nat
  BY <1>t DEF Conns, Modems
<1>o. ASSUME NEW client, NEW old, NEW mask, OpenWith(client, old, mask)
      PROVE  \/ client.inst = 0 /\ task'.at = "opening"
             \/ client.inst # 0 /\ task'.at \in {"register", "idle"}
  BY <1>o DEF OpenWith, registerEventMask, Idle
<1>1. CASE RegisterSent
  BY <1>1, <1>t DEF RegisterSent, Tasks, Modems
<1>2. CASE RegisterReturns
  BY <1>2, <1>t DEF RegisterReturns, AfterRegister, Conns, Idle
<1>3. CASE RegisterFails
  BY <1>3 DEF RegisterFails, AfterRegister, Idle
<1>4. ASSUME NEW mask \in Masks, open(mask) PROVE ClientState'
  BY <1>4, <1>o DEF open, Idle
<1>5. CASE Connect
  <2>1. /\ conn'.inst = modem.inst /\ conn'.ready = FALSE
        /\ modem'.inst = modem.inst /\ task'.at = "connected"
    BY <1>5, <1>t DEF Connect, Tasks, Modems
  <2> QED
    BY <1>n, <2>1
<1>6. CASE OpenReturns
  BY <1>6, <1>t DEF OpenReturns, Conns, Idle
<1>7. CASE OpenFails
  <2>1. conn' = NoConn /\ task' = Idle
    BY <1>7 DEF OpenFails
  <2>2. modem'.inst = modem.inst
    BY <1>7, <1>t DEF OpenFails, Modems
  <2> QED
    BY <1>n, <2>1, <2>2 DEF NoConn, Idle
<1>8. CASE EngineUp
  <2>1. conn' = NoConn /\ modem' = modem
    BY <1>8 DEF EngineUp, close
  <2>2. OpenWith(conn', mMask', users)
    BY <1>8 DEF EngineUp
  <2>3. task'.at = "opening"
    BY <1>o, <2>1, <2>2 DEF NoConn
  <2> QED
    BY <1>n, <2>1, <2>3 DEF NoConn
<1>9. CASE startFix
  BY <1>9 DEF startFix, registerEventMask, Idle
<1>10. CASE SetModeReturns
  BY <1>10 DEF SetModeReturns, Idle
<1>11. CASE StartReturns
  BY <1>11, <1>t DEF StartReturns, Idle, Modems
<1>12. CASE StartFixFails
  BY <1>12 DEF StartFixFails, Idle
<1>13. CASE stopFix
  <2>1. modem'.inst = modem.inst
    BY <1>13, <1>t DEF stopFix, Modems
  <2> QED
    BY <1>13, <2>1 DEF stopFix, Idle
<1>14. CASE StopReturns
  BY <1>14 DEF StopReturns, registerEventMask, Idle
<1>15. CASE MsgUpdateEngineState
  BY <1>15 DEF MsgUpdateEngineState, registerEventMask, Idle
<1>16. CASE Callback
  BY <1>16 DEF Callback, EngineEvent, errorCb
<1>17. CASE EngineOn \/ EngineOff \/ Crash
  <2>1. modem'.inst = modem.inst
    BY <1>17, <1>t DEF EngineOn, EngineOff, Crash, Modems
  <2>2. UNCHANGED <<conn, task>>
    BY <1>17 DEF EngineOn, EngineOff, Crash
  <2> QED
    BY <2>1, <2>2
<1>18. CASE Restart
  BY <1>18, <1>t, <1>n DEF Restart, Modems
<1>19. CASE UNCHANGED vars
  BY <1>19 DEF vars
<1> QED
  BY <1>1, <1>2, <1>3, <1>4, <1>5, <1>6, <1>7, <1>8, <1>9, <1>10, <1>11, <1>12,
     <1>13, <1>14, <1>15, <1>16, <1>17, <1>18, <1>19
     DEF Next, TaskStep, ProcessMsg, User

-----------------------------------------------------------------------------
(* The registered mask *)

LEMMA MaskInit == Init => MaskState
BY DEF Init, MaskState, MasksInStep, PendingMask, PendingRegistered,
       RequestsAlwaysRegistered, NoConn, Idle, Live

\* Steps that leave the client, the masks, the service's registration and the
\* pending one alone, and connect nobody.
LEMMA MaskUnaffected ==
  ASSUME MaskState, conn' = conn, mMask' = mMask, mQmiMask' = mQmiMask,
         Live' => Live /\ modem'.regs = modem.regs,
         task' = task \/ task'.at \in {"idle", "set_mode", "start", "stopped"}
  PROVE  MaskState'
BY DEF MaskState, MasksInStep, PendingMask, PendingRegistered,
       RequestsAlwaysRegistered

LEMMA MaskStep ==
  TypeOK /\ ClientState /\ MaskState /\ [Next]_vars => MaskState'
<1> SUFFICES ASSUME TypeOK, ClientState, MaskState, [Next]_vars
             PROVE  MaskState'
  OBVIOUS
<1>t. conn \in Conns /\ modem \in Modems /\ task \in Tasks
  BY DEF TypeOK
<1>n. conn.inst \in Nat /\ modem.inst \in Nat
  BY <1>t DEF Conns, Modems
<1>s. MasksInStep /\ PendingMask /\ PendingRegistered /\ RequestsAlwaysRegistered
  BY DEF MaskState
\* A registration starts with a mask that contains the requests.
<1>r. ASSUME NEW q, NEW then, NEW new,
             mQmiMask \ Tracking \subseteq q,
             then = "update_mask" => convertMask(new) \ Tracking \subseteq q,
             task' = [at |-> "register", qmiMask |-> q, then |-> then,
                      newMask |-> new],
             UNCHANGED <<conn, mMask, mQmiMask>>,
             Live' => Live /\ modem'.regs = modem.regs
      PROVE  MaskState'
  <2>1. MasksInStep' /\ RequestsAlwaysRegistered'
    BY <1>r, <1>s DEF MasksInStep, RequestsAlwaysRegistered
  <2>2. PendingMask'
    BY <1>r DEF PendingMask
  <2>3. PendingRegistered'
    BY <1>r DEF PendingRegistered
  <2> QED
    BY <2>1, <2>2, <2>3 DEF MaskState
<1>1. CASE RegisterSent
  <2>1. /\ task'.at = "registered" /\ modem'.regs = task.qmiMask
        /\ task'.qmiMask = task.qmiMask /\ task'.then = task.then
        /\ task'.newMask = task.newMask
        /\ task.at = "register"
    BY <1>1, <1>t DEF RegisterSent, Tasks, Modems
  <2>2. UNCHANGED <<conn, mMask, mQmiMask>> /\ Live
    BY <1>1 DEF RegisterSent, adapterVars
  <2> QED
    BY <1>s, <2>1, <2>2 DEF MaskState, MasksInStep, PendingMask,
       PendingRegistered, RequestsAlwaysRegistered
<1>2. CASE RegisterReturns
  <2>1. /\ conn'.eventRegMask = task.qmiMask /\ conn'.ready = conn.ready
        /\ conn'.inst = conn.inst /\ modem' = modem
        /\ task.at = "registered"
    BY <1>2, <1>t DEF RegisterReturns, Conns
  <2>2. task'.at \in {"idle", "set_mode"}
    BY <1>2 DEF RegisterReturns, AfterRegister, Idle
  <2>3. \/ UNCHANGED <<mMask, mQmiMask>>
        \/ /\ task.then = "update_mask"
           /\ mMask' = task.newMask /\ mQmiMask' = convertMask(task.newMask)
    BY <1>2 DEF RegisterReturns, AfterRegister
  <2>4. mQmiMask' \ Tracking \subseteq task.qmiMask
    BY <1>s, <2>1, <2>3 DEF PendingMask
  <2>5. Live' => modem'.regs = task.qmiMask
    BY <1>s, <2>1 DEF PendingRegistered, Live
  <2>6. MasksInStep'
    BY <1>s, <2>1, <2>3 DEF MasksInStep
  <2> QED
    BY <2>1, <2>2, <2>4, <2>5, <2>6 DEF MaskState, PendingMask,
       PendingRegistered, RequestsAlwaysRegistered
<1>3. CASE RegisterFails
  <2>1. UNCHANGED <<conn, modem, mMask, mQmiMask>>
    BY <1>3 DEF RegisterFails, AfterRegister
  <2>2. task'.at \in {"idle", "set_mode"}
    BY <1>3 DEF RegisterFails, AfterRegister, Idle
  <2> QED
    BY <2>1, <2>2, MaskUnaffected DEF Live
<1>o. ASSUME NEW client, NEW old, NEW mask, OpenWith(client, old, mask)
      PROVE  \/ /\ client.inst = 0 /\ task'.at = "opening"
                /\ convertMask(task'.newMask) \ Tracking \subseteq task'.qmiMask
             \/ /\ client.inst # 0 /\ task' = Idle
             \/ /\ client.inst # 0
                /\ registerEventMask(mInSession,
                     convertMask(old \cup (mask \ mExcludedMask)), "update_mask",
                     old \cup (mask \ mExcludedMask))
  BY <1>o DEF OpenWith, adjustMaskForNoSession
<1>4. ASSUME NEW mask \in Masks, open(mask) PROVE MaskState'
  <2> DEFINE newMask == mMask \cup (mask \ mExcludedMask)
  <2>0. OpenWith(conn, mMask, mask)
    BY <1>4 DEF open
  <2>1. UNCHANGED <<conn, mMask, mQmiMask, modem>> /\ task.at = "idle"
    BY <1>4 DEF open, adapterVars, Idle
  <2>2. CASE conn.inst = 0
    <3>1. /\ task'.at = "opening"
          /\ convertMask(task'.newMask) \ Tracking \subseteq task'.qmiMask
      BY <1>o, <2>0, <2>2
    <3> QED
      BY <1>s, <2>1, <3>1 DEF MaskState, MasksInStep, PendingMask,
         PendingRegistered, RequestsAlwaysRegistered, Live
  <2>3. CASE task' = Idle
    BY <2>1, <2>3, MaskUnaffected DEF Live, Idle
  <2>4. CASE /\ conn.inst # 0
             /\ registerEventMask(mInSession, convertMask(newMask),
                                  "update_mask", newMask)
    <3>1. mQmiMask = convertMask(mMask)
      BY <1>s, <2>1, <2>4 DEF ClientState, MasksInStep
    <3>2. mQmiMask \subseteq convertMask(newMask)
      BY <3>1, ConvertMonotone
    <3> HIDE DEF newMask
    <3>3. PICK q : /\ convertMask(newMask) \ Tracking \subseteq q
                   /\ task' = [at |-> "register", qmiMask |-> q,
                               then |-> "update_mask", newMask |-> newMask]
      BY <2>4 DEF registerEventMask, adjustMaskForNoSession
    <3>4. Live' => Live /\ modem'.regs = modem.regs
      BY <2>1 DEF Live
    <3>5. mQmiMask \ Tracking \subseteq q
      BY <3>2, <3>3
    <3> QED
      BY <1>r, <2>1, <3>3, <3>4, <3>5
  <2> QED
    BY <1>o, <2>0, <2>2, <2>3, <2>4
<1>5. CASE Connect
  <2>1. /\ conn'.ready = FALSE /\ conn'.eventRegMask = task.qmiMask
        /\ modem'.regs = task.qmiMask /\ task'.at = "connected"
        /\ task'.qmiMask = task.qmiMask /\ task'.newMask = task.newMask
        /\ task.at = "opening"
    BY <1>5, <1>t DEF Connect, Tasks, Modems
  <2> QED
    BY <1>s, <2>1 DEF MaskState, MasksInStep, PendingMask,
       PendingRegistered, RequestsAlwaysRegistered
<1>6. CASE OpenReturns
  <2>1. /\ conn'.inst = conn.inst /\ conn'.eventRegMask = conn.eventRegMask
        /\ modem' = modem /\ task.at = "connected" /\ task'.at = "idle"
        /\ mMask' = task.newMask /\ mQmiMask' = convertMask(task.newMask)
    BY <1>6, <1>t DEF OpenReturns, Conns, Idle
  <2>2. conn'.eventRegMask = task.qmiMask /\ (Live' => modem'.regs = task.qmiMask)
    BY <1>s, <2>1 DEF PendingRegistered, Live
  <2>3. mQmiMask' \ Tracking \subseteq task.qmiMask
    BY <1>s, <2>1 DEF PendingMask
  <2> QED
    BY <2>1, <2>2, <2>3 DEF MaskState, MasksInStep, PendingMask,
       PendingRegistered, RequestsAlwaysRegistered
<1>7. CASE OpenFails
  <2>1. conn' = NoConn /\ task' = Idle
    BY <1>7 DEF OpenFails
  <2> QED
    BY <2>1 DEF NoConn, Idle, MaskState, MasksInStep, PendingMask,
       PendingRegistered, RequestsAlwaysRegistered
<1>8. CASE EngineUp
  <2>1. conn' = NoConn /\ OpenWith(conn', mMask', users)
    BY <1>8 DEF EngineUp, close
  <2>2. /\ task'.at = "opening"
        /\ convertMask(task'.newMask) \ Tracking \subseteq task'.qmiMask
    BY <2>1 DEF OpenWith, adjustMaskForNoSession, NoConn
  <2> QED
    BY <2>1, <2>2 DEF NoConn, MaskState, MasksInStep, PendingMask,
       PendingRegistered, RequestsAlwaysRegistered
<1>9. CASE startFix
  <2>1. /\ UNCHANGED <<conn, mMask, mQmiMask>>
        /\ Live' => Live /\ modem'.regs = modem.regs
    BY <1>9 DEF startFix, Live
  <2>2. task' = [at |-> "register", qmiMask |-> mQmiMask, then |-> "set_mode",
                 newMask |-> {}]
    BY <1>9 DEF startFix, registerEventMask
  <2> QED
    BY <1>r, <2>1, <2>2
<1>10. CASE SetModeReturns \/ StartReturns \/ StartFixFails \/ stopFix
  <2>1. task'.at \in {"idle", "start", "stopped"}
    BY <1>10 DEF SetModeReturns, StartReturns, StartFixFails, stopFix, Idle
  <2>2. UNCHANGED <<conn, mMask, mQmiMask>>
    BY <1>10 DEF SetModeReturns, StartReturns, StartFixFails, stopFix, adapterVars
  <2>3. /\ modem'.inst = modem.inst /\ modem'.up = modem.up
        /\ modem'.regs = modem.regs
    BY <1>10, <1>t DEF SetModeReturns, StartReturns, StartFixFails, stopFix, Modems
  <2> QED
    BY <2>1, <2>2, <2>3, MaskUnaffected DEF Live
<1>11. CASE StopReturns \/ MsgUpdateEngineState
  <2>1. UNCHANGED <<conn, mMask, mQmiMask, modem>>
    BY <1>11 DEF StopReturns, MsgUpdateEngineState
  <2>2. Live' => Live /\ modem'.regs = modem.regs
    BY <2>1 DEF Live
  <2>3. \/ task' = Idle
        \/ task' = [at |-> "register", qmiMask |-> mQmiMask \ Tracking,
                    then |-> "idle", newMask |-> {}]
    BY <1>11 DEF StopReturns, MsgUpdateEngineState, registerEventMask,
                 adjustMaskForNoSession
  <2>4. CASE task' = Idle
    BY <2>1, <2>2, <2>4, MaskUnaffected DEF Idle
  <2> QED
    BY <1>r, <2>1, <2>2, <2>3, <2>4
<1>12. CASE Callback \/ EngineOn \/ EngineOff \/ Crash \/ Restart
  <2>1. UNCHANGED <<conn, mMask, mQmiMask, task>>
    BY <1>12 DEF Callback, EngineEvent, errorCb, EngineOn, EngineOff, Crash,
                 Restart, adapterVars
  <2>2. Live' => Live /\ modem'.regs = modem.regs
    <3>1. CASE Callback
      BY <3>1 DEF Callback, EngineEvent, errorCb, Live
    <3>2. CASE EngineOn \/ EngineOff
      BY <3>2, <1>t DEF EngineOn, EngineOff, Modems, Live
    <3>3. CASE Crash
      BY <3>3, <1>t DEF Crash, Modems, Live
    <3>4. CASE Restart
      BY <3>4, <1>t, <1>n, <2>1 DEF Restart, Modems, Live, ClientState
    <3> QED
      BY <1>12, <3>1, <3>2, <3>3, <3>4
  <2> QED
    BY <2>1, <2>2, MaskUnaffected
<1>13. CASE UNCHANGED vars
  <2>1. UNCHANGED <<conn, mMask, mQmiMask, task, modem>>
    BY <1>13 DEF vars, adapterVars
  <2> QED
    BY <2>1, MaskUnaffected DEF Live
<1> QED
  BY <1>1, <1>2, <1>3, <1>4, <1>5, <1>6, <1>7, <1>8, <1>9, <1>10, <1>11, <1>12,
     <1>13 DEF Next, TaskStep, ProcessMsg, User

-----------------------------------------------------------------------------
(* Outside sessions *)

LEMMA QuietInit == Init => QuietState
BY DEF Init, QuietState, PendingQuiet, StartInSession, ServiceQuiet,
       ClientCopyInStep, NoConn, Idle, Live

LEMMA QuietStep ==
  TypeOK /\ ClientState /\ MaskState /\ QuietState /\ [Next]_vars => QuietState'
<1> SUFFICES ASSUME TypeOK, ClientState, MaskState, QuietState, [Next]_vars,
                    Reliable
             PROVE  PendingQuiet' /\ StartInSession' /\ ServiceQuiet'
                      /\ ClientCopyInStep'
  BY DEF QuietState, Reliable
<1>t. conn \in Conns /\ modem \in Modems /\ task \in Tasks
  BY DEF TypeOK
<1>n. conn.inst \in Nat /\ modem.inst \in Nat
  BY <1>t DEF Conns, Modems
<1>q. PendingQuiet /\ StartInSession /\ ServiceQuiet /\ ClientCopyInStep
  BY DEF QuietState
<1>p. PendingRegistered
  BY DEF MaskState
<1>i. task = Idle => task.at = "idle" /\ task.then = "idle"
  BY DEF Idle
<1> USE DEF PendingQuiet, StartInSession, ServiceQuiet, ClientCopyInStep
<1>1. CASE RegisterSent
  <2>1. /\ task'.at = "registered" /\ modem'.regs = task.qmiMask
        /\ task'.qmiMask = task.qmiMask /\ task'.then = task.then
        /\ task.at = "register"
    BY <1>1, <1>t DEF RegisterSent, Tasks, Modems
  <2>2. UNCHANGED <<conn, mInSession, mEngineOn>>
    BY <1>1 DEF RegisterSent, adapterVars
  <2> QED
    BY <1>q, <2>1, <2>2
<1>2. CASE RegisterReturns
  <2>1. /\ conn'.eventRegMask = task.qmiMask /\ conn'.inst = conn.inst
        /\ modem' = modem /\ task.at = "registered"
    BY <1>2, <1>t DEF RegisterReturns, Conns
  <2>2. /\ UNCHANGED <<mInSession, mEngineOn>>
        /\ task'.at \in {"idle", "set_mode"} /\ task'.then = "idle"
        /\ task'.at = "set_mode" => task.then = "set_mode"
    BY <1>2 DEF RegisterReturns, AfterRegister, Idle
  <2>3. Live' => modem'.regs = task.qmiMask
    BY <1>p, <2>1 DEF PendingRegistered, Live
  <2> QED
    BY <1>q, <2>1, <2>2, <2>3
<1>3. CASE RegisterFails
  <2>1. /\ UNCHANGED <<conn, modem, mInSession, mEngineOn>>
        /\ task'.at \in {"idle", "set_mode"} /\ task'.then = "idle"
        /\ task'.at = "set_mode" => task.then = "set_mode"
    BY <1>3 DEF RegisterFails, AfterRegister, Idle
  <2>2. ~Live'
    BY <1>3, <2>1 DEF RegisterFails, MayFail, Reliable, Live
  <2> QED
    BY <1>q, <2>1, <2>2
<1>4. ASSUME NEW mask \in Masks, open(mask)
      PROVE  PendingQuiet' /\ StartInSession' /\ ServiceQuiet'
               /\ ClientCopyInStep'
  <2>0. OpenWith(conn, mMask, mask)
    BY <1>4 DEF open
  <2>1. UNCHANGED <<conn, modem, mInSession, mEngineOn>> /\ task.at = "idle"
    BY <1>4, <1>i DEF open, adapterVars
  <2>2. /\ task'.at \in {"opening", "register", "idle"} /\ task'.then # "set_mode"
        /\ task'.at = "opening" => conn.inst = 0
        /\ task'.at = "opening" \/ (task'.at = "register" /\ ~mInSession)
             => task'.qmiMask \cap Tracking = {}
    BY <2>0 DEF OpenWith, registerEventMask, adjustMaskForNoSession, Idle
  <2>3. Live' <=> Live
    BY <2>1 DEF Live
  <2>4. Live => conn.inst # 0
    BY DEF Live
  <2>5. PendingQuiet' /\ StartInSession'
    BY <2>1, <2>2
  <2> QED
    BY <1>q, <2>1, <2>2, <2>3, <2>4, <2>5
<1>5. CASE Connect
  <2>1. /\ conn'.eventRegMask = task.qmiMask /\ modem'.regs = task.qmiMask
        /\ task'.at = "connected" /\ task'.qmiMask = task.qmiMask
        /\ task'.then = task.then /\ task.at = "opening"
    BY <1>5, <1>t DEF Connect, Tasks, Modems
  <2>2. UNCHANGED <<mInSession, mEngineOn>>
    BY <1>5 DEF Connect, adapterVars
  <2> QED
    BY <1>q, <2>1, <2>2
<1>6. CASE OpenReturns
  <2>1. /\ conn'.inst = conn.inst /\ conn'.eventRegMask = conn.eventRegMask
        /\ modem' = modem /\ task.at = "connected" /\ task' = Idle
    BY <1>6, <1>t DEF OpenReturns, Conns
  <2>2. Live' => Live /\ modem'.regs = task.qmiMask
    BY <1>p, <2>1 DEF PendingRegistered, Live
  <2> QED
    BY <1>q, <2>1, <2>2 DEF Idle
<1>7. CASE OpenFails
  BY <1>7 DEF OpenFails, NoConn, Idle, Live
<1>8. CASE EngineUp
  <2>1. /\ conn' = NoConn /\ OpenWith(conn', mMask', users)
        /\ UNCHANGED mInSession
    BY <1>8 DEF EngineUp, close
  <2>2. /\ task'.at = "opening" /\ task'.then = "idle"
        /\ task'.qmiMask \cap Tracking = {}
    BY <2>1 DEF OpenWith, adjustMaskForNoSession, NoConn
  <2> QED
    BY <2>1, <2>2 DEF NoConn, Live
<1>9. CASE startFix
  <2>1. /\ mInSession' = TRUE /\ task'.at = "register"
        /\ UNCHANGED <<conn, modem>> /\ task.at = "idle"
    BY <1>9, <1>i DEF startFix, registerEventMask
  <2> QED
    BY <1>q, <2>1 DEF Live
<1>10. CASE SetModeReturns \/ StartReturns \/ StartFixFails \/ stopFix
  <2>1. /\ task'.at \in {"idle", "start", "stopped"} /\ task'.then = "idle"
        /\ task'.at = "start" => task.at = "set_mode"
        /\ task.at \in {"idle", "set_mode", "start"}
    BY <1>10, <1>i DEF SetModeReturns, StartReturns, StartFixFails, stopFix, Idle
  <2>2. UNCHANGED <<conn, mInSession, mEngineOn>>
    BY <1>10 DEF SetModeReturns, StartReturns, StartFixFails, stopFix, adapterVars
  <2>3. (Live' <=> Live) /\ modem'.regs = modem.regs
    BY <1>10, <1>t, <2>2 DEF SetModeReturns, StartReturns, StartFixFails, stopFix,
                             Modems, Live
  <2> QED
    BY <1>q, <2>1, <2>2, <2>3
<1>11. CASE StopReturns
  <2>1. UNCHANGED <<conn, modem, mEngineOn>> /\ task.at = "stopped"
    BY <1>11 DEF StopReturns
  <2>2. /\ task'.at \in {"idle", "register"} /\ task'.then = "idle"
        /\ task'.at = "idle" => mEngineOn
        /\ task'.at = "register" => task'.qmiMask \cap Tracking = {}
    BY <1>11 DEF StopReturns, registerEventMask, adjustMaskForNoSession, Idle
  <2>3. PendingQuiet' /\ StartInSession'
    BY <2>2
  <2>4. ServiceQuiet'
    BY <2>1, <2>2
  <2>5. ClientCopyInStep'
    BY <1>q, <2>1, <2>2 DEF Live
  <2> QED
    BY <2>3, <2>4, <2>5
<1>12. CASE MsgUpdateEngineState
  <2>1. UNCHANGED <<conn, modem, mInSession>> /\ task.at = "idle"
    BY <1>12, <1>i DEF MsgUpdateEngineState
  <2>2. ~mEngineOn' => Head(msgs) = "engine_off"
    BY <1>12 DEF MsgUpdateEngineState
  <2>3. IF mEngineOn /\ ~mInSession /\ Head(msgs) = "engine_off"
          THEN /\ task'.at = "register" /\ task'.then = "idle"
               /\ task'.qmiMask \cap Tracking = {}
          ELSE task'.at = "idle" /\ task'.then = "idle"
    BY <1>12 DEF MsgUpdateEngineState, registerEventMask, adjustMaskForNoSession,
                 Idle
  <2>4. PendingQuiet' /\ StartInSession'
    BY <2>3
  <2>5. ServiceQuiet'
    BY <1>q, <2>1, <2>2, <2>3 DEF Live
  <2>6. ClientCopyInStep'
    BY <1>q, <2>1, <2>3 DEF Live
  <2> QED
    BY <2>4, <2>5, <2>6
<1>13. CASE Callback \/ EngineOn \/ EngineOff \/ Crash \/ Restart
  <2>1. UNCHANGED <<conn, mInSession, mEngineOn, task>>
    BY <1>13 DEF Callback, EngineEvent, errorCb, EngineOn, EngineOff, Crash,
                 Restart, adapterVars
  <2>2. Live' => Live /\ modem'.regs = modem.regs
    <3>1. CASE Callback
      BY <3>1 DEF Callback, EngineEvent, errorCb, Live
    <3>2. CASE EngineOn \/ EngineOff
      BY <3>2, <1>t DEF EngineOn, EngineOff, Modems, Live
    <3>3. CASE Crash
      BY <3>3, <1>t DEF Crash, Modems, Live
    <3>4. CASE Restart
      BY <3>4, <1>t, <1>n, <2>1 DEF Restart, Modems, Live, ClientState
    <3> QED
      BY <1>13, <3>1, <3>2, <3>3, <3>4
  <2> QED
    BY <1>q, <2>1, <2>2
<1>14. CASE UNCHANGED vars
  BY <1>q, <1>14 DEF vars, adapterVars, Live
<1> QED
  BY <1>1, <1>2, <1>3, <1>4, <1>5, <1>6, <1>7, <1>8, <1>9, <1>10, <1>11, <1>12,
     <1>13, <1>14 DEF Next, TaskStep, ProcessMsg, User

-----------------------------------------------------------------------------
(* Theorems *)

Inv == TypeOK /\ ClientState /\ MaskState /\ QuietState

LEMMA Invariance == Spec => []Inv
<1>1. Init => Inv
  BY TypeInit, ClientInit, MaskInit, QuietInit DEF Inv
<1>2. Inv /\ [Next]_vars => Inv'
  BY TypeStep, ClientStep, MaskStep, QuietStep DEF Inv
<1> QED
  BY <1>1, <1>2, PTL DEF Spec

\* The adapter's two masks agree in every state, whatever fails.
THEOREM MasksAgree == Spec => []MasksInStep
<1>1. Inv => MasksInStep
  BY DEF Inv, MaskState
<1> QED
  BY <1>1, Invariance, PTL

\* Requests of the network stay registered with the service and pass the client
\* through sessions, reports, failures and restarts, for any masks.
THEOREM RequestsKept == Spec => []RequestsAlwaysRegistered
<1>1. Inv => RequestsAlwaysRegistered
  BY DEF Inv, MaskState
<1> QED
  BY <1>1, Invariance, PTL

\* When requests do not fail, tracking events outlive a session only if the
\* adapter still waits for engine-off.
THEOREM TrackingEnds == Spec => []TrackingOnlyWhileEngineOn
<1>1. Inv => TrackingOnlyWhileEngineOn
  BY DEF Inv, QuietState, ServiceQuiet, TrackingOnlyWhileEngineOn, Idle
<1> QED
  BY <1>1, Invariance, PTL

\* When requests do not fail, the client filters by the mask the service has.
THEOREM ClientCopyCorrect == Spec => []ClientCopyInStep
<1>1. Inv => ClientCopyInStep
  BY DEF Inv, QuietState, ClientCopyInStep
<1> QED
  BY <1>1, Invariance, PTL

-----------------------------------------------------------------------------
(* The loss of the service *)

\* A queue holds m, and holds it at most once.
Has(q, m) == \E i \in DOMAIN q : q[i] = m
Once(q, m) == \A i, j \in DOMAIN q : q[i] = m /\ q[j] = m => i = j

\* The head of a queue is one of its messages, and the others stay.
LEMMA HasTail ==
  ASSUME NEW S, NEW q \in Seq(S), q # <<>>, NEW m
  PROVE  /\ Has(q, m) <=> Head(q) = m \/ Has(Tail(q), m)
         /\ Once(q, m) => /\ Once(Tail(q), m)
                          /\ Head(q) = m => ~Has(Tail(q), m)
<1>1. /\ Head(q) = q[1] /\ 1 \in DOMAIN q
      /\ \A i \in DOMAIN Tail(q) : i + 1 \in DOMAIN q /\ Tail(q)[i] = q[i + 1]
      /\ \A i \in DOMAIN q : i = 1 \/ i - 1 \in DOMAIN Tail(q)
      /\ DOMAIN q \subseteq Int /\ DOMAIN Tail(q) \subseteq Nat \ {0}
  OBVIOUS
<1>2. \A i \in DOMAIN q : i = 1 \/ Tail(q)[i - 1] = q[i]
  BY <1>1
<1>3. Has(q, m) <=> Head(q) = m \/ Has(Tail(q), m)
  BY <1>1, <1>2 DEF Has
<1>4. ASSUME Once(q, m)
      PROVE  Once(Tail(q), m) /\ (Head(q) = m => ~Has(Tail(q), m))
  <2>1. Once(Tail(q), m)
    <3> SUFFICES ASSUME NEW i \in DOMAIN Tail(q), NEW j \in DOMAIN Tail(q),
                        Tail(q)[i] = m, Tail(q)[j] = m
                 PROVE  i = j
      BY DEF Once
    <3>1. i + 1 = j + 1
      BY <1>1, <1>4 DEF Once
    <3> QED
      BY <1>1, <3>1
  <2>2. Head(q) = m => ~Has(Tail(q), m)
    <3> SUFFICES ASSUME NEW i \in DOMAIN Tail(q), Head(q) = m, Tail(q)[i] = m
                 PROVE  FALSE
      BY DEF Has
    <3>1. i + 1 = 1
      BY <1>1, <1>4 DEF Once
    <3> QED
      BY <1>1, <3>1
  <2> QED
    BY <2>1, <2>2
<1> QED
  BY <1>3, <1>4

\* A message appended is the only new one.
LEMMA HasAppend ==
  ASSUME NEW S, NEW q \in Seq(S), NEW n \in S, NEW m
  PROVE  /\ Has(Append(q, n), m) <=> n = m \/ Has(q, m)
         /\ Once(q, m) /\ (n = m => ~Has(q, m)) => Once(Append(q, n), m)
<1>1. /\ DOMAIN Append(q, n) = DOMAIN q \cup {Len(q) + 1}
      /\ Append(q, n)[Len(q) + 1] = n
      /\ \A i \in DOMAIN q : Append(q, n)[i] = q[i]
  OBVIOUS
<1> QED
  BY <1>1 DEF Has, Once

\* The two queues of the adapter.
LEMMA Appended ==
  ASSUME TypeOK, NEW e \in {"engine_on", "engine_off", "error"},
         NEW n \in {"engine_on", "engine_off", "engine_up"}
  PROVE  /\ Has(Append(channel, e), "error") <=> e = "error" \/ Has(channel, "error")
         /\ Once(channel, "error") /\ (e = "error" => ~Has(channel, "error"))
              => Once(Append(channel, e), "error")
         /\ Has(Append(msgs, n), "engine_up") <=> n = "engine_up" \/ Has(msgs, "engine_up")
         /\ Once(msgs, "engine_up") /\ (n = "engine_up" => ~Has(msgs, "engine_up"))
              => Once(Append(msgs, n), "engine_up")
<1>1. /\ channel \in Seq({"engine_on", "engine_off", "error"})
      /\ msgs \in Seq({"engine_on", "engine_off", "engine_up"})
  BY DEF TypeOK
<1>2. /\ Has(Append(channel, e), "error") <=> e = "error" \/ Has(channel, "error")
      /\ Once(channel, "error") /\ (e = "error" => ~Has(channel, "error"))
           => Once(Append(channel, e), "error")
  BY <1>1, HasAppend
<1>3. /\ Has(Append(msgs, n), "engine_up") <=> n = "engine_up" \/ Has(msgs, "engine_up")
      /\ Once(msgs, "engine_up") /\ (n = "engine_up" => ~Has(msgs, "engine_up"))
           => Once(Append(msgs, n), "engine_up")
  BY <1>1, HasAppend
<1> QED
  BY <1>2, <1>3

\* The service of a client that it keeps is lost in a crash and not otherwise,
\* and does not come back.
LEMMA LiveMoves ==
  ASSUME TypeOK, ClientState, [Next]_vars, conn'.inst = conn.inst
  PROVE  /\ Live' => Live
         /\ Live /\ ~Crash => Live'
<1>t. modem \in Modems /\ conn \in Conns
  BY DEF TypeOK
<1>n. conn.inst \in Nat /\ modem.inst \in Nat
  BY <1>t DEF Conns, Modems
<1>1. CASE Crash
  BY <1>1, <1>t DEF Crash, Modems, Live
<1>2. CASE Restart
  <2>1. /\ modem'.inst = modem.inst + 1 /\ ~modem.up
    BY <1>2, <1>t DEF Restart, Modems
  <2>2. conn.inst # modem'.inst
    BY <1>n, <2>1 DEF ClientState
  <2> QED
    BY <2>1, <2>2 DEF Live
<1>3. CASE ~Crash /\ ~Restart
  <2>1. modem'.inst = modem.inst /\ modem'.up = modem.up
    <3>1. CASE TaskStep
      BY <3>1, <1>t DEF TaskStep, RegisterSent, RegisterReturns, RegisterFails,
         Connect, OpenReturns, SetModeReturns, StartReturns, StartFixFails,
         StopReturns, Modems
    <3>2. CASE OpenFails \/ ProcessMsg \/ User
      BY <3>2, <1>t DEF OpenFails, ProcessMsg, MsgUpdateEngineState, EngineUp,
         User, open, startFix, stopFix, Modems
    <3>3. CASE Callback \/ EngineOn \/ EngineOff \/ UNCHANGED vars
      BY <3>3, <1>t DEF Callback, EngineEvent, errorCb, EngineOn, EngineOff,
         vars, Modems
    <3> QED
      BY <1>3, <3>1, <3>2, <3>3 DEF Next
  <2> QED
    BY <2>1, <1>3 DEF Live
<1> QED
  BY <1>1, <1>2, <1>3

\* The loss of a service is told once, to the client that had it: it is an error
\* QMI has yet to deliver, or a message to the adapter, and no client of a
\* running service is meant by either.
LossOnce ==
  /\ Has(channel, "error") =>
       conn.inst # 0 /\ ~Live /\ ~Has(msgs, "engine_up")
  /\ Has(msgs, "engine_up") => conn.ready /\ ~Live
  /\ Once(channel, "error")
  /\ Once(msgs, "engine_up")

\* Unless the service dies while a client is made, the client that locClientOpen
\* returns has a service, and if it loses it later it is told.
LossTold ==
  "crash_in_open" \notin Faults =>
    /\ task.at = "connected" => Live
    /\ conn.ready /\ ~Live => Has(channel, "error") \/ Has(msgs, "engine_up")

\* What does not touch the queues, nor the client for the worse.
LEMMA LossUnaffected ==
  ASSUME TypeOK, ClientState, LossOnce, [Next]_vars, conn'.inst = conn.inst,
         conn.ready => conn'.ready, UNCHANGED <<channel, msgs>>
  PROVE  LossOnce'
<1>1. Live' => Live
  BY LiveMoves
<1> QED
  BY <1>1 DEF LossOnce

LEMMA LossOnceStep ==
  ASSUME TypeOK, ClientState, LossOnce, [Next]_vars
  PROVE  LossOnce'
<1>t. /\ conn \in Conns /\ modem \in Modems
      /\ channel \in Seq({"engine_on", "engine_off", "error"})
      /\ msgs \in Seq({"engine_on", "engine_off", "engine_up"})
  BY DEF TypeOK
<1>e. Has(<<>>, "error") = FALSE /\ Once(<<>>, "error")
  BY DEF Has, Once
<1>1. CASE RegisterSent \/ RegisterReturns \/ RegisterFails \/ OpenReturns
           \/ SetModeReturns \/ StartReturns \/ StartFixFails \/ StopReturns
           \/ User \/ Restart
  <2>1. conn'.inst = conn.inst /\ (conn.ready => conn'.ready)
    BY <1>1, <1>t DEF RegisterSent, RegisterReturns, RegisterFails, OpenReturns,
       SetModeReturns, StartReturns, StartFixFails, StopReturns, User, open,
       startFix, stopFix, Restart, Conns
  <2>2. UNCHANGED <<channel, msgs>>
    BY <1>1 DEF RegisterSent, RegisterReturns, RegisterFails, OpenReturns,
       SetModeReturns, StartReturns, StartFixFails, StopReturns, User, open,
       startFix, stopFix, Restart
  <2> QED
    BY <2>1, <2>2, LossUnaffected
<1>2. CASE Connect
  <2>1. task.at = "opening" /\ UNCHANGED <<channel, msgs>>
    BY <1>2 DEF Connect
  <2>2. conn.inst = 0 /\ ~conn.ready
    BY <2>1 DEF ClientState
  <2> QED
    BY <2>1, <2>2 DEF LossOnce
<1>3. CASE OpenFails
  <2>1. task.at \in {"opening", "connected"} /\ channel' = <<>> /\ msgs' = msgs
    BY <1>3 DEF OpenFails
  <2>2. ~conn.ready
    BY <2>1 DEF ClientState
  <2> QED
    BY <1>e, <2>1, <2>2 DEF LossOnce
<1>4. CASE EngineUp
  <2>1. /\ channel' = <<>> /\ msgs # <<>> /\ Head(msgs) = "engine_up"
        /\ msgs' = Tail(msgs)
    BY <1>4 DEF EngineUp
  <2>2. ~Has(msgs', "engine_up") /\ Once(msgs', "engine_up")
    BY <1>t, <2>1, HasTail DEF LossOnce
  <2> QED
    BY <1>e, <2>1, <2>2 DEF LossOnce
<1>5. CASE MsgUpdateEngineState
  <2>1. /\ msgs # <<>> /\ Head(msgs) # "engine_up" /\ msgs' = Tail(msgs)
        /\ UNCHANGED <<conn, channel>>
    BY <1>5 DEF MsgUpdateEngineState
  <2>2. /\ Has(msgs', "engine_up") <=> Has(msgs, "engine_up")
        /\ Once(msgs', "engine_up")
    BY <1>t, <2>1, HasTail DEF LossOnce
  <2>3. Live' => Live
    BY <2>1, LiveMoves
  <2> QED
    BY <2>1, <2>2, <2>3 DEF LossOnce
<1>6. CASE EngineEvent
  <2>1. /\ channel # <<>> /\ Head(channel) \in {"engine_on", "engine_off"}
        /\ channel' = Tail(channel) /\ conn' = conn
        /\ msgs' = Append(msgs, Head(channel)) \/ msgs' = msgs
    BY <1>6 DEF EngineEvent
  <2>2. /\ Has(channel', "error") <=> Has(channel, "error")
        /\ Once(channel', "error")
    BY <1>t, <2>1, HasTail DEF LossOnce
  <2>3. /\ Has(msgs', "engine_up") <=> Has(msgs, "engine_up")
        /\ Once(msgs', "engine_up")
    BY <2>1, Appended DEF LossOnce
  <2>4. Live' => Live
    BY <2>1, LiveMoves
  <2> QED
    BY <2>1, <2>2, <2>3, <2>4 DEF LossOnce
<1>7. CASE errorCb
  <2>1. /\ channel # <<>> /\ Head(channel) = "error"
        /\ channel' = Tail(channel) /\ conn' = conn
        /\ msgs' = IF conn.ready THEN Append(msgs, "engine_up") ELSE msgs
    BY <1>7 DEF errorCb
  <2>2. /\ Has(channel, "error")
        /\ ~Has(channel', "error") /\ Once(channel', "error")
    BY <1>t, <2>1, HasTail DEF LossOnce
  <2>3. ~Live /\ ~Has(msgs, "engine_up")
    BY <2>2 DEF LossOnce
  <2>4. /\ Has(msgs', "engine_up") => conn.ready
        /\ Once(msgs', "engine_up")
    BY <2>1, <2>3, Appended DEF LossOnce
  <2>5. ~Live'
    BY <2>1, <2>3, LiveMoves
  <2> QED
    BY <2>1, <2>2, <2>4, <2>5 DEF LossOnce
<1>8. CASE EngineOn \/ EngineOff
  <2>1. /\ UNCHANGED <<conn, msgs>>
        /\ \/ channel' = channel
           \/ channel' = Append(channel, "engine_on")
           \/ channel' = Append(channel, "engine_off")
    BY <1>8 DEF EngineOn, EngineOff, Report
  <2>2. /\ Has(channel', "error") <=> Has(channel, "error")
        /\ Once(channel', "error")
    BY <2>1, Appended DEF LossOnce
  <2>3. Live' => Live
    BY <2>1, LiveMoves
  <2> QED
    BY <2>1, <2>2, <2>3 DEF LossOnce
<1>9. CASE Crash
  <2>1. /\ UNCHANGED <<conn, msgs>> /\ modem'.up = FALSE
        /\ channel' = IF Live THEN Append(channel, "error") ELSE channel
    BY <1>9, <1>t DEF Crash, Modems
  <2>2. ~Live'
    BY <2>1 DEF Live
  <2>3. CASE Live
    <3>1. /\ ~Has(channel, "error") /\ ~Has(msgs, "engine_up") /\ conn.inst # 0
      BY <2>3 DEF LossOnce, Live
    <3>2. Once(channel', "error")
      BY <2>1, <2>3, <3>1, Appended DEF LossOnce
    <3> QED
      BY <2>1, <2>2, <3>1, <3>2 DEF LossOnce
  <2>4. CASE ~Live
    BY <2>1, <2>2, <2>4 DEF LossOnce
  <2> QED
    BY <2>3, <2>4
<1>10. CASE UNCHANGED vars
  BY <1>10, LossUnaffected DEF vars
<1> QED
  BY <1>1, <1>2, <1>3, <1>4, <1>5, <1>6, <1>7, <1>8, <1>9, <1>10
     DEF Next, TaskStep, ProcessMsg, Callback

LEMMA LossToldStep ==
  ASSUME TypeOK, ClientState, LossOnce, LossTold, [Next]_vars
  PROVE  LossTold'
<1> SUFFICES ASSUME "crash_in_open" \notin Faults
             PROVE  /\ task'.at = "connected" => Live'
                    /\ conn'.ready /\ ~Live' =>
                         Has(channel', "error") \/ Has(msgs', "engine_up")
  BY DEF LossTold
<1>t. /\ conn \in Conns /\ modem \in Modems /\ task \in Tasks
      /\ channel \in Seq({"engine_on", "engine_off", "error"})
      /\ msgs \in Seq({"engine_on", "engine_off", "engine_up"})
  BY DEF TypeOK
<1>l. /\ task.at = "connected" => Live
      /\ conn.ready /\ ~Live => Has(channel, "error") \/ Has(msgs, "engine_up")
  BY DEF LossTold
\* The steps of the thread that keep the client.
<1>1. CASE RegisterSent \/ RegisterReturns \/ RegisterFails \/ OpenReturns
           \/ SetModeReturns \/ StartReturns \/ StartFixFails \/ StopReturns
           \/ User
  <2>1. /\ conn'.inst = conn.inst
        /\ conn'.ready = conn.ready \/ task.at = "connected"
    BY <1>1, <1>t DEF RegisterSent, RegisterReturns, RegisterFails, OpenReturns,
       SetModeReturns, StartReturns, StartFixFails, StopReturns, User, open,
       startFix, stopFix, Conns
  <2>4. task'.at # "connected"
    <3>1. CASE RegisterSent \/ RegisterReturns \/ RegisterFails \/ OpenReturns
               \/ SetModeReturns \/ StartReturns \/ StartFixFails \/ StopReturns
               \/ startFix \/ stopFix
      BY <3>1, <1>t DEF RegisterSent, RegisterReturns, RegisterFails, OpenReturns,
         SetModeReturns, StartReturns, StartFixFails, StopReturns, startFix,
         stopFix, AfterRegister, registerEventMask, Idle, Tasks
    <3>2. CASE \E mask \in Masks : open(mask)
      BY <3>2 DEF open, OpenWith, registerEventMask, Idle
    <3> QED
      BY <1>1, <3>1, <3>2 DEF User
  <2>2. UNCHANGED <<channel, msgs>> /\ ~Crash
    BY <1>1, <1>t DEF RegisterSent, RegisterReturns, RegisterFails, OpenReturns,
       SetModeReturns, StartReturns, StartFixFails, StopReturns, User, open,
       startFix, stopFix, Crash, Modems
  <2>3. Live => Live'
    BY <2>1, <2>2, LiveMoves
  <2> QED
    BY <1>l, <2>1, <2>2, <2>3, <2>4
<1>2. CASE Connect
  <2>1. /\ conn'.inst = modem.inst /\ ~conn'.ready
        /\ modem'.inst = modem.inst /\ modem'.up
    BY <1>2, <1>t DEF Connect, Modems
  <2> QED
    BY <2>1 DEF Live, ClientState
<1>3. CASE OpenFails
  BY <1>3 DEF OpenFails, NoConn, Idle
<1>4. CASE EngineUp
  <2>1. conn' = NoConn /\ OpenWith(conn', mMask', users)
    BY <1>4 DEF EngineUp, close
  <2>2. task'.at = "opening"
    BY <2>1 DEF OpenWith, NoConn
  <2> QED
    BY <2>1, <2>2 DEF NoConn
\* The message of a loss stays in the queue behind an engine report.
<1>5. CASE MsgUpdateEngineState
  <2>1. /\ msgs # <<>> /\ Head(msgs) # "engine_up" /\ msgs' = Tail(msgs)
        /\ UNCHANGED <<conn, channel, modem>> /\ task'.at # "connected"
    BY <1>5 DEF MsgUpdateEngineState, registerEventMask, Idle
  <2>2. Has(msgs', "engine_up") <=> Has(msgs, "engine_up")
    BY <1>t, <2>1, HasTail
  <2> QED
    BY <1>l, <2>1, <2>2 DEF Live
<1>6. CASE EngineEvent
  <2>1. /\ channel # <<>> /\ Head(channel) \in {"engine_on", "engine_off"}
        /\ channel' = Tail(channel) /\ UNCHANGED <<conn, task, modem>>
        /\ msgs' = Append(msgs, Head(channel)) \/ msgs' = msgs
    BY <1>6 DEF EngineEvent
  <2>2. Has(channel', "error") <=> Has(channel, "error")
    BY <1>t, <2>1, HasTail
  <2>3. Has(msgs', "engine_up") <=> Has(msgs, "engine_up")
    BY <2>1, Appended
  <2> QED
    BY <1>l, <2>1, <2>2, <2>3 DEF Live
\* The error becomes a message.
<1>7. CASE errorCb
  <2>1. /\ UNCHANGED <<conn, task, modem>>
        /\ conn.ready => msgs' = Append(msgs, "engine_up")
    BY <1>7 DEF errorCb
  <2>2. conn.ready => Has(msgs', "engine_up")
    BY <2>1, Appended
  <2> QED
    BY <1>l, <2>1, <2>2 DEF Live
<1>8. CASE EngineOn \/ EngineOff
  <2>1. /\ UNCHANGED <<conn, msgs, task>>
        /\ \/ channel' = channel
           \/ channel' = Append(channel, "engine_on")
           \/ channel' = Append(channel, "engine_off")
        /\ ~Crash
    BY <1>8, <1>t DEF EngineOn, EngineOff, Report, Crash, Modems
  <2>2. Has(channel', "error") <=> Has(channel, "error")
    BY <2>1, Appended
  <2>3. Live => Live'
    BY <2>1, LiveMoves
  <2> QED
    BY <1>l, <2>1, <2>2, <2>3
\* The client that has the service now is ready, and QMI has an error for it.
<1>9. CASE Crash
  <2>1. /\ UNCHANGED <<conn, msgs, task>>
        /\ Live => conn.ready
        /\ channel' = IF Live THEN Append(channel, "error") ELSE channel
    BY <1>9 DEF Crash
  <2>2. Live => Has(channel', "error")
    BY <2>1, Appended
  <2>3. task.at # "connected"
    BY <1>l, <2>1 DEF ClientState
  <2> QED
    BY <1>l, <2>1, <2>2, <2>3
<1>10. CASE Restart
  <2>1. UNCHANGED <<conn, msgs, channel, task>> /\ ~Crash
    BY <1>10 DEF Restart, Crash
  <2>2. Live <=> Live'
    BY <2>1, LiveMoves
  <2> QED
    BY <1>l, <2>1, <2>2
<1>11. CASE UNCHANGED vars
  BY <1>l, <1>11 DEF vars, Live
<1> QED
  BY <1>1, <1>2, <1>3, <1>4, <1>5, <1>6, <1>7, <1>8, <1>9, <1>10, <1>11
     DEF Next, TaskStep, ProcessMsg, Callback

LossInv == Inv /\ LossOnce /\ LossTold

LEMMA LossInvariant == Spec => []LossInv
<1>1. Init => LossOnce /\ LossTold
  BY DEF Init, LossOnce, LossTold, Has, Once, NoConn, Idle
<1>2. Inv /\ LossOnce /\ LossTold /\ [Next]_vars => LossOnce' /\ LossTold'
  BY LossOnceStep, LossToldStep DEF Inv
<1> QED
  BY <1>1, <1>2, Invariance, PTL DEF Spec, LossInv

\* A client that lost its service is told, whatever else fails, provided the
\* service does not die inside locClientOpenInstance.
THEOREM LossesReported ==
  ASSUME "crash_in_open" \notin Faults
  PROVE  Spec => []LossIsReported
<1>1. LossInv => LossIsReported
  BY DEF LossInv, LossTold, LossIsReported, Has
<1> QED
  BY <1>1, LossInvariant, PTL

\* handleEngineUpEvent never throws away a client that has its service: however
\* errors and messages are delayed, none is left over from an earlier client.
THEOREM OnlyLostClientsReplaced == Spec => [][EngineUp => ~Live]_vars
<1>1. LossInv /\ [Next]_vars => [EngineUp => ~Live]_vars
  <2> SUFFICES ASSUME LossInv, EngineUp PROVE ~Live
    OBVIOUS
  <2>1. Has(msgs, "engine_up")
    <3>1. /\ msgs # <<>> /\ Head(msgs) = "engine_up"
          /\ msgs \in Seq({"engine_on", "engine_off", "engine_up"})
      BY DEF EngineUp, LossInv, Inv, TypeOK
    <3> QED
      BY <3>1, HasTail
  <2> QED
    BY <2>1 DEF LossInv, LossOnce
<1> QED
  BY <1>1, LossInvariant, PTL DEF Spec

-----------------------------------------------------------------------------
(* The reports of a session *)

\* With reliable requests: the service runs a session only for the client it is
\* connected to and while the adapter knows of it, and whatever is registered or
\* about to be registered meanwhile has all events of the adapter's mask, and of
\* the mask that will replace it.
SessionState ==
  Reliable =>
    /\ modem.session => /\ Live /\ conn.ready /\ mInSession
                        /\ task.at # "stopped"
                        /\ mQmiMask \subseteq modem.regs
    /\ task.at \in {"register", "registered"} /\ mInSession /\ Live =>
         /\ mQmiMask \subseteq task.qmiMask
         /\ task.then = "update_mask" =>
              convertMask(task.newMask) \subseteq task.qmiMask
    /\ task.at \in {"set_mode", "start"} /\ Live => mQmiMask \subseteq modem.regs

LEMMA SessionStep ==
  ASSUME LossInv, SessionState, [Next]_vars
  PROVE  SessionState'
<1> SUFFICES ASSUME Reliable PROVE SessionState'
  BY DEF SessionState, Reliable
<1>t. /\ TypeOK /\ ClientState
      /\ conn \in Conns /\ modem \in Modems /\ task \in Tasks
  BY DEF LossInv, Inv, TypeOK
<1>q. PendingRegistered /\ MasksInStep /\ StartInSession
  BY DEF LossInv, Inv, MaskState, QuietState
<1>s. /\ modem.session => /\ Live /\ conn.ready /\ mInSession
                          /\ task.at # "stopped"
                          /\ mQmiMask \subseteq modem.regs
      /\ task.at \in {"register", "registered"} /\ mInSession /\ Live =>
           /\ mQmiMask \subseteq task.qmiMask
           /\ task.then = "update_mask" =>
                convertMask(task.newMask) \subseteq task.qmiMask
      /\ task.at \in {"set_mode", "start"} /\ Live => mQmiMask \subseteq modem.regs
  BY DEF SessionState
<1>i. task = Idle => task.at = "idle"
  BY DEF Idle
<1>1. CASE RegisterSent
  <2>1. /\ task'.at = "registered" /\ modem'.regs = task.qmiMask
        /\ modem'.session = modem.session
        /\ task'.qmiMask = task.qmiMask /\ task'.then = task.then
        /\ task'.newMask = task.newMask
        /\ task.at = "register"
    BY <1>1, <1>t DEF RegisterSent, Tasks, Modems
  <2>2. UNCHANGED <<conn, mQmiMask, mInSession>>
    BY <1>1 DEF RegisterSent, adapterVars
  <2>3. Live /\ Live'
    BY <1>1, <1>t DEF RegisterSent, Live, Modems
  <2> QED
    BY <1>s, <2>1, <2>2, <2>3 DEF SessionState
<1>2. CASE RegisterReturns
  <2>1. /\ conn'.ready = conn.ready /\ conn'.inst = conn.inst /\ modem' = modem
        /\ task.at = "registered" /\ mInSession' = mInSession
    BY <1>2, <1>t DEF RegisterReturns, AfterRegister, Conns
  <2>2. /\ task'.at \in {"idle", "set_mode"}
        /\ task'.at = "set_mode" => task.then = "set_mode"
    BY <1>2 DEF RegisterReturns, AfterRegister, Idle
  <2>3. \/ mQmiMask' = mQmiMask
        \/ task.then = "update_mask" /\ mQmiMask' = convertMask(task.newMask)
    BY <1>2 DEF RegisterReturns, AfterRegister
  <2>4. (Live' <=> Live) /\ (Live => modem.regs = task.qmiMask)
    BY <1>q, <2>1 DEF PendingRegistered, Live
  <2>5. mInSession /\ Live => mQmiMask' \subseteq modem.regs
    BY <1>s, <2>1, <2>3, <2>4
  <2>6. task'.at = "set_mode" => mInSession
    BY <1>q, <2>2 DEF StartInSession
  <2> QED
    BY <1>s, <2>1, <2>2, <2>4, <2>5, <2>6 DEF SessionState
<1>3. CASE RegisterFails
  <2>1. /\ UNCHANGED <<conn, modem>> /\ task'.at \in {"idle", "set_mode"}
    BY <1>3 DEF RegisterFails, AfterRegister, Idle
  <2>2. ~Live
    BY <1>3 DEF RegisterFails, MayFail, Reliable
  <2> QED
    BY <1>s, <2>1, <2>2 DEF SessionState, Live
<1>4. ASSUME NEW mask \in Masks, open(mask) PROVE SessionState'
  <2> DEFINE newMask == mMask \cup (mask \ mExcludedMask)
  <2>0. OpenWith(conn, mMask, mask)
    BY <1>4 DEF open
  <2>1. UNCHANGED <<conn, mQmiMask, mInSession, modem>> /\ task.at = "idle"
    BY <1>4, <1>i DEF open, adapterVars
  <2>2. task'.at = "opening" \/ task' = Idle =>
          task'.at \notin {"register", "registered", "set_mode", "start", "stopped"}
    BY DEF Idle
  <2>3. CASE task'.at = "opening" \/ task' = Idle
    BY <1>s, <2>1, <2>2, <2>3 DEF SessionState, Live
  <2>4. CASE /\ conn.inst # 0
             /\ registerEventMask(mInSession, convertMask(newMask),
                                  "update_mask", newMask)
    <3>1. mQmiMask = convertMask(mMask)
      BY <1>t, <1>q, <2>1, <2>4 DEF ClientState, MasksInStep
    <3>2. mQmiMask \subseteq convertMask(newMask)
      BY <3>1, ConvertMonotone
    <3> HIDE DEF newMask
    <3>3. /\ task'.at = "register" /\ task'.newMask = newMask
          /\ mInSession => task'.qmiMask = convertMask(newMask)
      BY <2>4 DEF registerEventMask
    <3> QED
      BY <1>s, <2>1, <3>2, <3>3 DEF SessionState, Live
  <2> QED
    BY <2>0, <2>3, <2>4 DEF OpenWith
\* There is no session without a client that is complete.
<1>5. CASE Connect \/ OpenReturns \/ OpenFails
  <2>1. task.at \in {"opening", "connected"}
    BY <1>5 DEF Connect, OpenReturns, OpenFails
  <2>2. ~modem.session
    BY <1>t, <1>s, <2>1 DEF ClientState
  <2>3. modem'.session = modem.session /\ task'.at \in {"connected", "idle"}
    BY <1>5, <1>t DEF Connect, OpenReturns, OpenFails, Idle, Modems, Tasks
  <2> QED
    BY <2>2, <2>3 DEF SessionState
\* Nor when the adapter learns that its client lost the service.
<1>6. CASE EngineUp
  <2>1. Has(msgs, "engine_up")
    <3>1. /\ msgs # <<>> /\ Head(msgs) = "engine_up"
          /\ msgs \in Seq({"engine_on", "engine_off", "engine_up"})
      BY <1>6, <1>t DEF EngineUp, TypeOK
    <3> QED
      BY <3>1, HasTail
  <2>2. ~modem.session
    BY <1>s, <2>1 DEF LossInv, LossOnce
  <2>3. conn' = NoConn /\ modem' = modem
    BY <1>6 DEF EngineUp, close
  <2>4. ~Live'
    BY <2>3 DEF NoConn, Live
  <2> QED
    BY <2>2, <2>3, <2>4 DEF SessionState
<1>7. CASE startFix
  <2>1. /\ mInSession' = TRUE /\ UNCHANGED <<conn, mQmiMask, modem>>
        /\ task'.at = "register" /\ task'.qmiMask = mQmiMask
        /\ task'.then = "set_mode"
    BY <1>7 DEF startFix, registerEventMask
  <2> QED
    BY <1>s, <2>1 DEF SessionState, Live
<1>8. CASE SetModeReturns \/ StartFixFails
  <2>1. /\ UNCHANGED <<conn, mQmiMask, mInSession, modem>>
        /\ (task'.at = "start" /\ task.at = "set_mode") \/ task'.at = "idle"
    BY <1>8 DEF SetModeReturns, StartFixFails, adapterVars, Idle
  <2> QED
    BY <1>s, <2>1 DEF SessionState, Live
<1>9. CASE StartReturns
  <2>1. /\ UNCHANGED <<conn, mQmiMask, mInSession>> /\ task.at = "start" /\ Live
        /\ modem'.regs = modem.regs /\ task'.at = "idle"
    BY <1>9, <1>t DEF StartReturns, adapterVars, Idle, Modems
  <2>2. Live'
    BY <1>9, <1>t, <2>1 DEF StartReturns, Live, Modems
  <2>3. mInSession /\ conn.ready /\ mQmiMask \subseteq modem.regs
    BY <1>t, <1>q, <1>s, <2>1 DEF StartInSession, ClientState, Live
  <2> QED
    BY <2>1, <2>2, <2>3 DEF SessionState
\* The stop reaches the service, or there is none.
<1>10. CASE stopFix
  <2>1. task'.at = "stopped"
    BY <1>10 DEF stopFix
  <2>2. ~modem'.session
    BY <1>10, <1>t, <1>s DEF stopFix, MayFail, Reliable, Modems
  <2> QED
    BY <2>1, <2>2 DEF SessionState
<1>11. CASE StopReturns
  <2>1. /\ ~mInSession' /\ modem' = modem /\ task.at = "stopped"
        /\ task'.at \in {"idle", "register"}
    BY <1>11 DEF StopReturns, registerEventMask, Idle
  <2> QED
    BY <1>s, <2>1 DEF SessionState
\* An engine report, old or new, registers nothing in a session.
<1>12. CASE MsgUpdateEngineState
  <2>1. /\ UNCHANGED <<conn, mQmiMask, mInSession, modem>>
        /\ task'.at = "idle" \/ (task'.at = "register" /\ ~mInSession)
    BY <1>12 DEF MsgUpdateEngineState, registerEventMask, Idle
  <2> QED
    BY <1>s, <2>1 DEF SessionState, Live
<1>13. CASE Callback \/ EngineOn \/ EngineOff \/ Restart \/ UNCHANGED vars
  <2>1. /\ UNCHANGED <<conn, mQmiMask, mInSession, task>>
        /\ modem'.session = modem.session /\ modem'.regs = modem.regs
        /\ ~Crash \/ UNCHANGED vars
    BY <1>13, <1>t DEF Callback, EngineEvent, errorCb, EngineOn, EngineOff,
       Restart, Crash, vars, adapterVars, Modems
  <2>2. Live' <=> Live
    BY <1>t, <2>1, LiveMoves DEF vars, Live
  <2> QED
    BY <1>s, <2>1, <2>2 DEF SessionState
<1>14. CASE Crash
  <2>1. ~modem'.session /\ ~modem'.up
    BY <1>14, <1>t DEF Crash, Modems
  <2> QED
    BY <2>1 DEF SessionState, Live
<1> QED
  BY <1>1, <1>2, <1>3, <1>4, <1>5, <1>6, <1>7, <1>8, <1>9, <1>10, <1>11, <1>12,
     <1>13, <1>14 DEF Next, TaskStep, ProcessMsg, User

\* When requests do not fail, the service never runs a fix session of the
\* adapter without the reports of that session registered, whatever users,
\* engine reports and restarts come in between.
THEOREM SessionsReport == Spec => []SessionReportsRegistered
<1>1. Init => SessionState
  BY DEF Init, SessionState, Idle
<1>2. LossInv /\ SessionState /\ [Next]_vars => SessionState'
  BY SessionStep
<1>3. SessionState => SessionReportsRegistered
  BY DEF SessionState, SessionReportsRegistered
<1> QED
  BY <1>1, <1>2, <1>3, LossInvariant, PTL DEF Spec

-----------------------------------------------------------------------------
(* The users of the adapter *)

\* When only the service fails: before the first client there is no user; the
\* mask under way to a new client, or to the connected one, is that of all
\* users, and so is the mask of the adapter otherwise.  A client that lost its
\* service may have missed a user.
UsersState ==
  Faults \subseteq {"crash_in_open"} =>
    /\ conn.inst = 0 /\ task.at # "opening" =>
         users = {} /\ mMask = {} /\ task.then # "update_mask"
    /\ task.at \in {"opening", "connected"} => task.newMask = users \ mExcludedMask
    /\ Live /\ task.at \notin {"opening", "connected"} =>
         IF task.at \in {"register", "registered"} /\ task.then = "update_mask"
           THEN task.newMask = users \ mExcludedMask
           ELSE mMask = users \ mExcludedMask

LEMMA UsersStep ==
  ASSUME LossInv, UsersState, [Next]_vars
  PROVE  UsersState'
<1> SUFFICES ASSUME Faults \subseteq {"crash_in_open"} PROVE UsersState'
  BY DEF UsersState
<1>t. /\ TypeOK /\ ClientState
      /\ conn \in Conns /\ modem \in Modems /\ task \in Tasks
  BY DEF LossInv, Inv, TypeOK
<1>u. /\ conn.inst = 0 /\ task.at # "opening" =>
           users = {} /\ mMask = {} /\ task.then # "update_mask"
      /\ task.at \in {"opening", "connected"} =>
           task.newMask = users \ mExcludedMask
      /\ Live /\ task.at \notin {"opening", "connected"} =>
           IF task.at \in {"register", "registered"} /\ task.then = "update_mask"
             THEN task.newMask = users \ mExcludedMask
             ELSE mMask = users \ mExcludedMask
  BY DEF UsersState
<1>i. Idle.at = "idle" /\ Idle.then = "idle"
  BY DEF Idle
\* A user that opens: without a client it is the first, otherwise its mask is
\* added to the others'.
<1>1. ASSUME NEW mask \in Masks, open(mask) PROVE UsersState'
  <2> DEFINE newMask == mMask \cup (mask \ mExcludedMask)
  <2>0. OpenWith(conn, mMask, mask)
    BY <1>1 DEF open
  <2>1. /\ UNCHANGED <<conn, mMask, modem>> /\ task.at = "idle"
        /\ users' = users \cup mask
    BY <1>1, <1>i DEF open, adapterVars
  <2>2. Live' <=> Live
    BY <2>1 DEF Live
  <2>3. Live => newMask = users' \ mExcludedMask
    BY <1>u, <2>1
  <2>4. conn.inst = 0 => newMask = users' \ mExcludedMask
    BY <1>u, <2>1
  <2>5. CASE conn.inst = 0
    <3>1. task'.at = "opening" /\ task'.newMask = newMask
      BY <2>0, <2>5 DEF OpenWith
    <3> QED
      BY <2>4, <2>5, <3>1 DEF UsersState
  <2>6. CASE conn.inst # 0 /\ newMask # mMask
    <3>1. /\ task'.at = "register" /\ task'.newMask = newMask
          /\ task'.then = "update_mask"
      BY <2>0, <2>6 DEF OpenWith, registerEventMask
    <3> QED
      BY <2>1, <2>2, <2>3, <2>6, <3>1 DEF UsersState
  <2>7. CASE conn.inst # 0 /\ newMask = mMask
    <3>1. task' = Idle
      BY <2>0, <2>7 DEF OpenWith
    <3> QED
      BY <1>i, <2>1, <2>2, <2>3, <2>7, <3>1 DEF UsersState
  <2> QED
    BY <2>5, <2>6, <2>7
\* After a loss the adapter opens again with all users.
<1>2. CASE EngineUp
  <2>1. /\ conn' = NoConn /\ mMask' = {} /\ users' = users
        /\ OpenWith(conn', mMask', users)
    BY <1>2 DEF EngineUp, close
  <2>2. task'.at = "opening" /\ task'.newMask = users \ mExcludedMask
    BY <2>1 DEF OpenWith, NoConn
  <2> QED
    BY <2>1, <2>2 DEF UsersState
<1>3. CASE Connect
  <2>1. /\ task'.at = "connected" /\ task'.newMask = task.newMask
        /\ task.at = "opening" /\ users' = users /\ conn'.inst = modem.inst
    BY <1>3, <1>t DEF Connect, Tasks
  <2> QED
    BY <1>t, <1>u, <2>1 DEF UsersState, ClientState
<1>4. CASE OpenReturns
  <2>1. /\ conn'.inst = conn.inst /\ mMask' = task.newMask /\ users' = users
        /\ task.at = "connected" /\ task' = Idle
    BY <1>4, <1>t DEF OpenReturns, Conns
  <2> QED
    BY <1>i, <1>t, <1>u, <2>1 DEF UsersState, ClientState
<1>5. CASE OpenFails
  BY <1>5 DEF OpenFails
\* A registration that returns has reached the service; one that fails in this
\* way has lost it.
<1>6. CASE RegisterReturns
  <2>1. /\ conn'.inst = conn.inst /\ modem' = modem /\ users' = users
        /\ task.at = "registered" /\ task'.at \in {"idle", "set_mode"}
        /\ task'.then = "idle"
        /\ mMask' = IF task.then = "update_mask" THEN task.newMask ELSE mMask
    BY <1>6, <1>t DEF RegisterReturns, AfterRegister, Idle, Conns
  <2>2. Live' <=> Live
    BY <2>1 DEF Live
  <2> QED
    BY <1>u, <2>1, <2>2 DEF UsersState
<1>7. CASE RegisterFails
  <2>1. /\ UNCHANGED <<conn, modem, users, mMask>>
        /\ task.at \in {"register", "registered"}
        /\ task'.at \in {"idle", "set_mode"} /\ task'.then = "idle"
    BY <1>7 DEF RegisterFails, AfterRegister, Idle
  <2>2. ~Live
    BY <1>7 DEF RegisterFails, MayFail
  <2> QED
    BY <1>u, <2>1, <2>2 DEF UsersState, Live
<1>8. CASE RegisterSent
  <2>1. /\ UNCHANGED <<conn, users, mMask>> /\ task.at = "register"
        /\ task'.at = "registered" /\ task'.then = task.then
        /\ task'.newMask = task.newMask /\ Live
    BY <1>8, <1>t DEF RegisterSent, adapterVars, Tasks
  <2> QED
    BY <1>u, <2>1 DEF UsersState, Live
\* What registers the mask that the adapter has, or nothing.
<1>9. CASE startFix \/ stopFix \/ SetModeReturns \/ StartReturns \/ StartFixFails
           \/ StopReturns \/ MsgUpdateEngineState
  <2>1. /\ UNCHANGED <<conn, users, mMask>>
        /\ task.at \in {"idle", "set_mode", "start", "stopped"}
        /\ task'.at \notin {"opening", "connected"} /\ task'.then # "update_mask"
    BY <1>9, <1>i DEF startFix, stopFix, SetModeReturns, StartReturns,
       StartFixFails, StopReturns, MsgUpdateEngineState, registerEventMask,
       adapterVars, Idle
  <2>2. Live' => Live
    BY <1>t, <2>1, LiveMoves
  <2> QED
    BY <1>u, <2>1, <2>2 DEF UsersState
<1>10. CASE Callback \/ EngineOn \/ EngineOff \/ Crash \/ Restart \/ UNCHANGED vars
  <2>1. UNCHANGED <<conn, users, mMask, task>>
    BY <1>10 DEF Callback, EngineEvent, errorCb, EngineOn, EngineOff, Crash,
       Restart, vars, adapterVars
  <2>2. Live' => Live
    BY <1>t, <2>1, LiveMoves
  <2> QED
    BY <1>u, <2>1, <2>2 DEF UsersState
<1> QED
  BY <1>1, <1>2, <1>3, <1>4, <1>5, <1>6, <1>7, <1>8, <1>9, <1>10
     DEF Next, TaskStep, ProcessMsg, User

\* After any number of restarts the adapter serves exactly the users it has, and
\* none of its excluded bits.
THEOREM UsersServed == Spec => []AllUsersServed
<1>1. Init => UsersState
  BY DEF Init, UsersState, NoConn, Idle
<1>2. LossInv /\ UsersState /\ [Next]_vars => UsersState'
  BY UsersStep
<1>3. UsersState => AllUsersServed
  BY DEF UsersState, AllUsersServed, Idle
<1> QED
  BY <1>1, <1>2, <1>3, LossInvariant, PTL DEF Spec
=============================================================================
