-------------------------- MODULE LocSyncReqProofs --------------------------
(***************************************************************************)
(* Theorems about LocSyncReq, for any number of threads, slots and calls   *)
(* and for every combination of faults.                                    *)
(***************************************************************************)
EXTENDS LocSyncReq, TLAPS

-----------------------------------------------------------------------------
(* The inductive invariant *)

\* No caller is in a call before the module has been initialised, so that
\* initialising it takes no slot away from anyone.
InitialisedFirst ==
  ~loc_sync_call_initialized => \A t \in Threads : pc[t] = "idle"

CallsHaveArguments ==
  \A t \in Threads :
    /\ pc[t] # "idle" => req[t] \in RequestType /\ callNo[t] \in 1..MaxCalls
    /\ pc[t] \in Holding => select_id[t] \in Slots

\* The owner's arguments are in its slot, from loc_sync_select_ind on, and
\* ind_is_waiting tells whether it sleeps.
SlotHolds(t) ==
  LET slot == slots[select_id[t]]
  IN  /\ slot.client_handle = req[t].client
      /\ slot.recv_ind_id = req[t].ind
      /\ slot.recv_ind_payload_ptr = IF req[t].buf THEN Frame(t) ELSE NULL
      /\ slot.ind_is_waiting <=> pc[t] = "waiting"

\* A slot without such an owner is empty: it points to nobody's buffer.
SlotsFollowCalls ==
  /\ \A t \in Threads : pc[t] \in Selected => SlotHolds(t)
  /\ \A s \in Slots :
       (\A t \in Threads : ~(pc[t] \in Selected /\ select_id[t] = s))
         => slots[s] = EmptySlot

\* What the running loop of loc_sync_process_ind has seen of slot_in_use.
ScanSawSlots ==
  /\ MutexFree => scan = NoScan
  /\ ~MutexFree => in_use
  /\ scan.consumed => scan.in_use
  /\ ~MutexFree /\ ~scan.in_use =>
       \A s \in Slots : s < scan.pos => ~slot_in_use[s]

\* Only the buffer of a call that has selected its indication holds anything.
BuffersAreLive ==
  \A f \in Frames : mem[f] # NULL =>
    \E t \in Threads : f = Frame(t) /\ pc[t] \in Selected \cup {"returned"}

\* A payload that is there before the wait has been recorded.
ArrivalRecorded ==
  \A t \in Threads :
    pc[t] \in {"selected", "sending", "sent"} /\ mem[Frame(t)] # NULL
      => slots[select_id[t]].ind_has_arrived

-----------------------------------------------------------------------------
(* Types *)

Types == TypeOK /\ CallsHaveArguments

LEMMA TypesInit == Init => Types
<1> SUFFICES ASSUME Init PROVE Types
  OBVIOUS
<1> USE ConstantsAssumption DEF Init
<1>1. EmptySlot \in SlotType
  BY DEF EmptySlot, SlotType
<1>2. scan \in [ind : Indications \cup {NULL}, pos : 1..(NumSlots + 1),
                consumed : BOOLEAN, in_use : BOOLEAN]
  BY DEF NoScan
<1>3. slots \in [Slots -> SlotType]
  BY <1>1
<1>4. TypeOK
  <2>1. slot_in_use \in [Slots -> BOOLEAN] /\ in_use \in BOOLEAN
    OBVIOUS
  <2>2. pc \in [Threads -> PCs]
    BY DEF PCs
  <2>3. /\ req \in [Threads -> RequestType \cup {NULL}]
        /\ select_id \in [Threads -> Slots \cup {0}]
        /\ status \in [Threads -> Statuses \cup {NULL}]
        /\ callNo \in [Threads -> 0..MaxCalls]
    OBVIOUS
  <2>4. mem \in [Frames -> Indications \cup {NULL}]
    OBVIOUS
  <2> QED
    BY <1>2, <1>3, <2>1, <2>2, <2>3, <2>4 DEF TypeOK
<1>5. CallsHaveArguments
  BY DEF CallsHaveArguments, Holding
<1> QED
  BY <1>4, <1>5 DEF Types

LEMMA TypesStep == Types /\ [Next]_vars => Types'
<1> SUFFICES ASSUME Types, [Next]_vars PROVE Types'
  OBVIOUS
<1> USE ConstantsAssumption DEF Types
<1>e. EmptySlot \in SlotType
  BY DEF EmptySlot, SlotType
<1>n. NoScan \in [ind : Indications \cup {NULL}, pos : 1..(NumSlots + 1),
                  consumed : BOOLEAN, in_use : BOOLEAN]
  BY DEF NoScan
<1>f. \A t \in Threads : pc[t] # "idle" => Frame(t) \in Frames
  BY DEF Frame, Frames, CallsHaveArguments
<1>a. \A t \in Threads : pc[t] # "idle" => Answer(t) \in Indications
  BY <1>f DEF Answer, Indications, CallsHaveArguments, RequestType
<1>1. CASE loc_sync_req_init
  <2>1. slots' \in [Slots -> SlotType]
    BY <1>1, <1>e DEF loc_sync_req_init, TypeOK, slotVars
  <2> QED
    BY <1>1, <2>1 DEF loc_sync_req_init, TypeOK, CallsHaveArguments, callerVars,
                      slotVars
<1>2. ASSUME NEW t \in Threads, loc_alloc_slot(t) PROVE Types'
  BY <1>2 DEF loc_alloc_slot, Begin, FreeSlots, TypeOK, CallsHaveArguments,
              PCs, Holding
<1>3. ASSUME NEW t \in Threads, BufferFull(t) PROVE Types'
  BY <1>3 DEF BufferFull, Begin, TypeOK, CallsHaveArguments, PCs, Holding,
              Statuses, slotVars
<1>4. ASSUME NEW t \in Threads, loc_sync_select_ind(t) PROVE Types'
  BY <1>4, <1>f DEF loc_sync_select_ind, TypeOK, CallsHaveArguments, PCs,
              Holding, SlotType, RequestType
<1>5. ASSUME NEW t \in Threads, Transmit(t) PROVE Types'
  BY <1>5, <1>a DEF Transmit, TypeOK, CallsHaveArguments, PCs, Holding, slotVars
<1>6. ASSUME NEW t \in Threads, SendReturns(t) PROVE Types'
  BY <1>6 DEF SendReturns, TypeOK, CallsHaveArguments, PCs, Holding, slotVars
<1>7. ASSUME NEW t \in Threads, SendFails(t) PROVE Types'
  BY <1>7 DEF SendFails, TypeOK, CallsHaveArguments, PCs, Holding, Statuses,
              slotVars
<1>8. ASSUME NEW t \in Threads, loc_sync_wait_for_ind(t) PROVE Types'
  <2> DEFINE s == select_id[t]
  <2>1. s \in Slots /\ slots[s] \in SlotType
    BY <1>8 DEF loc_sync_wait_for_ind, TypeOK, CallsHaveArguments, Holding, PCs
  <2>2. \A b \in BOOLEAN : [slots[s] EXCEPT !.ind_is_waiting = b] \in SlotType
    BY <2>1 DEF SlotType
  <2>3. slots[s].ind_is_waiting \in BOOLEAN
    BY <2>1 DEF SlotType
  <2>4. slots' \in [Slots -> SlotType]
    BY <1>8, <2>1, <2>2, <2>3 DEF loc_sync_wait_for_ind, TypeOK
  <2> HIDE DEF s
  <2> QED
    BY <1>8, <2>4 DEF loc_sync_wait_for_ind, TypeOK, CallsHaveArguments, PCs,
                      Holding, Statuses
<1>9. ASSUME NEW t \in Threads, NEW st \in Statuses, WaitReturns(t, st)
      PROVE Types'
  <2>1. select_id[t] \in Slots /\ slots[select_id[t]] \in SlotType
    BY <1>9 DEF WaitReturns, TypeOK, CallsHaveArguments, Holding, PCs
  <2>2. [slots[select_id[t]] EXCEPT !.ind_is_waiting = FALSE] \in SlotType
    BY <2>1 DEF SlotType
  <2>3. slots' \in [Slots -> SlotType]
    BY <1>9, <2>1, <2>2 DEF WaitReturns, TypeOK
  <2> QED
    BY <1>9, <2>3 DEF WaitReturns, TypeOK, CallsHaveArguments, PCs, Holding
<1>10. ASSUME NEW t \in Threads, loc_free_slot(t) PROVE Types'
  BY <1>10, <1>e DEF loc_free_slot, Release, TypeOK, CallsHaveArguments, PCs, Holding
<1>11. ASSUME NEW t \in Threads, Leave(t) PROVE Types'
  BY <1>11 DEF Leave, TypeOK, CallsHaveArguments, PCs, Holding, slotVars
<1>12. ASSUME NEW m \in asked, loc_sync_process_ind(m) PROVE Types'
  BY <1>12, <1>n DEF loc_sync_process_ind, TypeOK, CallsHaveArguments, slotVars,
              callerVars
<1>13. ASSUME NEW s \in Slots, VisitSlot(s) PROVE Types'
  <2>1. s + 1 \in 1..(NumSlots + 1)
    BY DEF Slots
  <2>2. scan.ind \in Indications
    BY <1>13 DEF VisitSlot, MutexFree, TypeOK
  <2>3. Copies(s) \in BOOLEAN
    BY DEF Copies
  <2>4. scan' \in [ind : Indications \cup {NULL}, pos : 1..(NumSlots + 1),
                   consumed : BOOLEAN, in_use : BOOLEAN]
    BY <1>13, <2>1, <2>3 DEF VisitSlot, TypeOK
  <2>5. slots[s] \in SlotType
    BY DEF TypeOK
  <2>6. mem' \in [Frames -> Indications \cup {NULL}]
    BY <1>13, <2>2, <2>5 DEF VisitSlot, Copies, TypeOK, SlotType
  <2>7. [slots[s] EXCEPT !.ind_has_arrived = TRUE] \in SlotType
    BY <2>5 DEF SlotType
  <2>8. slots' \in [Slots -> SlotType]
    BY <1>13, <2>7 DEF VisitSlot, TypeOK
  <2>9. signalled' \subseteq Slots
    BY <1>13 DEF VisitSlot, TypeOK
  <2> QED
    BY <1>13, <2>4, <2>6, <2>8, <2>9 DEF VisitSlot, TypeOK, CallsHaveArguments,
                                         callerVars
<1>14. CASE EndScan
  BY <1>14, <1>n DEF EndScan, TypeOK, CallsHaveArguments, callerVars
<1>15. CASE UNCHANGED vars
  BY <1>15 DEF vars, slotVars, callerVars, TypeOK, CallsHaveArguments
<1> QED
  BY <1>1, <1>2, <1>3, <1>4, <1>5, <1>6, <1>7, <1>8, <1>9, <1>10, <1>11, <1>12,
     <1>13, <1>14, <1>15
  DEF Next, Caller, CallStep, Callback, Woken, WokenSpuriously, TimedOut, Statuses

\* Type correctness, and with it: a caller that uses a slot index has a valid
\* one, and the payload pointer in a slot is NULL or a caller's buffer.
THEOREM TypeCorrect == Spec => []TypeOK
<1>1. Spec => []Types
  BY TypesInit, TypesStep, PTL DEF Spec
<1>2. Types => TypeOK
  BY DEF Types
<1> QED
  BY <1>1, <1>2, PTL

-----------------------------------------------------------------------------
(* Slots and their owners *)

Ownership ==
  /\ InitialisedFirst
  /\ EverySlotHasOneOwner
  /\ InUseIsExact
  /\ ScanSawSlots

LEMMA OwnershipInit == Init => Ownership
<1> SUFFICES ASSUME Init PROVE Ownership
  OBVIOUS
<1>1. \A t \in Threads : pc[t] \notin Holding
  BY DEF Init, Holding, PCs
<1>2. scan = NoScan /\ MutexFree /\ ~scan.consumed
  BY DEF Init, NoScan, MutexFree
<1> QED
  BY <1>1, <1>2 DEF Init, Ownership, InitialisedFirst, EverySlotHasOneOwner,
                    InUseIsExact, ScanSawSlots

\* A step of a caller that neither takes nor frees a slot.
LEMMA OwnershipQuiet ==
  ASSUME Types, Ownership,
         UNCHANGED <<loc_sync_call_initialized, in_use, slot_in_use, select_id,
                     scan>>,
         \A t \in Threads : pc'[t] \in Holding <=> pc[t] \in Holding,
         loc_sync_call_initialized \/ UNCHANGED pc
  PROVE  Ownership'
<1>1. InitialisedFirst'
  BY DEF Ownership, InitialisedFirst
<1>2. EverySlotHasOneOwner'
  BY DEF Ownership, EverySlotHasOneOwner
<1>3. InUseIsExact' /\ ScanSawSlots'
  BY DEF Ownership, InUseIsExact, ScanSawSlots, MutexFree
<1> QED
  BY <1>1, <1>2, <1>3 DEF Ownership

LEMMA OwnershipStep == Types /\ Ownership /\ [Next]_vars => Ownership'
<1> SUFFICES ASSUME Types, Ownership, [Next]_vars PROVE Ownership'
  OBVIOUS
<1> USE ConstantsAssumption
<1>i. \A t \in Threads : pc[t] # "idle" => loc_sync_call_initialized
  BY DEF Ownership, InitialisedFirst
<1>1. CASE loc_sync_req_init
  <2>1. CASE loc_sync_call_initialized
    BY <1>1, <2>1, OwnershipQuiet DEF loc_sync_req_init, callerVars, slotVars
  <2>2. CASE ~loc_sync_call_initialized
    <3>1. \A t \in Threads : pc'[t] \notin Holding
      BY <1>1, <2>2 DEF loc_sync_req_init, callerVars, Ownership,
                        InitialisedFirst, Holding
    <3>2. scan' = NoScan /\ MutexFree' /\ ~scan'.consumed
      BY <1>1 DEF loc_sync_req_init, Ownership, ScanSawSlots, MutexFree, NoScan
    <3> QED
      BY <1>1, <2>2, <3>1, <3>2
      DEF loc_sync_req_init, Ownership, InitialisedFirst, EverySlotHasOneOwner,
          InUseIsExact, ScanSawSlots
  <2> QED
    BY <2>1, <2>2
<1>2. ASSUME NEW t \in Threads, loc_alloc_slot(t) PROVE Ownership'
  <2>1. PICK s \in FreeSlots :
          /\ select_id' = [select_id EXCEPT ![t] = s]
          /\ slot_in_use' = [slot_in_use EXCEPT ![s] = TRUE]
    BY <1>2 DEF loc_alloc_slot
  <2>2. s \in Slots /\ ~slot_in_use[s] /\ pc[t] = "idle"
    BY <1>2 DEF loc_alloc_slot, Begin, FreeSlots
  <2>3. pc' = [pc EXCEPT ![t] = "alloced"] /\ pc'[t] \in Holding
    BY <1>2 DEF loc_alloc_slot, Types, TypeOK, Holding, PCs
  <2>4. \A u \in Threads : pc[u] \in Holding => select_id[u] # s
    BY <2>2 DEF Ownership, EverySlotHasOneOwner
  <2>5. EverySlotHasOneOwner'
    BY <2>1, <2>2, <2>3, <2>4
    DEF Ownership, EverySlotHasOneOwner, Types, TypeOK, Holding
  <2>6. InUseIsExact'
    BY <1>2, <2>1, <2>2 DEF loc_alloc_slot, InUseIsExact, Types, TypeOK
  <2>7. InitialisedFirst' /\ ScanSawSlots'
    BY <1>2 DEF loc_alloc_slot, Begin, Ownership, InitialisedFirst,
                ScanSawSlots, MutexFree, NoScan
  <2> QED
    BY <2>5, <2>6, <2>7 DEF Ownership
<1>3. ASSUME NEW t \in Threads, BufferFull(t) PROVE Ownership'
  BY <1>3, OwnershipQuiet DEF BufferFull, Begin, slotVars, Holding, Types, TypeOK
<1>4. ASSUME NEW t \in Threads, loc_sync_select_ind(t) PROVE Ownership'
  BY <1>4, <1>i, OwnershipQuiet
  DEF loc_sync_select_ind, Holding, PCs, Types, TypeOK
<1>5. ASSUME NEW t \in Threads, Transmit(t) \/ SendReturns(t) \/ SendFails(t)
      PROVE  Ownership'
  BY <1>5, <1>i, OwnershipQuiet
  DEF Transmit, SendReturns, SendFails, slotVars, Holding, PCs, Types, TypeOK
<1>6. ASSUME NEW t \in Threads, loc_sync_wait_for_ind(t) PROVE Ownership'
  <2>1. pc[t] \in Holding /\ slot_in_use[select_id[t]]
    BY <1>6 DEF loc_sync_wait_for_ind, Holding, PCs, Types, CallsHaveArguments,
                Ownership, EverySlotHasOneOwner
  <2> QED
    BY <1>6, <1>i, <2>1, OwnershipQuiet
    DEF loc_sync_wait_for_ind, Holding, PCs, Types, TypeOK
<1>7. ASSUME NEW t \in Threads, NEW st \in Statuses, WaitReturns(t, st)
      PROVE  Ownership'
  BY <1>7, <1>i, OwnershipQuiet DEF WaitReturns, Holding, PCs, Types, TypeOK
<1>8. ASSUME NEW t \in Threads, loc_free_slot(t) PROVE Ownership'
  <2> DEFINE s == select_id[t]
  <2>1. s \in Slots /\ pc[t] \in Holding /\ slot_in_use[s]
    BY <1>8 DEF loc_free_slot, Release, Holding, PCs, Types, CallsHaveArguments,
                Ownership, EverySlotHasOneOwner
  <2>2. \A u \in Threads \ {t} : pc[u] \in Holding => select_id[u] # s
    BY <2>1 DEF Ownership, EverySlotHasOneOwner
  <2>3. /\ slot_in_use' = [slot_in_use EXCEPT ![s] = FALSE]
        /\ \A u \in Threads \ {t} :
             pc'[u] = pc[u] /\ select_id'[u] = select_id[u]
        /\ pc'[t] \notin Holding
    BY <1>8 DEF loc_free_slot, Release, Holding, Types, TypeOK
  <2> HIDE DEF s
  <2>4. EverySlotHasOneOwner'
    <3>1. ASSUME NEW x \in Slots
          PROVE  slot_in_use'[x] <=>
                   \E u \in Threads : pc'[u] \in Holding /\ select_id'[u] = x
      BY <2>1, <2>2, <2>3 DEF Ownership, EverySlotHasOneOwner, Types, TypeOK, s
    <3>2. ASSUME NEW u \in Threads, NEW v \in Threads, pc'[u] \in Holding,
                 pc'[v] \in Holding, select_id'[u] = select_id'[v]
          PROVE  u = v
      BY <2>3, <3>2 DEF Ownership, EverySlotHasOneOwner
    <3> QED
      BY <3>1, <3>2 DEF EverySlotHasOneOwner
  <2>5. InUseIsExact'
    BY <1>8, <2>1 DEF loc_free_slot, Release, Ownership, InUseIsExact, Types, TypeOK
  <2>6. InitialisedFirst' /\ ScanSawSlots'
    BY <1>8, <1>i DEF loc_free_slot, Release, Ownership, InitialisedFirst, ScanSawSlots,
                      MutexFree, NoScan
  <2> QED
    BY <2>4, <2>5, <2>6 DEF Ownership
<1>9. ASSUME NEW t \in Threads, Leave(t) PROVE Ownership'
  BY <1>9, <1>i, OwnershipQuiet DEF Leave, slotVars, Holding, Types, TypeOK
<1>10. ASSUME NEW m \in asked, loc_sync_process_ind(m) PROVE Ownership'
  <2>1. InitialisedFirst' /\ EverySlotHasOneOwner' /\ InUseIsExact'
    BY <1>10 DEF loc_sync_process_ind, slotVars, callerVars, Ownership,
                 InitialisedFirst, EverySlotHasOneOwner, InUseIsExact
  <2>2. scan' = NoScan \/ (in_use /\ scan' = [NoScan EXCEPT !.ind = m])
    BY <1>10 DEF loc_sync_process_ind
  <2>3. m # NULL
    BY DEF Types, TypeOK
  <2>4. ScanSawSlots'
    BY <1>10, <2>2, <2>3 DEF loc_sync_process_ind, slotVars, ScanSawSlots,
                             MutexFree, NoScan, Slots
  <2> QED
    BY <2>1, <2>4 DEF Ownership
<1>11. ASSUME NEW s \in Slots, VisitSlot(s) PROVE Ownership'
  <2>1. InitialisedFirst' /\ EverySlotHasOneOwner' /\ InUseIsExact'
    BY <1>11 DEF VisitSlot, callerVars, Ownership, InitialisedFirst,
                 EverySlotHasOneOwner, InUseIsExact
  <2>2. /\ scan'.ind = scan.ind
        /\ scan'.pos = scan.pos + 1
        /\ scan'.consumed = Copies(s)
        /\ scan'.in_use = (scan.in_use \/ slot_in_use[s])
    BY <1>11 DEF VisitSlot, Types, TypeOK
  <2>3. Copies(s) => slot_in_use[s]
    BY DEF Copies, Matches
  <2>4. ASSUME ~scan'.in_use, NEW x \in Slots, x < scan'.pos
        PROVE  ~slot_in_use[x]
    <3>1. x < scan.pos \/ x = s
      BY <1>11, <2>2, <2>4 DEF VisitSlot, Slots, Types, TypeOK
    <3> QED
      BY <1>11, <2>2, <2>4, <3>1 DEF VisitSlot, Ownership, ScanSawSlots
  <2>5. ScanSawSlots'
    BY <1>11, <2>2, <2>3, <2>4
    DEF VisitSlot, Ownership, ScanSawSlots, MutexFree
  <2> QED
    BY <2>1, <2>5 DEF Ownership
<1>12. CASE EndScan
  <2>1. ~scan.in_use => \A s \in Slots : ~slot_in_use[s]
    BY <1>12 DEF EndScan, LoopEnds, Ownership, ScanSawSlots, Slots, Types, TypeOK
  <2>2. InUseIsExact'
    BY <1>12, <2>1 DEF EndScan, Ownership, InUseIsExact, ScanSawSlots
  <2>3. InitialisedFirst' /\ EverySlotHasOneOwner'
    BY <1>12 DEF EndScan, callerVars, Ownership, InitialisedFirst,
                 EverySlotHasOneOwner
  <2>4. ScanSawSlots'
    BY <1>12 DEF EndScan, ScanSawSlots, NoScan, MutexFree
  <2> QED
    BY <2>2, <2>3, <2>4 DEF Ownership
<1>13. CASE UNCHANGED vars
  BY <1>13, OwnershipQuiet DEF vars, slotVars, callerVars
<1> QED
  BY <1>1, <1>2, <1>3, <1>4, <1>5, <1>6, <1>7, <1>8, <1>9, <1>10, <1>11, <1>12,
     <1>13
  DEF Next, Caller, CallStep, Callback, Woken, WokenSpuriously, TimedOut, Statuses

LEMMA OwnershipInvariant == Spec => [](Types /\ Ownership)
<1>1. Init => Types /\ Ownership
  BY TypesInit, OwnershipInit
<1>2. Types /\ Ownership /\ [Next]_vars => (Types /\ Ownership)'
  BY TypesStep, OwnershipStep
<1> QED
  BY <1>1, <1>2, PTL DEF Spec

\* A slot belongs to one caller from loc_alloc_slot to loc_free_slot, and is
\* free at any other time.
THEOREM SlotOwnership == Spec => []EverySlotHasOneOwner
<1>1. Ownership => EverySlotHasOneOwner
  BY DEF Ownership
<1> QED
  BY <1>1, OwnershipInvariant, PTL

\* in_use never hides a slot in use from loc_sync_process_ind.
THEOREM InUseCorrect == Spec => []InUseIsExact
<1>1. Ownership => InUseIsExact
  BY DEF Ownership
<1> QED
  BY <1>1, OwnershipInvariant, PTL

-----------------------------------------------------------------------------
(* Slot contents, payload buffers and wakeups *)

Contents ==
  /\ SlotsFollowCalls
  /\ BuffersAreLive
  /\ PayloadIsOfKindRequested
  /\ ArrivalRecorded
  /\ NoLostWakeup

LEMMA ContentsInit == Init => Contents
<1> SUFFICES ASSUME Init PROVE Contents
  OBVIOUS
<1>1. \A t \in Threads : pc[t] = "idle"
  BY DEF Init
<1>2. \A s \in Slots : slots[s] = EmptySlot
  BY DEF Init
<1>3. \A f \in Frames : mem[f] = NULL
  BY DEF Init
<1> QED
  BY <1>1, <1>2, <1>3
  DEF Contents, SlotsFollowCalls, BuffersAreLive, PayloadIsOfKindRequested,
      ArrivalRecorded, NoLostWakeup, Selected, Holding

\* Two callers never share a frame.
LEMMA FramesDiffer ==
  ASSUME NEW t \in Threads, NEW u \in Threads, Frame(t) = Frame(u)
  PROVE  t = u
BY DEF Frame

\* Two callers in a call never share a slot.
LEMMA SlotsDiffer ==
  ASSUME Ownership, NEW t \in Threads, NEW u \in Threads,
         pc[t] \in Selected, pc[u] \in Selected, select_id[t] = select_id[u]
  PROVE  t = u
BY DEF Ownership, EverySlotHasOneOwner, Selected

\* A step that changes neither slots nor buffers, and at most takes callers
\* from loc_sync_select_ind to the wait or to a failure.
LEMMA ContentsQuiet ==
  ASSUME Contents,
         UNCHANGED <<slots, mem, signalled, req, select_id, callNo>>,
         \A t \in Threads :
           \/ pc'[t] = pc[t]
           \/ /\ pc[t] \in {"selected", "sending"}
              /\ pc'[t] \in {"sending", "sent", "freeing"}
  PROVE  Contents'
<1> USE DEF Selected, Holding, PCs
<1>1. \A t \in Threads : /\ pc'[t] \in Selected <=> pc[t] \in Selected
                         /\ pc'[t] = "waiting" <=> pc[t] = "waiting"
                         /\ Frame(t)' = Frame(t)
  BY DEF Frame
<1>2. SlotsFollowCalls'
  BY <1>1 DEF Contents, SlotsFollowCalls, SlotHolds
<1>3. BuffersAreLive'
  BY <1>1 DEF Contents, BuffersAreLive
<1>4. PayloadIsOfKindRequested'
  BY <1>1 DEF Contents, PayloadIsOfKindRequested
<1>5. ArrivalRecorded'
  BY <1>1 DEF Contents, ArrivalRecorded
<1>6. NoLostWakeup'
  BY <1>1 DEF Contents, NoLostWakeup
<1> QED
  BY <1>2, <1>3, <1>4, <1>5, <1>6 DEF Contents

\* A new call starts with an empty buffer and has nothing in a slot yet.
LEMMA ContentsBegin ==
  ASSUME Types, Contents, NEW t \in Threads, NEW r \in Requests[t], Begin(t, r),
         UNCHANGED <<slots, mem, signalled>>,
         \A u \in Threads \ {t} :
           pc'[u] = pc[u] /\ select_id'[u] = select_id[u],
         pc'[t] \in {"alloced", "returned"}
  PROVE  Contents'
<1> USE DEF Selected, Holding, PCs
<1>1. /\ pc[t] = "idle"
      /\ \A u \in Threads \ {t} : Frame(u)' = Frame(u) /\ req'[u] = req[u]
  BY DEF Begin, Frame, Types, TypeOK
<1>2. Frame(t)' = <<t, callNo'[t]>>
  BY DEF Frame
<1>3. \A f \in Frames : mem[f] # NULL => \E u \in Threads \ {t} :
        f = Frame(u) /\ pc[u] \in Selected \cup {"returned"}
  BY <1>1 DEF Contents, BuffersAreLive
<1>4. Frame(t)' \in Frames
  BY <1>2, ConstantsAssumption DEF Begin, Frames, Types, TypeOK
<1>5. mem[Frame(t)'] = NULL
  <2> SUFFICES ASSUME mem[Frame(t)'] # NULL PROVE FALSE
    OBVIOUS
  <2>1. PICK u \in Threads \ {t} : Frame(t)' = Frame(u)
    BY <1>3, <1>4
  <2> QED
    BY <1>2, <2>1 DEF Frame
<1>6. SlotsFollowCalls'
  BY <1>1 DEF Contents, SlotsFollowCalls, SlotHolds
<1>7. BuffersAreLive'
  BY <1>1, <1>3 DEF BuffersAreLive
<1>8. PayloadIsOfKindRequested'
  BY <1>1, <1>5 DEF Contents, PayloadIsOfKindRequested
<1>9. ArrivalRecorded' /\ NoLostWakeup'
  BY <1>1, <1>5 DEF Contents, ArrivalRecorded, NoLostWakeup
<1> QED
  BY <1>6, <1>7, <1>8, <1>9 DEF Contents

\* A slot that matches an indication belongs to a call in progress that asked
\* for it, and points to that call's buffer or nowhere.
LEMMA MatchesOwner ==
  ASSUME Types, Ownership, Contents, ~MutexFree,
         NEW s \in Slots, Matches(s)
  PROVE  \E t \in Threads :
           /\ pc[t] \in Selected /\ select_id[t] = s /\ SlotHolds(t)
           /\ req[t].client = scan.ind.client /\ req[t].ind = scan.ind.ind
           /\ Copies(s) => slots[s].recv_ind_payload_ptr = Frame(t)
<1>1. slots[s] # EmptySlot
  <2>1. scan.ind.client \in Clients
    BY DEF MutexFree, Types, TypeOK, Indications
  <2> QED
    BY <2>1, ConstantsAssumption DEF Matches, EmptySlot
<1>2. PICK t \in Threads : pc[t] \in Selected /\ select_id[t] = s
  BY <1>1 DEF Contents, SlotsFollowCalls
<1>3. SlotHolds(t)
  BY <1>2 DEF Contents, SlotsFollowCalls
<1> QED
  BY <1>2, <1>3 DEF SlotHolds, Matches, Copies

LEMMA ContentsSelect ==
  ASSUME Types, Ownership, Contents, NEW t \in Threads, loc_sync_select_ind(t)
  PROVE  Contents'
<1> USE DEF Selected, Holding, PCs
<1>1. /\ pc[t] = "alloced" /\ pc' = [pc EXCEPT ![t] = "selected"]
      /\ \A u \in Threads : Frame(u)' = Frame(u)
      /\ UNCHANGED <<mem, signalled, req, select_id, callNo>>
  BY DEF loc_sync_select_ind, Frame
<1>2. \A u \in Threads \ {t} : pc'[u] = pc[u]
  BY <1>1 DEF Types, TypeOK
<1>3. pc'[t] = "selected" /\ select_id[t] \in Slots
  BY <1>1 DEF Types, TypeOK, CallsHaveArguments
<1>4. \A s \in Slots \ {select_id[t]} : slots'[s] = slots[s]
  BY DEF loc_sync_select_ind, Types, TypeOK
<1>5. \A u \in Threads \ {t} :
        pc[u] \in Selected => /\ select_id[u] \in Slots
                              /\ slots'[select_id[u]] = slots[select_id[u]]
  BY <1>1, <1>4 DEF Types, CallsHaveArguments, Ownership, EverySlotHasOneOwner
<1>6. SlotHolds(t)'
  BY <1>1, <1>3 DEF loc_sync_select_ind, SlotHolds, Types, TypeOK
<1>7. mem[Frame(t)] = NULL
  <2>1. Frame(t) \in Frames
    BY <1>1 DEF Frame, Frames, Types, TypeOK, CallsHaveArguments
  <2> QED
    BY <1>1, <2>1, FramesDiffer DEF Contents, BuffersAreLive
<1>8. SlotsFollowCalls'
  <2>1. ASSUME NEW u \in Threads, pc'[u] \in Selected PROVE SlotHolds(u)'
    <3>1. CASE u = t
      BY <1>6, <3>1
    <3>2. CASE u # t
      <4>1. SlotHolds(u) /\ pc'[u] = pc[u]
        BY <1>2, <2>1, <3>2 DEF Contents, SlotsFollowCalls
      <4> QED
        BY <1>1, <1>2, <1>5, <2>1, <3>2, <4>1 DEF SlotHolds
    <3> QED
      BY <3>1, <3>2
  <2>2. ASSUME NEW s \in Slots,
               \A u \in Threads : ~(pc'[u] \in Selected /\ select_id'[u] = s)
        PROVE  slots'[s] = EmptySlot
    <3>1. s # select_id[t]
      BY <1>1, <1>3, <2>2
    <3>2. \A u \in Threads : ~(pc[u] \in Selected /\ select_id[u] = s)
      BY <1>1, <1>2, <2>2, <3>1
    <3> QED
      BY <1>4, <3>1, <3>2 DEF Contents, SlotsFollowCalls
  <2> QED
    BY <2>1, <2>2 DEF SlotsFollowCalls
<1>9. BuffersAreLive'
  BY <1>1, <1>2, <1>3 DEF Contents, BuffersAreLive
<1>10. PayloadIsOfKindRequested'
  BY <1>1, <1>2, <1>7 DEF Contents, PayloadIsOfKindRequested
<1>11. ArrivalRecorded'
  BY <1>1, <1>2, <1>5, <1>7 DEF Contents, ArrivalRecorded
<1>12. NoLostWakeup'
  BY <1>1, <1>2, <1>3 DEF Contents, NoLostWakeup
<1> QED
  BY <1>8, <1>9, <1>10, <1>11, <1>12 DEF Contents

\* A step of the owner t of a slot that writes nothing but that slot's
\* ind_is_waiting, and takes t into the wait or out of it.
LEMMA ContentsWait ==
  ASSUME Types, Ownership, Contents, NEW t \in Threads,
         UNCHANGED <<mem, req, select_id, callNo>>,
         NEW p \in {"waiting", "freeing"},
         pc[t] \in {"sent", "waiting"},
         pc' = [pc EXCEPT ![t] = p],
         slots' = [slots EXCEPT ![select_id[t]].ind_is_waiting = (p = "waiting")],
         \A s \in Slots \ {select_id[t]} : s \in signalled' <=> s \in signalled,
         p = "waiting" => mem[Frame(t)] = NULL
  PROVE  Contents'
<1> USE DEF Selected, Holding, PCs
<1>1. \A u \in Threads : Frame(u)' = Frame(u)
  BY DEF Frame
<1>2. \A u \in Threads \ {t} : pc'[u] = pc[u]
  BY DEF Types, TypeOK
<1>3. pc'[t] = p /\ select_id[t] \in Slots
  BY DEF Types, TypeOK, CallsHaveArguments
<1>4. \A s \in Slots \ {select_id[t]} : slots'[s] = slots[s]
  BY DEF Types, TypeOK
<1>5. \A u \in Threads \ {t} :
        pc[u] \in Selected => /\ select_id[u] \in Slots \ {select_id[t]}
                              /\ slots'[select_id[u]] = slots[select_id[u]]
  BY <1>4 DEF Types, CallsHaveArguments, Ownership, EverySlotHasOneOwner
<1>6. SlotHolds(t)'
  <2>1. SlotHolds(t)
    BY DEF Contents, SlotsFollowCalls
  <2>2. slots[select_id[t]] \in SlotType
    BY <1>3 DEF Types, TypeOK
  <2>3. slots'[select_id[t]]
          = [slots[select_id[t]] EXCEPT !.ind_is_waiting = (p = "waiting")]
    BY <1>3 DEF Types, TypeOK
  <2>4. /\ slots'[select_id[t]].client_handle = slots[select_id[t]].client_handle
        /\ slots'[select_id[t]].recv_ind_id = slots[select_id[t]].recv_ind_id
        /\ slots'[select_id[t]].recv_ind_payload_ptr
             = slots[select_id[t]].recv_ind_payload_ptr
        /\ slots'[select_id[t]].ind_is_waiting = (p = "waiting")
    BY <2>2, <2>3 DEF SlotType
  <2> QED
    BY <1>1, <1>3, <2>1, <2>4 DEF SlotHolds
<1>7. SlotsFollowCalls'
  <2>1. ASSUME NEW u \in Threads, pc'[u] \in Selected PROVE SlotHolds(u)'
    <3>1. CASE u = t
      BY <1>6, <3>1
    <3>2. CASE u # t
      <4>1. SlotHolds(u) /\ pc'[u] = pc[u]
        BY <1>2, <2>1, <3>2 DEF Contents, SlotsFollowCalls
      <4> QED
        BY <1>1, <1>5, <2>1, <3>2, <4>1 DEF SlotHolds
    <3> QED
      BY <3>1, <3>2
  <2>2. ASSUME NEW s \in Slots,
               \A u \in Threads : ~(pc'[u] \in Selected /\ select_id'[u] = s)
        PROVE  slots'[s] = EmptySlot
    <3>1. s # select_id[t]
      BY <1>3, <2>2
    <3>2. \A u \in Threads : ~(pc[u] \in Selected /\ select_id[u] = s)
      BY <1>2, <2>2, <3>1
    <3> QED
      BY <1>4, <3>1, <3>2 DEF Contents, SlotsFollowCalls
  <2> QED
    BY <2>1, <2>2 DEF SlotsFollowCalls
<1>8. BuffersAreLive'
  BY <1>1, <1>2, <1>3 DEF Contents, BuffersAreLive
<1>9. PayloadIsOfKindRequested'
  BY <1>1, <1>2 DEF Contents, PayloadIsOfKindRequested
<1>10. ArrivalRecorded'
  BY <1>1, <1>2, <1>3, <1>5 DEF Contents, ArrivalRecorded
<1>11. NoLostWakeup'
  <2>1. ASSUME NEW u \in Threads, pc'[u] = "waiting", mem'[Frame(u)'] # NULL
        PROVE  select_id'[u] \in signalled'
    <3>1. u # t
      BY <1>1, <1>3, <2>1
    <3>2. pc[u] = "waiting" /\ mem[Frame(u)] # NULL
      BY <1>1, <1>2, <2>1, <3>1
    <3> QED
      BY <1>5, <3>1, <3>2 DEF Contents, NoLostWakeup
  <2> QED
    BY <2>1 DEF NoLostWakeup
<1> QED
  BY <1>7, <1>8, <1>9, <1>10, <1>11 DEF Contents

LEMMA ContentsFree ==
  ASSUME Types, Ownership, Contents, NEW t \in Threads, loc_free_slot(t)
  PROVE  Contents'
<1> USE DEF Selected, Holding, PCs
<1>1. /\ pc[t] = "freeing" /\ pc'[t] = "returned"
      /\ \A u \in Threads : Frame(u)' = Frame(u)
      /\ UNCHANGED <<mem, signalled, req, callNo>>
  BY DEF loc_free_slot, Release, Frame, Types, TypeOK
<1>2. \A u \in Threads \ {t} : pc'[u] = pc[u] /\ select_id'[u] = select_id[u]
  BY DEF loc_free_slot, Release, Types, TypeOK
<1>3. select_id[t] \in Slots
  BY <1>1 DEF Types, CallsHaveArguments
<1>4. /\ \A s \in Slots \ {select_id[t]} : slots'[s] = slots[s]
      /\ slots'[select_id[t]] = EmptySlot
  BY <1>3 DEF loc_free_slot, Release, Types, TypeOK
<1>5. \A u \in Threads \ {t} :
        pc[u] \in Selected => /\ select_id[u] \in Slots
                              /\ slots'[select_id[u]] = slots[select_id[u]]
  BY <1>1, <1>4 DEF Types, CallsHaveArguments, Ownership, EverySlotHasOneOwner
<1>6. SlotsFollowCalls'
  <2>1. ASSUME NEW u \in Threads, pc'[u] \in Selected PROVE SlotHolds(u)'
    <3>1. u # t /\ SlotHolds(u)
      BY <1>1, <1>2, <2>1 DEF Contents, SlotsFollowCalls
    <3> QED
      BY <1>1, <1>2, <1>5, <2>1, <3>1 DEF SlotHolds
  <2>2. ASSUME NEW s \in Slots,
               \A u \in Threads : ~(pc'[u] \in Selected /\ select_id'[u] = s)
        PROVE  slots'[s] = EmptySlot
    <3>1. CASE s = select_id[t]
      BY <1>4, <3>1
    <3>2. CASE s # select_id[t]
      BY <1>2, <1>4, <2>2, <3>2 DEF Contents, SlotsFollowCalls
    <3> QED
      BY <3>1, <3>2
  <2> QED
    BY <2>1, <2>2 DEF SlotsFollowCalls
<1>7. BuffersAreLive'
  BY <1>1, <1>2 DEF Contents, BuffersAreLive
<1>8. PayloadIsOfKindRequested'
  BY <1>1, <1>2 DEF Contents, PayloadIsOfKindRequested
<1>9. ArrivalRecorded'
  BY <1>1, <1>2, <1>5 DEF Contents, ArrivalRecorded
<1>10. NoLostWakeup'
  BY <1>1, <1>2 DEF Contents, NoLostWakeup
<1> QED
  BY <1>6, <1>7, <1>8, <1>9, <1>10 DEF Contents

LEMMA ContentsLeave ==
  ASSUME Types, Contents, NEW t \in Threads, Leave(t)
  PROVE  Contents'
<1> USE DEF Selected, Holding, PCs
<1>1. /\ pc[t] = "returned" /\ pc'[t] = "idle"
      /\ \A u \in Threads : Frame(u)' = Frame(u)
      /\ UNCHANGED <<slots, signalled, select_id, callNo>>
  BY DEF Leave, slotVars, Frame, Types, TypeOK
<1>2. \A u \in Threads \ {t} : pc'[u] = pc[u] /\ req'[u] = req[u]
  BY DEF Leave, Types, TypeOK
<1>3. \A f \in Frames : mem'[f] = IF f = Frame(t) THEN NULL ELSE mem[f]
  BY DEF Leave, Types, TypeOK
<1>4. \A u \in Threads \ {t} :
        pc[u] # "idle" => Frame(u) \in Frames /\ mem'[Frame(u)] = mem[Frame(u)]
  <2>1. ASSUME NEW u \in Threads \ {t}, pc[u] # "idle"
        PROVE  Frame(u) \in Frames /\ Frame(u) # Frame(t)
    BY <2>1, FramesDiffer DEF Frame, Frames, Types, CallsHaveArguments
  <2> QED
    BY <1>3, <2>1
<1>5. SlotsFollowCalls'
  BY <1>1, <1>2 DEF Contents, SlotsFollowCalls, SlotHolds
<1>6. BuffersAreLive'
  BY <1>1, <1>2, <1>3 DEF Contents, BuffersAreLive
<1>7. PayloadIsOfKindRequested'
  BY <1>1, <1>2, <1>4 DEF Contents, PayloadIsOfKindRequested
<1>8. ArrivalRecorded' /\ NoLostWakeup'
  BY <1>1, <1>2, <1>4 DEF Contents, ArrivalRecorded, NoLostWakeup
<1> QED
  BY <1>5, <1>6, <1>7, <1>8 DEF Contents

\* The callback thread writes to no buffer but that of the owner of the slot.
LEMMA ContentsVisit ==
  ASSUME Types, Ownership, Contents, NEW s \in Slots, VisitSlot(s)
  PROVE  Contents'
<1> USE DEF Selected, Holding, PCs
<1>0. /\ ~MutexFree /\ \A u \in Threads : Frame(u)' = Frame(u)
      /\ UNCHANGED <<pc, req, select_id, callNo>>
  BY DEF VisitSlot, callerVars, Frame
<1>1. CASE ~Matches(s)
  BY <1>0, <1>1, ContentsQuiet DEF VisitSlot, Signals, Copies
<1>2. CASE Matches(s)
  <2>1. PICK t \in Threads :
          /\ pc[t] \in Selected /\ select_id[t] = s /\ SlotHolds(t)
          /\ req[t].client = scan.ind.client /\ req[t].ind = scan.ind.ind
          /\ Copies(s) => slots[s].recv_ind_payload_ptr = Frame(t)
    BY <1>0, <1>2, MatchesOwner
  <2>2. Frame(t) \in Frames
    BY <2>1 DEF Frame, Frames, Types, CallsHaveArguments
  <2>3. \A f \in Frames : mem'[f] = IF Copies(s) /\ f = Frame(t)
                                     THEN scan.ind ELSE mem[f]
    BY <2>1, <2>2 DEF VisitSlot, Types, TypeOK
  <2>4. /\ \A x \in Slots \ {s} : slots'[x] = slots[x]
        /\ slots[s].ind_is_waiting \/ slots'[s].ind_has_arrived
        /\ slots'[s].ind_is_waiting = slots[s].ind_is_waiting
        /\ slots'[s].client_handle = slots[s].client_handle
        /\ slots'[s].recv_ind_id = slots[s].recv_ind_id
        /\ slots'[s].recv_ind_payload_ptr = slots[s].recv_ind_payload_ptr
    BY <1>2 DEF VisitSlot, Signals, Types, TypeOK, SlotType
  <2>5. signalled \subseteq signalled'
        /\ (slots[s].ind_is_waiting => s \in signalled')
    BY <1>2 DEF VisitSlot, Signals
  <2>6. \A u \in Threads \ {t} : pc[u] \in Selected =>
          /\ select_id[u] \in Slots \ {s}
          /\ slots'[select_id[u]] = slots[select_id[u]]
    BY <2>1, <2>4, SlotsDiffer DEF Types, CallsHaveArguments
  <2>7. \A u \in Threads \ {t} : pc[u] # "idle" => mem'[Frame(u)] = mem[Frame(u)]
    <3>1. ASSUME NEW u \in Threads \ {t}, pc[u] # "idle"
          PROVE  Frame(u) \in Frames /\ Frame(u) # Frame(t)
      BY <3>1, FramesDiffer DEF Frame, Frames, Types, CallsHaveArguments
    <3> QED
      BY <2>3, <3>1
  <2>8. SlotsFollowCalls'
    <3>1. ASSUME NEW u \in Threads, pc'[u] \in Selected PROVE SlotHolds(u)'
      <4>1. CASE u = t
        BY <1>0, <2>1, <2>4, <4>1 DEF SlotHolds
      <4>2. CASE u # t
        <5>1. SlotHolds(u) /\ slots'[select_id[u]] = slots[select_id[u]]
          BY <1>0, <2>6, <3>1, <4>2 DEF Contents, SlotsFollowCalls
        <5> QED
          BY <1>0, <5>1 DEF SlotHolds
      <4> QED
        BY <4>1, <4>2
    <3>2. ASSUME NEW x \in Slots,
                 \A u \in Threads : ~(pc'[u] \in Selected /\ select_id'[u] = x)
          PROVE  slots'[x] = EmptySlot
      BY <1>0, <2>1, <2>4, <3>2 DEF Contents, SlotsFollowCalls
    <3> QED
      BY <3>1, <3>2 DEF SlotsFollowCalls
  <2>9. BuffersAreLive'
    BY <1>0, <2>1, <2>3 DEF Contents, BuffersAreLive
  <2>10. PayloadIsOfKindRequested'
    <3>1. ASSUME NEW u \in Threads, pc[u] # "idle", mem'[Frame(u)] # NULL
          PROVE  /\ mem'[Frame(u)].client = req[u].client
                 /\ mem'[Frame(u)].ind = req[u].ind
      <4>1. CASE mem'[Frame(u)] = mem[Frame(u)]
        BY <3>1, <4>1 DEF Contents, PayloadIsOfKindRequested
      <4>2. CASE mem'[Frame(u)] # mem[Frame(u)]
        BY <2>1, <2>2, <2>3, <2>7, <3>1, <4>2
      <4> QED
        BY <4>1, <4>2
    <3> QED
      BY <1>0, <3>1 DEF PayloadIsOfKindRequested
  <2>11. ArrivalRecorded'
    <3>1. ASSUME NEW u \in Threads, pc[u] \in {"selected", "sending", "sent"},
                 mem'[Frame(u)] # NULL
          PROVE  slots'[select_id[u]].ind_has_arrived
      <4>1. CASE u = t
        BY <2>1, <2>4, <3>1, <4>1 DEF SlotHolds
      <4>2. CASE u # t
        BY <2>6, <2>7, <3>1, <4>2 DEF Contents, ArrivalRecorded
      <4> QED
        BY <4>1, <4>2
    <3> QED
      BY <1>0, <3>1 DEF ArrivalRecorded
  <2>12. NoLostWakeup'
    <3>1. ASSUME NEW u \in Threads, pc[u] = "waiting", mem'[Frame(u)] # NULL
          PROVE  select_id[u] \in signalled'
      <4>1. CASE u = t
        BY <2>1, <2>5, <3>1, <4>1 DEF SlotHolds
      <4>2. CASE u # t
        BY <2>5, <2>7, <3>1, <4>2 DEF Contents, NoLostWakeup
      <4> QED
        BY <4>1, <4>2
    <3> QED
      BY <1>0, <3>1 DEF NoLostWakeup
  <2> QED
    BY <2>8, <2>9, <2>10, <2>11, <2>12 DEF Contents
<1> QED
  BY <1>1, <1>2

LEMMA ContentsStep == Types /\ Ownership /\ Contents /\ [Next]_vars => Contents'
<1> SUFFICES ASSUME Types, Ownership, Contents, [Next]_vars PROVE Contents'
  OBVIOUS
<1>1. CASE loc_sync_req_init
  <2>1. CASE loc_sync_call_initialized
    BY <1>1, <2>1, ContentsQuiet DEF loc_sync_req_init, slotVars, callerVars
  <2>2. CASE ~loc_sync_call_initialized
    <3>1. /\ \A t \in Threads : pc[t] = "idle"
          /\ \A s \in Slots : slots'[s] = EmptySlot
      BY <1>1, <2>2 DEF loc_sync_req_init, Ownership, InitialisedFirst
    <3>2. UNCHANGED <<pc, req, select_id, callNo, mem, signalled>>
      BY <1>1 DEF loc_sync_req_init, callerVars
    <3> QED
      BY <3>1, <3>2
      DEF Contents, SlotsFollowCalls, BuffersAreLive, PayloadIsOfKindRequested,
          ArrivalRecorded, NoLostWakeup, Selected, Holding, Frame
  <2> QED
    BY <2>1, <2>2
<1>2. ASSUME NEW t \in Threads, loc_alloc_slot(t) PROVE Contents'
  <2>1. PICK r \in Requests[t] : Begin(t, r)
    BY <1>2 DEF loc_alloc_slot
  <2>2. \A u \in Threads \ {t} :
          pc'[u] = pc[u] /\ select_id'[u] = select_id[u]
    BY <1>2 DEF loc_alloc_slot, Types, TypeOK
  <2>3. pc'[t] = "alloced" /\ UNCHANGED <<slots, mem, signalled>>
    BY <1>2 DEF loc_alloc_slot, Types, TypeOK
  <2> QED
    BY <2>1, <2>2, <2>3, ContentsBegin
<1>3. ASSUME NEW t \in Threads, BufferFull(t) PROVE Contents'
  <2>1. PICK r \in Requests[t] : Begin(t, r)
    BY <1>3 DEF BufferFull
  <2>2. \A u \in Threads \ {t} :
          pc'[u] = pc[u] /\ select_id'[u] = select_id[u]
    BY <1>3 DEF BufferFull, Types, TypeOK
  <2>3. pc'[t] = "returned" /\ UNCHANGED <<slots, mem, signalled>>
    BY <1>3 DEF BufferFull, slotVars, Types, TypeOK
  <2> QED
    BY <2>1, <2>2, <2>3, ContentsBegin
<1>4. ASSUME NEW t \in Threads, loc_sync_select_ind(t) PROVE Contents'
  BY <1>4, ContentsSelect
<1>5. ASSUME NEW t \in Threads, Transmit(t) \/ SendReturns(t) \/ SendFails(t)
      PROVE  Contents'
  BY <1>5, ContentsQuiet
  DEF Transmit, SendReturns, SendFails, slotVars, Types, TypeOK
<1>6. ASSUME NEW t \in Threads, loc_sync_wait_for_ind(t) PROVE Contents'
  <2> DEFINE s == select_id[t]
             p == IF slots[s].ind_has_arrived THEN "freeing" ELSE "waiting"
  <2>1. /\ pc[t] = "sent" /\ s \in Slots /\ slot_in_use[s]
        /\ ~slots[s].ind_is_waiting
    BY <1>6 DEF loc_sync_wait_for_ind, Types, CallsHaveArguments, Ownership,
                EverySlotHasOneOwner, Contents, SlotsFollowCalls, SlotHolds,
                Selected, Holding, PCs
  <2>2. /\ pc' = [pc EXCEPT ![t] = p]
        /\ slots' = [slots EXCEPT ![s].ind_is_waiting = (p = "waiting")]
    BY <1>6, <2>1 DEF loc_sync_wait_for_ind
  <2>3. p = "waiting" => mem[Frame(t)] = NULL
    BY <2>1 DEF Contents, ArrivalRecorded
  <2>4. UNCHANGED <<mem, req, select_id, callNo, signalled>>
    BY <1>6 DEF loc_sync_wait_for_ind
  <2> QED
    BY <2>1, <2>2, <2>3, <2>4, ContentsWait
<1>7. ASSUME NEW t \in Threads, NEW st \in Statuses, WaitReturns(t, st)
      PROVE  Contents'
  BY <1>7, ContentsWait DEF WaitReturns
<1>8. ASSUME NEW t \in Threads, loc_free_slot(t) PROVE Contents'
  BY <1>8, ContentsFree
<1>9. ASSUME NEW t \in Threads, Leave(t) PROVE Contents'
  BY <1>9, ContentsLeave
<1>10. ASSUME NEW m \in asked, loc_sync_process_ind(m) PROVE Contents'
  BY <1>10, ContentsQuiet DEF loc_sync_process_ind, slotVars, callerVars
<1>11. ASSUME NEW s \in Slots, VisitSlot(s) PROVE Contents'
  BY <1>11, ContentsVisit
<1>12. CASE EndScan
  BY <1>12, ContentsQuiet DEF EndScan, callerVars
<1>13. CASE UNCHANGED vars
  BY <1>13, ContentsQuiet DEF vars, slotVars, callerVars
<1> QED
  BY <1>1, <1>2, <1>3, <1>4, <1>5, <1>6, <1>7, <1>8, <1>9, <1>10, <1>11, <1>12,
     <1>13
  DEF Next, Caller, CallStep, Callback, Woken, WokenSpuriously, TimedOut, Statuses

Inv == Types /\ Ownership /\ Contents

LEMMA InvInvariant == Spec => []Inv
<1>1. Init => Inv
  BY TypesInit, OwnershipInit, ContentsInit DEF Inv
<1>2. Inv /\ [Next]_vars => Inv'
  BY TypesStep, OwnershipStep, ContentsStep DEF Inv
<1> QED
  BY <1>1, <1>2, PTL DEF Spec

\* Whatever is in a caller's buffer is an answer of the kind it asked for.
THEOREM PayloadKind == Spec => []PayloadIsOfKindRequested
<1>1. Inv => PayloadIsOfKindRequested
  BY DEF Inv, Contents
<1> QED
  BY <1>1, InvInvariant, PTL

\* No caller sleeps on an indication that has already been handed to it.
THEOREM WakeupNotLost == Spec => []NoLostWakeup
<1>1. Inv => NoLostWakeup
  BY DEF Inv, Contents
<1> QED
  BY <1>1, InvInvariant, PTL

\* The callback thread writes a caller's stack only between the moment the
\* caller has selected its indication and the moment it has freed its slot.
THEOREM BufferWrites == Spec => BufferWrittenOnlyDuringCall
<1> DEFINE Good == \A f \in Frames : mem'[f] \notin {mem[f], NULL} =>
                     \E t \in Threads : f = Frame(t) /\ pc[t] \in Selected
<1>1. ASSUME Inv, [Next]_vars PROVE Good
  <2> SUFFICES ASSUME NEW f \in Frames, mem'[f] # mem[f], mem'[f] # NULL
               PROVE  \E t \in Threads : f = Frame(t) /\ pc[t] \in Selected
    OBVIOUS
  <2>1. CASE \E s \in Slots : VisitSlot(s)
    <3>1. PICK s \in Slots : VisitSlot(s)
      BY <2>1
    <3>2. Copies(s)
      BY <3>1 DEF VisitSlot
    <3>3. f = slots[s].recv_ind_payload_ptr
      <4>1. mem' = [mem EXCEPT ![slots[s].recv_ind_payload_ptr] = scan.ind]
        BY <3>1, <3>2 DEF VisitSlot
      <4>2. mem \in [Frames -> Indications \cup {NULL}]
        BY <1>1 DEF Inv, Types, TypeOK
      <4> QED
        BY <4>1, <4>2
    <3>4. ~MutexFree /\ Matches(s)
      BY <3>1, <3>2 DEF VisitSlot, Copies
    <3> QED
      BY <1>1, <3>2, <3>3, <3>4, MatchesOwner DEF Inv
  <2>2. CASE \E t \in Threads : Leave(t)
    BY <1>1, <2>2 DEF Leave, Inv, Types, TypeOK
  <2>3. CASE UNCHANGED mem
    BY <2>3
  <2> QED
    BY <1>1, <2>1, <2>2, <2>3
    DEF Next, Caller, CallStep, Callback, Woken, WokenSpuriously, TimedOut,
        WaitReturns, loc_sync_req_init, loc_alloc_slot, BufferFull,
        loc_sync_select_ind, Transmit, SendReturns, SendFails,
        loc_sync_wait_for_ind, loc_free_slot, Release, loc_sync_process_ind, EndScan, vars
<1>2. Inv /\ [Next]_vars => [Good]_vars
  BY <1>1
<1> QED
  BY <1>2, InvInvariant, PTL DEF Spec, BufferWrittenOnlyDuringCall
=============================================================================
