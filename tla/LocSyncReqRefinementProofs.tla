--------------------- MODULE LocSyncReqRefinementProofs ---------------------
(***************************************************************************)
(* loc_sync_send_req keeps its promise, for any number of threads, slots   *)
(* and calls: success means that the caller has its answer, and the code   *)
(* with its slots, locks and signals is a SyncCall.  Two conditions, which *)
(* the code does not establish: the pool has a slot for every caller, and  *)
(* pthread_cond_timedwait does not return without a signal.                *)
(*                                                                         *)
(* And, if concurrent calls wait for different indications and nothing     *)
(* fails, a call has the answer to its own request.                        *)
(***************************************************************************)
EXTENDS LocSyncReqRefinement, LocSyncReqProofs, FiniteSetTheorems

\* Every thread that may call has a slot to itself.
PoolSuffices == IsFiniteSet(Threads) /\ Cardinality(Threads) <= NumSlots

NoSpuriousWakeups == "spurious" \notin Faults

WantsPayload(t) == req[t].buf /\ req[t].ind \in SizedInds

-----------------------------------------------------------------------------
(* Success *)

\* Nobody but a sleeping caller is signalled: no signal is left for the next
\* owner of a slot.
SignalsAreFresh ==
  \A s \in signalled : \E t \in Threads : pc[t] = "waiting" /\ select_id[t] = s

\* A slot that was told of an arrival has the payload, if it wants one.
ArrivalHasPayload ==
  \A t \in Threads :
    /\ pc[t] \in Selected
    /\ WantsPayload(t)
    /\ slots[select_id[t]].ind_has_arrived \/ select_id[t] \in signalled
    => mem[Frame(t)] # NULL

\* The status of a call whose wait is over.
StatusIsEarned ==
  \A t \in Threads : pc[t] \in {"freeing", "returned"} =>
    /\ status[t] \in Statuses
    /\ status[t] = "SUCCESS" /\ WantsPayload(t) => mem[Frame(t)] # NULL

Earned == ArrivalHasPayload /\ StatusIsEarned

LEMMA FreshStep == Inv /\ SignalsAreFresh /\ [Next]_vars => SignalsAreFresh'
<1> SUFFICES ASSUME Inv, SignalsAreFresh, [Next]_vars PROVE SignalsAreFresh'
  OBVIOUS
<1> USE DEF Inv
\* A step that signals nobody and wakes nobody who was signalled.
<1>1. CASE /\ signalled' = signalled
           /\ \A t \in Threads : pc[t] = "waiting" =>
                pc'[t] = "waiting" /\ select_id'[t] = select_id[t]
  BY <1>1 DEF SignalsAreFresh
<1>2. ASSUME NEW t \in Threads,
             \/ loc_alloc_slot(t) \/ BufferFull(t) \/ loc_sync_select_ind(t)
             \/ Transmit(t) \/ SendReturns(t) \/ SendFails(t)
             \/ loc_sync_wait_for_ind(t) \/ loc_free_slot(t) \/ Leave(t)
      PROVE  SignalsAreFresh'
  BY <1>1, <1>2
  DEF loc_alloc_slot, BufferFull, Begin, loc_sync_select_ind, Transmit,
      SendReturns, SendFails, loc_sync_wait_for_ind, loc_free_slot, Release,
      Leave, slotVars, Types, TypeOK
<1>3. ASSUME NEW t \in Threads, NEW st \in Statuses, WaitReturns(t, st)
      PROVE  SignalsAreFresh'
  BY <1>3 DEF WaitReturns, SignalsAreFresh, Types, TypeOK
<1>4. CASE \/ loc_sync_req_init \/ EndScan \/ UNCHANGED vars
           \/ \E m \in asked : loc_sync_process_ind(m)
  BY <1>1, <1>4
  DEF loc_sync_req_init, EndScan, loc_sync_process_ind, vars, callerVars
<1>5. ASSUME NEW s \in Slots, VisitSlot(s) PROVE SignalsAreFresh'
  <2>1. /\ ~MutexFree /\ UNCHANGED <<pc, select_id>>
        /\ signalled' \subseteq signalled \cup {s}
        /\ s \in signalled' \ signalled =>
             Matches(s) /\ slots[s].ind_is_waiting
    BY <1>5 DEF VisitSlot, Signals, callerVars
  <2>2. Matches(s) /\ slots[s].ind_is_waiting =>
          \E t \in Threads : pc[t] = "waiting" /\ select_id[t] = s
    BY <2>1, MatchesOwner DEF SlotHolds
  <2> QED
    BY <2>1, <2>2 DEF SignalsAreFresh
<1> QED
  BY <1>2, <1>3, <1>4, <1>5
  DEF Next, Caller, CallStep, Callback, Woken, WokenSpuriously, TimedOut, Statuses

LEMMA FreshInvariant == Spec => []SignalsAreFresh
<1>1. Init => SignalsAreFresh
  BY DEF Init, SignalsAreFresh
<1> QED
  BY <1>1, FreshStep, InvInvariant, PTL DEF Spec

LEMMA EarnedInit == Init => Earned
BY DEF Init, Earned, ArrivalHasPayload, StatusIsEarned, Selected, Holding

\* With a slot for everybody, a caller that is about to take one finds one: the
\* owners of the slots in use are as many other threads.
LEMMA PoolHasRoom ==
  ASSUME PoolSuffices, Ownership, NEW t \in Threads, pc[t] = "idle"
  PROVE  FreeSlots # {}
<1> SUFFICES ASSUME \A s \in Slots : slot_in_use[s] PROVE FALSE
  BY DEF FreeSlots
<1> DEFINE owner == [s \in Slots |->
                       CHOOSE u \in Threads : pc[u] \in Holding /\ select_id[u] = s]
           others == Threads \ {t}
<1>1. \A s \in Slots : owner[s] \in Threads /\ pc[owner[s]] \in Holding
                       /\ select_id[owner[s]] = s
  BY DEF Ownership, EverySlotHasOneOwner
<1>2. owner \in [Slots -> others]
  BY <1>1 DEF Holding
<1> HIDE DEF owner
<1>3. /\ IsFiniteSet(others) /\ Cardinality(others) \in Nat
      /\ Cardinality(others) < NumSlots
  <2>1. IsFiniteSet(Threads) /\ Cardinality(Threads) <= NumSlots
    BY DEF PoolSuffices
  <2>2. Cardinality(Threads) \in Nat
    BY <2>1, FS_CardinalityType
  <2>3. IsFiniteSet(others) /\ Cardinality(others) = Cardinality(Threads) - 1
    BY <2>1, FS_RemoveElement
  <2>4. Cardinality(others) \in Nat
    BY <2>3, FS_CardinalityType
  <2> QED
    BY <2>1, <2>2, <2>3, <2>4, ConstantsAssumption
<1>4. IsFiniteSet(Slots) /\ Cardinality(Slots) = NumSlots
  BY FS_Interval, ConstantsAssumption DEF Slots
<1>5. PICK x, y \in Slots : x # y /\ owner[x] = owner[y]
  BY <1>2, <1>3, <1>4, FS_PigeonHole
<1> QED
  BY <1>1, <1>5

\* A step that leaves slots, signals and buffers alone, and takes callers no
\* further than to a failed request.
LEMMA EarnedQuiet ==
  ASSUME Earned,
         UNCHANGED <<slots, mem, signalled, select_id, req, callNo>>,
         \A t \in Threads :
           \/ pc'[t] = pc[t] /\ status'[t] = status[t]
           \/ /\ pc[t] \in {"selected", "sending"}
              /\ \/ pc'[t] \in {"sending", "sent"}
                 \/ pc'[t] = "freeing" /\ status'[t] = "SEND_FAILED"
  PROVE  Earned'
<1> USE DEF Selected, Holding, PCs
<1>1. \A t \in Threads : /\ pc'[t] \in Selected <=> pc[t] \in Selected
                         /\ pc'[t] = "waiting" <=> pc[t] = "waiting"
                         /\ Frame(t)' = Frame(t)
                         /\ WantsPayload(t)' <=> WantsPayload(t)
  BY DEF Frame, WantsPayload
<1>3. ArrivalHasPayload'
  BY <1>1 DEF Earned, ArrivalHasPayload
<1>4. StatusIsEarned'
  BY <1>1 DEF Earned, StatusIsEarned, Statuses
<1> QED
  BY <1>3, <1>4 DEF Earned

\* A step of one caller t that touches no slot but its own and no buffer but
\* its own: what t needs is in the hypotheses.
LEMMA EarnedOneCaller ==
  ASSUME Types, Ownership, Earned, NEW t \in Threads,
         \A u \in Threads \ {t} :
           /\ pc'[u] = pc[u] /\ req'[u] = req[u] /\ status'[u] = status[u]
           /\ select_id'[u] = select_id[u] /\ callNo'[u] = callNo[u],
         pc[t] \in Holding =>
           \A s \in Slots \ {select_id[t]} : slots'[s] = slots[s],
         pc[t] \notin Holding => UNCHANGED slots,
         signalled' = IF pc[t] = "waiting" THEN signalled \ {select_id[t]}
                                           ELSE signalled,
         \A u \in Threads \ {t} : pc[u] # "idle" => mem'[Frame(u)] = mem[Frame(u)],
         pc'[t] \in Selected /\ WantsPayload(t)' /\
           (slots'[select_id'[t]].ind_has_arrived \/ select_id'[t] \in signalled')
           => (mem[Frame(t)] # NULL)',
         pc'[t] \in {"freeing", "returned"} =>
           /\ status'[t] \in Statuses
           /\ status'[t] = "SUCCESS" /\ WantsPayload(t)' => (mem[Frame(t)] # NULL)'
  PROVE  Earned'
<1> USE DEF Selected, Holding, PCs
<1>1. \A u \in Threads \ {t} :
        Frame(u)' = Frame(u) /\ (WantsPayload(u)' <=> WantsPayload(u))
  BY DEF Frame, WantsPayload
<1>2. \A u \in Threads \ {t} : pc[u] \in Selected =>
        /\ select_id[u] \in Slots
        /\ slots'[select_id[u]] = slots[select_id[u]]
  BY DEF Types, CallsHaveArguments, Ownership, EverySlotHasOneOwner
<1>4. ArrivalHasPayload'
  <2> SUFFICES ASSUME NEW u \in Threads \ {t}, pc[u] \in Selected, WantsPayload(u),
                      \/ slots[select_id[u]].ind_has_arrived
                      \/ select_id[u] \in signalled'
               PROVE  mem'[Frame(u)] # NULL
    BY <1>1, <1>2 DEF ArrivalHasPayload
  <2> QED
    BY DEF Earned, ArrivalHasPayload
<1>5. StatusIsEarned'
  <2> SUFFICES ASSUME NEW u \in Threads \ {t}, pc[u] \in {"freeing", "returned"}
               PROVE  /\ status[u] \in Statuses
                      /\ status[u] = "SUCCESS" /\ WantsPayload(u)
                           => mem'[Frame(u)] # NULL
    BY <1>1 DEF StatusIsEarned
  <2> QED
    BY DEF Earned, StatusIsEarned
<1> QED
  BY <1>4, <1>5 DEF Earned

LEMMA EarnedVisit ==
  ASSUME Types, Ownership, Contents, Earned, NEW s \in Slots, VisitSlot(s)
  PROVE  Earned'
<1> USE DEF Selected, Holding, PCs
<1>0. /\ ~MutexFree /\ \A u \in Threads : Frame(u)' = Frame(u)
      /\ UNCHANGED <<pc, req, select_id, callNo, status>>
      /\ \A u \in Threads : WantsPayload(u)' <=> WantsPayload(u)
  BY DEF VisitSlot, callerVars, Frame, WantsPayload
<1>1. CASE ~Matches(s)
  BY <1>0, <1>1, EarnedQuiet DEF VisitSlot, Signals, Copies
<1>2. CASE Matches(s)
  <2>1. PICK t \in Threads :
          /\ pc[t] \in Selected /\ select_id[t] = s /\ SlotHolds(t)
          /\ req[t].client = scan.ind.client /\ req[t].ind = scan.ind.ind
          /\ Copies(s) => slots[s].recv_ind_payload_ptr = Frame(t)
    BY <1>0, <1>2, MatchesOwner
  <2>2. /\ Frame(t) \in Frames /\ Frame(t) # NULL
        /\ req[t] \in RequestType
    BY <2>1, ConstantsAssumption DEF Frame, Frames, Types, CallsHaveArguments
  <2>3. \A f \in Frames : mem'[f] = IF Copies(s) /\ f = Frame(t)
                                     THEN scan.ind ELSE mem[f]
    BY <2>1, <2>2 DEF VisitSlot, Types, TypeOK
  <2>4. \A u \in Threads : pc[u] # "idle" /\ mem[Frame(u)] # NULL
                             => mem'[Frame(u)] # NULL
    BY <1>0, <2>3 DEF MutexFree, Frame, Frames, Types, CallsHaveArguments
  <2>5. WantsPayload(t) => mem'[Frame(t)] # NULL
    <3>1. WantsPayload(t) => Copies(s)
      BY <1>2, <2>1, <2>2 DEF WantsPayload, Copies, SlotHolds, RequestType
    <3> QED
      BY <1>0, <2>2, <2>3, <3>1 DEF MutexFree
  <2>6. /\ \A x \in Slots \ {s} : slots'[x] = slots[x]
        /\ signalled' \subseteq signalled \cup {s}
        /\ s \in signalled' \ signalled => slots[s].ind_is_waiting
    BY DEF VisitSlot, Signals, Types, TypeOK
  <2>7. \A u \in Threads \ {t} : pc[u] \in Selected =>
          /\ select_id[u] \in Slots \ {s}
          /\ slots'[select_id[u]] = slots[select_id[u]]
    BY <2>1, <2>6, SlotsDiffer DEF Types, CallsHaveArguments
  <2>9. ArrivalHasPayload'
    <3>1. ASSUME NEW u \in Threads, pc[u] \in Selected, WantsPayload(u),
                 \/ slots'[select_id[u]].ind_has_arrived
                 \/ select_id[u] \in signalled'
          PROVE  mem'[Frame(u)] # NULL
      <4>1. CASE u = t
        BY <2>5, <3>1, <4>1
      <4>2. CASE u # t
        BY <2>4, <2>6, <2>7, <3>1, <4>2 DEF Earned, ArrivalHasPayload
      <4> QED
        BY <4>1, <4>2
    <3> QED
      BY <1>0, <3>1 DEF ArrivalHasPayload
  <2>10. StatusIsEarned'
    BY <1>0, <2>4 DEF Earned, StatusIsEarned
  <2> QED
    BY <2>9, <2>10 DEF Earned
<1> QED
  BY <1>1, <1>2

\* What loc_sync_init, the loop and the scheduler do to others does not touch
\* the frames of calls in progress.
LEMMA OtherFrames ==
  ASSUME Types, NEW t \in Threads, NEW v,
         mem' = [mem EXCEPT ![Frame(t)] = v]
  PROVE  \A u \in Threads \ {t} : pc[u] # "idle" => mem'[Frame(u)] = mem[Frame(u)]
BY DEF Frame, Frames, Types, TypeOK, CallsHaveArguments

LEMMA EarnedStep ==
  ASSUME PoolSuffices, NoSpuriousWakeups, Inv, SignalsAreFresh, Earned,
         [Next]_vars
  PROVE  Earned'
<1> USE DEF Selected, Holding, PCs, Inv
<1>1. CASE loc_sync_req_init
  <2>1. CASE loc_sync_call_initialized
    BY <1>1, <2>1, EarnedQuiet DEF loc_sync_req_init, slotVars, callerVars
  <2>2. CASE ~loc_sync_call_initialized
    <3>1. \A t \in Threads : pc[t] = "idle" /\ pc'[t] = "idle"
      BY <1>1, <2>2 DEF loc_sync_req_init, callerVars, Ownership, InitialisedFirst
    <3> QED
      BY <3>1 DEF Earned, ArrivalHasPayload, StatusIsEarned
  <2> QED
    BY <2>1, <2>2
<1>2. ASSUME NEW t \in Threads, loc_alloc_slot(t) PROVE Earned'
  <2>1. /\ pc[t] = "idle" /\ pc'[t] = "alloced"
        /\ UNCHANGED <<slots, signalled, mem>>
        /\ \A u \in Threads \ {t} :
             /\ pc'[u] = pc[u] /\ req'[u] = req[u] /\ status'[u] = status[u]
             /\ select_id'[u] = select_id[u] /\ callNo'[u] = callNo[u]
    BY <1>2 DEF loc_alloc_slot, Begin, Types, TypeOK
  <2> QED
    BY <2>1, EarnedOneCaller
<1>3. ASSUME NEW t \in Threads, BufferFull(t) PROVE Earned'
  BY <1>3, PoolHasRoom DEF BufferFull, Begin
<1>4. ASSUME NEW t \in Threads, loc_sync_select_ind(t) PROVE Earned'
  <2>1. /\ pc[t] = "alloced" /\ pc'[t] = "selected" /\ select_id[t] \in Slots
        /\ UNCHANGED <<req, status, select_id, callNo, mem, signalled>>
        /\ \A u \in Threads \ {t} : pc'[u] = pc[u]
        /\ \A s \in Slots \ {select_id[t]} : slots'[s] = slots[s]
        /\ ~slots'[select_id[t]].ind_has_arrived
    BY <1>4 DEF loc_sync_select_ind, Types, TypeOK, CallsHaveArguments
  <2>2. select_id[t] \notin signalled
    BY <2>1 DEF SignalsAreFresh, Ownership, EverySlotHasOneOwner
  <2> QED
    BY <2>1, <2>2, EarnedOneCaller
<1>5. ASSUME NEW t \in Threads, Transmit(t) \/ SendReturns(t) \/ SendFails(t)
      PROVE  Earned'
  BY <1>5, EarnedQuiet
  DEF Transmit, SendReturns, SendFails, slotVars, Types, TypeOK
<1>6. ASSUME NEW t \in Threads, loc_sync_wait_for_ind(t) PROVE Earned'
  <2> DEFINE s == select_id[t]
             arrived == slots[s].ind_has_arrived
  <2>1. /\ pc[t] = "sent" /\ s \in Slots /\ slot_in_use[s]
        /\ ~slots[s].ind_is_waiting
    BY <1>6 DEF loc_sync_wait_for_ind, Types, CallsHaveArguments, Ownership,
                EverySlotHasOneOwner, Contents, SlotsFollowCalls, SlotHolds
  <2>2. /\ pc'[t] = IF arrived THEN "freeing" ELSE "waiting"
        /\ arrived => status'[t] = "SUCCESS"
        /\ \A x \in Slots \ {s} : slots'[x] = slots[x]
        /\ slots'[s].ind_has_arrived = arrived
    BY <1>6, <2>1 DEF loc_sync_wait_for_ind, Types, TypeOK, SlotType
  <2>3. /\ UNCHANGED <<mem, req, select_id, callNo, signalled>>
        /\ \A u \in Threads \ {t} : pc'[u] = pc[u] /\ status'[u] = status[u]
    BY <1>6 DEF loc_sync_wait_for_ind, Types, TypeOK
  <2>4. Frame(t)' = Frame(t) /\ (WantsPayload(t)' <=> WantsPayload(t))
    BY <2>3 DEF Frame, WantsPayload
  <2>5. WantsPayload(t) /\ (arrived \/ s \in signalled) => mem[Frame(t)] # NULL
    BY <2>1 DEF Earned, ArrivalHasPayload
  <2> HIDE DEF s, arrived
  <2> QED
    BY <2>1, <2>2, <2>3, <2>4, <2>5, EarnedOneCaller DEF s, Statuses
<1>7. ASSUME NEW t \in Threads, NEW st \in Statuses, WaitReturns(t, st),
             st = "SUCCESS" => select_id[t] \in signalled
      PROVE  Earned'
  <2> DEFINE s == select_id[t]
  <2>1. /\ pc[t] = "waiting" /\ s \in Slots /\ pc'[t] = "freeing"
        /\ status'[t] = st
        /\ \A x \in Slots \ {s} : slots'[x] = slots[x]
        /\ slots'[s].ind_has_arrived = slots[s].ind_has_arrived
        /\ signalled' = signalled \ {s}
        /\ UNCHANGED <<mem, req, select_id, callNo>>
        /\ \A u \in Threads \ {t} : pc'[u] = pc[u] /\ status'[u] = status[u]
    BY <1>7 DEF WaitReturns, Types, TypeOK, SlotType, CallsHaveArguments
  <2>2. Frame(t)' = Frame(t) /\ (WantsPayload(t)' <=> WantsPayload(t))
    BY <2>1 DEF Frame, WantsPayload
  <2>3. WantsPayload(t) /\ (slots[s].ind_has_arrived \/ s \in signalled)
          => mem[Frame(t)] # NULL
    BY <2>1 DEF Earned, ArrivalHasPayload
  <2>4. st = "SUCCESS" => s \in signalled
    BY <1>7
  <2> HIDE DEF s
  <2> QED
    BY <2>1, <2>2, <2>3, <2>4, EarnedOneCaller DEF s
<1>8. ASSUME NEW t \in Threads, loc_free_slot(t) PROVE Earned'
  <2>1. /\ pc[t] = "freeing" /\ pc'[t] = "returned"
        /\ \A x \in Slots \ {select_id[t]} : slots'[x] = slots[x]
        /\ UNCHANGED <<mem, req, callNo, status, signalled>>
        /\ \A u \in Threads \ {t} : pc'[u] = pc[u] /\ select_id'[u] = select_id[u]
    BY <1>8 DEF loc_free_slot, Release, Types, TypeOK
  <2>2. Frame(t)' = Frame(t) /\ (WantsPayload(t)' <=> WantsPayload(t))
    BY <2>1 DEF Frame, WantsPayload
  <2>3. /\ status[t] \in Statuses
        /\ status[t] = "SUCCESS" /\ WantsPayload(t) => mem[Frame(t)] # NULL
    BY <2>1 DEF Earned, StatusIsEarned
  <2> QED
    BY <2>1, <2>2, <2>3, EarnedOneCaller
<1>9. ASSUME NEW t \in Threads, Leave(t) PROVE Earned'
  <2>1. /\ pc[t] = "returned" /\ pc'[t] = "idle"
        /\ UNCHANGED <<slots, signalled, select_id, callNo>>
        /\ mem' = [mem EXCEPT ![Frame(t)] = NULL]
        /\ \A u \in Threads \ {t} :
             pc'[u] = pc[u] /\ req'[u] = req[u] /\ status'[u] = status[u]
    BY <1>9 DEF Leave, slotVars, Types, TypeOK
  <2> QED
    BY <2>1, OtherFrames, EarnedOneCaller
<1>10. ASSUME NEW m \in asked, loc_sync_process_ind(m) PROVE Earned'
  BY <1>10, EarnedQuiet DEF loc_sync_process_ind, slotVars, callerVars
<1>11. ASSUME NEW s \in Slots, VisitSlot(s) PROVE Earned'
  BY <1>11, EarnedVisit
<1>12. CASE EndScan
  BY <1>12, EarnedQuiet DEF EndScan, callerVars
<1>13. CASE UNCHANGED vars
  BY <1>13, EarnedQuiet DEF vars, slotVars, callerVars
<1> QED
  BY <1>1, <1>2, <1>3, <1>4, <1>5, <1>6, <1>7, <1>8, <1>9, <1>10, <1>11, <1>12,
     <1>13
  DEF Next, Caller, CallStep, Callback, Woken, WokenSpuriously, TimedOut,
      Statuses, NoSpuriousWakeups

LEMMA EarnedInvariant ==
  ASSUME PoolSuffices, NoSpuriousWakeups
  PROVE  Spec => []Earned
<1>1. Inv /\ SignalsAreFresh /\ Earned /\ [Next]_vars => Earned'
  BY EarnedStep
<1> QED
  BY <1>1, EarnedInit, InvInvariant, FreshInvariant, PTL DEF Spec

\* A caller that is told SUCCESS, and passed a buffer for a payload of known
\* size, has its payload: no wakeup that was meant for the slot's last owner
\* and no arrival that was noted for it passes for success.
THEOREM SuccessIsEarned ==
  ASSUME PoolSuffices, NoSpuriousWakeups
  PROVE  Spec => []SuccessHasPayload
<1>1. Earned => SuccessHasPayload
  BY DEF Earned, StatusIsEarned, SuccessHasPayload, WantsPayload
<1> QED
  BY <1>1, EarnedInvariant, PTL

-----------------------------------------------------------------------------
(* Answers *)

\* Answers that have left the service or may leave it.
Known == asked \cup ({scan.ind} \ {NULL})

\* An answer belongs to a request that was sent, and comes once.
AnswersWereAsked ==
  /\ scan.ind \notin asked
  /\ \A m \in Known, t \in Threads : m.call[1] = t =>
       /\ m.call[2] <= callNo[t]
       /\ pc[t] \in {"alloced", "selected"} => m.call[2] < callNo[t]

LEMMA AskedInit == Init => AnswersWereAsked
BY ConstantsAssumption DEF Init, AnswersWereAsked, Known, NoScan

\* A new call starts with an empty buffer.
LEMMA NewFrameIsEmpty ==
  ASSUME Types, Contents, NEW t \in Threads, NEW r \in Requests[t], Begin(t, r)
  PROVE  mem[Frame(t)'] = NULL
<1>1. Frame(t)' = <<t, callNo[t] + 1>> /\ Frame(t)' \in Frames
  BY ConstantsAssumption DEF Begin, Frame, Frames, Types, TypeOK
<1> SUFFICES ASSUME mem[Frame(t)'] # NULL PROVE FALSE
  OBVIOUS
<1>2. PICK u \in Threads : Frame(t)' = Frame(u) /\ pc[u] \in Selected \cup {"returned"}
  BY <1>1 DEF Contents, BuffersAreLive
<1>3. u = t /\ callNo[t] + 1 = callNo[t]
  BY <1>1, <1>2 DEF Frame
<1> QED
  BY <1>3 DEF Types, TypeOK

LEMMA AskedQuiet ==
  ASSUME AnswersWereAsked, Known' \subseteq Known, scan'.ind \notin asked',
         UNCHANGED callNo,
         \A t \in Threads : pc'[t] \in {"alloced", "selected"} =>
                              pc[t] \in {"alloced", "selected"}
  PROVE  AnswersWereAsked'
BY DEF AnswersWereAsked

LEMMA AskedBegin ==
  ASSUME Types, AnswersWereAsked, NEW t \in Threads, NEW r \in Requests[t],
         Begin(t, r), UNCHANGED <<asked, scan>>,
         \A u \in Threads \ {t} : pc'[u] = pc[u]
  PROVE  AnswersWereAsked'
<1>1. \A m \in Known : m.call[2] \in Nat
  BY ConstantsAssumption DEF Known, Types, TypeOK, Indications, Frames
<1>2. Known' = Known
  BY DEF Known
<1>3. /\ callNo'[t] = callNo[t] + 1 /\ callNo[t] \in Nat
      /\ \A u \in Threads \ {t} : callNo'[u] = callNo[u]
  BY ConstantsAssumption DEF Begin, Types, TypeOK
<1> QED
  BY <1>1, <1>2, <1>3 DEF AnswersWereAsked

LEMMA AskedTransmit ==
  ASSUME Types, AnswersWereAsked, NEW t \in Threads, Transmit(t)
  PROVE  AnswersWereAsked'
<1>1. /\ pc[t] = "selected" /\ pc'[t] = "sending"
      /\ \A u \in Threads \ {t} : pc'[u] = pc[u]
      /\ asked' = asked \cup {Answer(t)} /\ UNCHANGED <<scan, callNo>>
      /\ Answer(t).call[1] = t /\ Answer(t).call[2] = callNo[t]
      /\ callNo[t] \in Nat
  BY ConstantsAssumption DEF Transmit, Answer, Frame, Types, TypeOK
<1>2. Answer(t) \in Indications
  BY <1>1 DEF Answer, Frame, Frames, Indications, Types, CallsHaveArguments,
              RequestType
<1>3. Answer(t) \notin Known
  BY <1>1 DEF AnswersWereAsked
<1>4. Known' = Known \cup {Answer(t)} /\ scan'.ind \notin asked'
  BY <1>1, <1>2, <1>3, ConstantsAssumption DEF Known, AnswersWereAsked
<1>5. ASSUME NEW m \in Known', NEW u \in Threads, m.call[1] = u
      PROVE  /\ m.call[2] <= callNo[u]
             /\ pc'[u] \in {"alloced", "selected"} => m.call[2] < callNo[u]
  <2>1. CASE m = Answer(t)
    BY <1>1, <1>5, <2>1
  <2>2. CASE m \in Known
    BY <1>1, <1>5, <2>2 DEF AnswersWereAsked
  <2> QED
    BY <1>4, <2>1, <2>2
<1> QED
  BY <1>1, <1>4, <1>5 DEF AnswersWereAsked

LEMMA AskedStep ==
  ASSUME Inv, AnswersWereAsked, [Next]_vars
  PROVE  AnswersWereAsked'
<1> USE DEF Inv
<1>0. scan.ind \notin asked /\ NULL \notin asked
  BY ConstantsAssumption DEF AnswersWereAsked, Types, TypeOK
<1>1. CASE UNCHANGED <<asked, scan, callNo>> /\
           \A t \in Threads : pc'[t] \in {"alloced", "selected"} =>
                              pc[t] \in {"alloced", "selected"}
  BY <1>0, <1>1, AskedQuiet DEF Known
<1>2. ASSUME NEW t \in Threads, loc_alloc_slot(t) \/ BufferFull(t)
      PROVE  AnswersWereAsked'
  <2>1. PICK r \in Requests[t] : Begin(t, r)
    BY <1>2 DEF loc_alloc_slot, BufferFull
  <2>2. /\ UNCHANGED <<asked, scan>>
        /\ \A u \in Threads \ {t} : pc'[u] = pc[u]
    BY <1>2 DEF loc_alloc_slot, BufferFull, Types, TypeOK
  <2> QED
    BY <2>1, <2>2, AskedBegin
<1>3. ASSUME NEW t \in Threads, Transmit(t) PROVE AnswersWereAsked'
  BY <1>3, AskedTransmit
<1>4. ASSUME NEW t \in Threads,
             \/ loc_sync_select_ind(t) \/ SendReturns(t) \/ SendFails(t)
             \/ loc_sync_wait_for_ind(t) \/ (\E st \in Statuses : WaitReturns(t, st))
             \/ loc_free_slot(t) \/ Leave(t)
      PROVE  AnswersWereAsked'
  BY <1>1, <1>4
  DEF loc_sync_select_ind, SendReturns, SendFails, loc_sync_wait_for_ind,
      WaitReturns, loc_free_slot, Release, Leave, Types, TypeOK
<1>5. ASSUME NEW m \in asked, loc_sync_process_ind(m) PROVE AnswersWereAsked'
  BY <1>0, <1>5, AskedQuiet DEF loc_sync_process_ind, callerVars, Known, NoScan
<1>6. ASSUME NEW s \in Slots, VisitSlot(s) PROVE AnswersWereAsked'
  <2>1. scan'.ind = scan.ind
    BY <1>6 DEF VisitSlot, Types, TypeOK
  <2> QED
    BY <1>0, <1>6, <2>1, AskedQuiet DEF VisitSlot, callerVars, Known
<1>7. CASE EndScan
  BY <1>0, <1>7, AskedQuiet DEF EndScan, callerVars, Known, NoScan
<1>8. CASE loc_sync_req_init \/ UNCHANGED vars
  BY <1>1, <1>8 DEF loc_sync_req_init, vars, callerVars
<1> QED
  BY <1>2, <1>3, <1>4, <1>5, <1>6, <1>7, <1>8
  DEF Next, Caller, CallStep, Callback, Woken, WokenSpuriously, TimedOut, Statuses

LEMMA AskedInvariant == Spec => []AnswersWereAsked
<1>1. Inv /\ AnswersWereAsked /\ [Next]_vars => AnswersWereAsked'
  BY AskedStep
<1> QED
  BY <1>1, AskedInit, InvInvariant, PTL DEF Spec

-----------------------------------------------------------------------------
(* The answer to the call's own request *)

\* No two threads ever wait for the same indication of the same client.
DifferentKinds ==
  \A t, u \in Threads : \A r \in Requests[t], q \in Requests[u] :
    r.client = q.client /\ r.ind = q.ind => t = u

\* The payload is the answer to the call's own request, not to an earlier one
\* nor to another thread's.
AnswerIsOwn ==
  \A t \in Threads : pc[t] # "idle" => mem[Frame(t)] \in {NULL, Answer(t)}

Unanswered(t) ==
  /\ pc[t] \in {"sending", "sent", "waiting"}
  /\ mem[Frame(t)] = NULL
  /\ ~slots[select_id[t]].ind_has_arrived
  /\ select_id[t] \notin signalled

Awaited(m) == \E t \in Threads : m = Answer(t) /\ Unanswered(t)

\* What has not been handed over is the answer of a call still without one; the
\* loop hands it over when it comes to that call's slot.
OneAnswerEach ==
  /\ \A t \in Threads : pc[t] # "idle" => req[t] \in Requests[t]
  /\ \A m \in asked : Awaited(m)
  /\ ~MutexFree => \E t \in Threads :
       /\ pc[t] \in Selected
       /\ scan.ind = Answer(t)
       /\ ~scan.consumed /\ scan.pos <= select_id[t] => Unanswered(t)
  /\ AnswerIsOwn
  /\ \A t \in Threads : pc[t] \in {"alloced", "selected"} => mem[Frame(t)] = NULL
  /\ \A t \in Threads : pc[t] = "selected" => ~slots[select_id[t]].ind_has_arrived

LEMMA OneAnswerInit == Init => OneAnswerEach
BY DEF Init, OneAnswerEach, AnswerIsOwn, MutexFree, NoScan

\* A step of one caller that touches nobody else's slot and buffer.
LEMMA OneAnswerOneCaller ==
  ASSUME Types, Ownership, OneAnswerEach, NEW t \in Threads,
         UNCHANGED scan,
         \A u \in Threads \ {t} :
           /\ pc'[u] = pc[u] /\ req'[u] = req[u]
           /\ select_id'[u] = select_id[u] /\ callNo'[u] = callNo[u],
         pc[t] \in Holding =>
           \A s \in Slots \ {select_id[t]} : slots'[s] = slots[s],
         pc[t] \notin Holding => UNCHANGED slots,
         signalled' \subseteq signalled,
         \A u \in Threads \ {t} : pc[u] # "idle" => mem'[Frame(u)] = mem[Frame(u)],
         pc'[t] # "idle" => /\ req'[t] \in Requests[t]
                            /\ mem'[Frame(t)'] \in {NULL, Answer(t)'},
         pc'[t] \in {"alloced", "selected"} => mem'[Frame(t)'] = NULL,
         pc'[t] = "selected" => ~slots'[select_id'[t]].ind_has_arrived,
         Unanswered(t) => Unanswered(t)' /\ Answer(t)' = Answer(t),
         ~MutexFree /\ pc[t] \in Selected =>
           /\ pc'[t] \in Selected
           /\ Answer(t)' = Answer(t)
           /\ select_id'[t] = select_id[t],
         \/ asked' = asked
         \/ asked' = asked \cup {Answer(t)'} /\ Unanswered(t)'
  PROVE  OneAnswerEach'
<1> USE DEF Selected, Holding, PCs
<1>1. \A u \in Threads \ {t} : Frame(u)' = Frame(u) /\ Answer(u)' = Answer(u)
  BY DEF Frame, Answer
<1>2. \A u \in Threads \ {t} : pc[u] \in Selected =>
        slots'[select_id[u]] = slots[select_id[u]]
  BY DEF Types, CallsHaveArguments, Ownership, EverySlotHasOneOwner
<1>3. \A u \in Threads : Unanswered(u) => Unanswered(u)' /\ Answer(u)' = Answer(u)
  <2> SUFFICES ASSUME NEW u \in Threads \ {t}, Unanswered(u) PROVE Unanswered(u)'
    BY <1>1
  <2> QED
    BY <1>1, <1>2 DEF Unanswered
<1>4. \A m \in asked' : Awaited(m)'
  <2> SUFFICES ASSUME NEW m \in asked', Awaited(m) \/ (m = Answer(t)' /\ Unanswered(t)')
               PROVE  \E u \in Threads : m = Answer(u)' /\ Unanswered(u)'
    BY DEF OneAnswerEach, Awaited
  <2> QED
    BY <1>3 DEF Awaited
<1>5. ASSUME ~MutexFree'
      PROVE  \E u \in Threads :
               /\ pc'[u] \in Selected
               /\ scan'.ind = Answer(u)'
               /\ ~scan'.consumed /\ scan'.pos <= select_id'[u] => Unanswered(u)'
  <2>1. ~MutexFree
    BY <1>5 DEF MutexFree
  <2>2. PICK u \in Threads :
          /\ pc[u] \in Selected
          /\ scan.ind = Answer(u)
          /\ ~scan.consumed /\ scan.pos <= select_id[u] => Unanswered(u)
    BY <2>1 DEF OneAnswerEach
  <2>3. pc'[u] \in Selected /\ Answer(u)' = Answer(u) /\ select_id'[u] = select_id[u]
    BY <1>1, <2>1, <2>2
  <2> QED
    BY <1>3, <2>2, <2>3
<1>6. AnswerIsOwn'
  <2> SUFFICES ASSUME NEW u \in Threads \ {t}, pc[u] # "idle"
               PROVE  mem'[Frame(u)'] \in {NULL, Answer(u)'}
    BY DEF AnswerIsOwn
  <2> QED
    BY <1>1 DEF OneAnswerEach, AnswerIsOwn
<1>7. \A u \in Threads : pc'[u] # "idle" => req'[u] \in Requests[u]
  BY DEF OneAnswerEach
<1>8. \A u \in Threads :
        pc'[u] \in {"alloced", "selected"} => mem'[Frame(u)'] = NULL
  BY <1>1 DEF OneAnswerEach
<1>9. \A u \in Threads :
        pc'[u] = "selected" => ~slots'[select_id'[u]].ind_has_arrived
  BY <1>2 DEF OneAnswerEach
<1> QED
  BY <1>4, <1>5, <1>6, <1>7, <1>8, <1>9 DEF OneAnswerEach

\* The slot that matches is that of the call the indication answers, which has
\* had no answer yet.
LEMMA MatchIsAwaited ==
  ASSUME DifferentKinds, Inv, OneAnswerEach, NEW s \in Slots, VisitSlot(s),
         Matches(s)
  PROVE  \E t \in Threads :
           /\ pc[t] \in Selected /\ select_id[t] = s
           /\ scan.ind = Answer(t)
           /\ Unanswered(t)
           /\ Copies(s) => slots[s].recv_ind_payload_ptr = Frame(t)
<1> USE DEF Inv
<1>1. ~MutexFree /\ ~scan.consumed /\ scan.pos = s
  BY DEF VisitSlot, LoopEnds
<1>2. PICK t \in Threads :
        /\ pc[t] \in Selected /\ select_id[t] = s
        /\ req[t].client = scan.ind.client /\ req[t].ind = scan.ind.ind
        /\ Copies(s) => slots[s].recv_ind_payload_ptr = Frame(t)
  BY <1>1, MatchesOwner
<1>3. PICK u \in Threads :
        /\ pc[u] \in Selected
        /\ scan.ind = Answer(u)
        /\ ~scan.consumed /\ scan.pos <= select_id[u] => Unanswered(u)
  BY <1>1 DEF OneAnswerEach
<1>4. req[t] \in Requests[t] /\ req[u] \in Requests[u]
  BY <1>2, <1>3 DEF OneAnswerEach, Selected, Holding
<1>5. t = u
  BY <1>2, <1>3, <1>4 DEF DifferentKinds, Answer
<1>6. s \in Nat
  BY DEF Slots
<1> QED
  BY <1>1, <1>2, <1>3, <1>5, <1>6

LEMMA OneAnswerVisit ==
  ASSUME DifferentKinds, Inv, AnswersWereAsked, OneAnswerEach,
         NEW s \in Slots, VisitSlot(s)
  PROVE  OneAnswerEach'
<1> USE DEF Selected, Holding, PCs, Inv
<1>0. /\ ~MutexFree /\ ~scan.consumed /\ scan.pos = s /\ s \in Nat
      /\ UNCHANGED <<pc, req, select_id, callNo, asked>>
      /\ \A u \in Threads : Frame(u)' = Frame(u) /\ Answer(u)' = Answer(u)
      /\ scan'.ind = scan.ind /\ scan'.pos = s + 1
  BY DEF VisitSlot, LoopEnds, callerVars, Frame, Answer, Slots, Types, TypeOK
<1>1. CASE ~Matches(s)
  <2>1. UNCHANGED <<slots, mem, signalled>>
    BY <1>1 DEF VisitSlot, Signals, Copies
  <2>2. \A u \in Threads : Unanswered(u)' <=> Unanswered(u)
    BY <1>0, <2>1 DEF Unanswered
  <2>3. \E u \in Threads :
          /\ pc'[u] \in Selected
          /\ scan'.ind = Answer(u)'
          /\ ~scan'.consumed /\ scan'.pos <= select_id'[u] => Unanswered(u)'
    <3>1. PICK u \in Threads :
            /\ pc[u] \in Selected
            /\ scan.ind = Answer(u)
            /\ ~scan.consumed /\ scan.pos <= select_id[u] => Unanswered(u)
      BY <1>0 DEF OneAnswerEach
    <3>2. select_id[u] \in Nat
      BY <3>1 DEF Types, CallsHaveArguments, Slots
    <3> QED
      BY <1>0, <2>2, <3>1, <3>2
  <2> QED
    BY <1>0, <2>1, <2>2, <2>3 DEF OneAnswerEach, AnswerIsOwn, Awaited
<1>2. CASE Matches(s)
  <2>1. PICK t \in Threads :
          /\ pc[t] \in Selected /\ select_id[t] = s
          /\ scan.ind = Answer(t)
          /\ Unanswered(t)
          /\ Copies(s) => slots[s].recv_ind_payload_ptr = Frame(t)
    BY <1>2, MatchIsAwaited
  <2>2. Frame(t) \in Frames
    BY <2>1 DEF Frame, Frames, Types, CallsHaveArguments
  <2>3. \A f \in Frames : mem'[f] = IF Copies(s) /\ f = Frame(t)
                                     THEN scan.ind ELSE mem[f]
    BY <2>1, <2>2 DEF VisitSlot, Types, TypeOK
  <2>4. \A u \in Threads \ {t} : pc[u] # "idle" => mem'[Frame(u)] = mem[Frame(u)]
    BY <2>3, FramesDiffer DEF Frame, Frames, Types, CallsHaveArguments
  <2>5. /\ \A x \in Slots \ {s} : slots'[x] = slots[x]
        /\ signalled' \subseteq signalled \cup {s}
    BY DEF VisitSlot, Types, TypeOK
  <2>6. \A u \in Threads \ {t} : pc[u] \in Selected =>
          /\ select_id[u] \in Slots \ {s}
          /\ slots'[select_id[u]] = slots[select_id[u]]
    BY <2>1, <2>5, SlotsDiffer DEF Types, CallsHaveArguments
  <2>7. \A u \in Threads \ {t} : Unanswered(u) => Unanswered(u)'
    BY <1>0, <2>4, <2>5, <2>6 DEF Unanswered
  <2>8. \A m \in asked : Awaited(m)'
    <3> SUFFICES ASSUME NEW m \in asked PROVE Awaited(m)'
      OBVIOUS
    <3>1. PICK u \in Threads : m = Answer(u) /\ Unanswered(u)
      BY DEF OneAnswerEach, Awaited
    <3>2. u # t
      BY <2>1, <3>1 DEF AnswersWereAsked
    <3> QED
      BY <1>0, <2>7, <3>1, <3>2 DEF Awaited
  <2>9. /\ pc'[t] \in Selected /\ scan'.ind = Answer(t)'
        /\ ~(scan'.pos <= select_id'[t])
    BY <1>0, <2>1
  <2>10. AnswerIsOwn'
    <3> SUFFICES ASSUME NEW u \in Threads, pc[u] # "idle"
                 PROVE  mem'[Frame(u)] \in {NULL, Answer(u)}
      BY <1>0 DEF AnswerIsOwn
    <3> QED
      BY <2>1, <2>2, <2>3, <2>4 DEF OneAnswerEach, AnswerIsOwn
  <2>11. pc[t] \notin {"alloced", "selected"}
    BY <2>1 DEF Unanswered
  <2>12. \A u \in Threads :
           /\ pc[u] \in {"alloced", "selected"} => mem'[Frame(u)] = NULL
           /\ pc[u] = "selected" => ~slots'[select_id[u]].ind_has_arrived
    BY <2>4, <2>6, <2>11 DEF OneAnswerEach
  <2> QED
    BY <1>0, <2>8, <2>9, <2>10, <2>12 DEF OneAnswerEach
<1> QED
  BY <1>1, <1>2

LEMMA OneAnswerStep ==
  ASSUME DifferentKinds, Faults = {}, Inv, SignalsAreFresh, AnswersWereAsked,
         OneAnswerEach, [Next]_vars
  PROVE  OneAnswerEach'
<1> USE DEF Selected, Holding, PCs, Inv
<1>1. CASE loc_sync_req_init
  <2>1. UNCHANGED <<scan, pc, req, select_id, callNo, mem, asked, signalled>>
    BY <1>1 DEF loc_sync_req_init, callerVars
  <2>2. \A t \in Threads : Answer(t)' = Answer(t) /\ Frame(t)' = Frame(t)
    BY <2>1 DEF Answer, Frame
  <2>3. \A t \in Threads : Unanswered(t)' <=> Unanswered(t)
    <3>1. CASE loc_sync_call_initialized
      BY <1>1, <2>1, <2>2, <3>1 DEF loc_sync_req_init, slotVars, Unanswered
    <3>2. CASE ~loc_sync_call_initialized
      BY <2>1, <2>2, <3>2 DEF Ownership, InitialisedFirst, Unanswered
    <3> QED
      BY <3>1, <3>2
  <2>4. \A t \in Threads : pc[t] # "idle" => UNCHANGED slots
    BY <1>1 DEF loc_sync_req_init, slotVars, Ownership, InitialisedFirst
  <2> QED
    BY <2>1, <2>2, <2>3, <2>4 DEF OneAnswerEach, AnswerIsOwn, Awaited, MutexFree
<1>2. ASSUME NEW t \in Threads, loc_alloc_slot(t) \/ BufferFull(t)
      PROVE  OneAnswerEach'
  <2>1. PICK r \in Requests[t] : Begin(t, r)
    BY <1>2 DEF loc_alloc_slot, BufferFull
  <2>2. /\ pc[t] = "idle" /\ pc'[t] \in {"alloced", "returned"}
        /\ UNCHANGED <<scan, slots, signalled, mem, asked>>
        /\ \A u \in Threads \ {t} :
             /\ pc'[u] = pc[u] /\ req'[u] = req[u]
             /\ select_id'[u] = select_id[u] /\ callNo'[u] = callNo[u]
    BY <1>2 DEF loc_alloc_slot, BufferFull, Begin, slotVars, Types, TypeOK
  <2>3. mem[Frame(t)'] = NULL
    BY <2>1, NewFrameIsEmpty
  <2>4. req'[t] \in Requests[t]
    BY <2>1 DEF Begin, Types, TypeOK
  <2> QED
    BY <2>2, <2>3, <2>4, OneAnswerOneCaller DEF Unanswered
<1>3. ASSUME NEW t \in Threads, loc_sync_select_ind(t) PROVE OneAnswerEach'
  <2>1. /\ pc[t] = "alloced" /\ pc'[t] = "selected" /\ select_id[t] \in Slots
        /\ UNCHANGED <<scan, req, select_id, callNo, mem, signalled, asked>>
        /\ \A u \in Threads \ {t} : pc'[u] = pc[u]
        /\ \A s \in Slots \ {select_id[t]} : slots'[s] = slots[s]
        /\ ~slots'[select_id[t]].ind_has_arrived
    BY <1>3 DEF loc_sync_select_ind, Types, TypeOK, CallsHaveArguments
  <2>2. Frame(t)' = Frame(t) /\ Answer(t)' = Answer(t)
    BY <2>1 DEF Frame, Answer
  <2>3. req[t] \in Requests[t] /\ mem[Frame(t)] = NULL
    BY <2>1 DEF OneAnswerEach
  <2> QED
    BY <2>1, <2>2, <2>3, OneAnswerOneCaller DEF Unanswered
<1>4. ASSUME NEW t \in Threads, Transmit(t) PROVE OneAnswerEach'
  <2>1. /\ pc[t] = "selected" /\ pc'[t] = "sending"
        /\ UNCHANGED <<scan, slots, req, select_id, callNo, mem, signalled>>
        /\ \A u \in Threads \ {t} : pc'[u] = pc[u]
        /\ asked' = asked \cup {Answer(t)}
    BY <1>4 DEF Transmit, slotVars, Types, TypeOK
  <2>2. Frame(t)' = Frame(t) /\ Answer(t)' = Answer(t)
    BY <2>1 DEF Frame, Answer
  <2>3. /\ req[t] \in Requests[t] /\ mem[Frame(t)] = NULL
        /\ ~slots[select_id[t]].ind_has_arrived
    BY <2>1 DEF OneAnswerEach
  <2>4. select_id[t] \notin signalled
    BY <2>1 DEF SignalsAreFresh, Ownership, EverySlotHasOneOwner
  <2>5. Unanswered(t)'
    BY <2>1, <2>2, <2>3, <2>4 DEF Unanswered
  <2> QED
    BY <2>1, <2>2, <2>3, <2>5, OneAnswerOneCaller DEF Unanswered
\* A step of a call that neither starts nor ends it.
<1>5. ASSUME NEW t \in Threads, pc[t] \in Selected, pc'[t] \in Selected,
             pc'[t] # "selected",
             UNCHANGED <<scan, req, select_id, callNo, mem, asked>>,
             signalled' \subseteq signalled,
             \A u \in Threads \ {t} : pc'[u] = pc[u],
             \A s \in Slots \ {select_id[t]} : slots'[s] = slots[s],
             Unanswered(t) => /\ pc'[t] \in {"sending", "sent", "waiting"}
                              /\ ~slots'[select_id[t]].ind_has_arrived
      PROVE  OneAnswerEach'
  <2>1. Frame(t)' = Frame(t) /\ Answer(t)' = Answer(t)
    BY <1>5 DEF Frame, Answer
  <2>2. req[t] \in Requests[t] /\ mem[Frame(t)] \in {NULL, Answer(t)}
    BY <1>5 DEF OneAnswerEach, AnswerIsOwn
  <2>3. Unanswered(t) => Unanswered(t)'
    BY <1>5, <2>1 DEF Unanswered
  <2> QED
    BY <1>5, <2>1, <2>2, <2>3, OneAnswerOneCaller
<1>6. ASSUME NEW t \in Threads, SendReturns(t) PROVE OneAnswerEach'
  <2>1. /\ pc[t] = "sending" /\ pc'[t] = "sent"
        /\ UNCHANGED <<scan, slots, req, select_id, callNo, mem, asked, signalled>>
        /\ \A u \in Threads \ {t} : pc'[u] = pc[u]
    BY <1>6 DEF SendReturns, slotVars, Types, TypeOK
  <2> QED
    BY <1>5, <2>1 DEF Unanswered
<1>7. ASSUME NEW t \in Threads, SendFails(t) PROVE OneAnswerEach'
  <2>1. /\ pc[t] = "selected" /\ pc'[t] = "freeing"
        /\ UNCHANGED <<scan, slots, req, select_id, callNo, mem, asked, signalled>>
        /\ \A u \in Threads \ {t} : pc'[u] = pc[u]
    BY <1>7 DEF SendFails, slotVars, Types, TypeOK
  <2> QED
    BY <1>5, <2>1 DEF Unanswered
<1>8. ASSUME NEW t \in Threads, loc_sync_wait_for_ind(t) PROVE OneAnswerEach'
  <2> DEFINE s == select_id[t]
             arrived == slots[s].ind_has_arrived
  <2>1. /\ pc[t] = "sent" /\ s \in Slots /\ slot_in_use[s]
        /\ ~slots[s].ind_is_waiting
    BY <1>8 DEF loc_sync_wait_for_ind, Types, CallsHaveArguments, Ownership,
                EverySlotHasOneOwner, Contents, SlotsFollowCalls, SlotHolds
  <2>2. /\ pc'[t] = IF arrived THEN "freeing" ELSE "waiting"
        /\ \A x \in Slots \ {s} : slots'[x] = slots[x]
        /\ slots'[s].ind_has_arrived = arrived
    BY <1>8, <2>1 DEF loc_sync_wait_for_ind, Types, TypeOK, SlotType
  <2>3. /\ UNCHANGED <<scan, req, select_id, callNo, mem, asked, signalled>>
        /\ \A u \in Threads \ {t} : pc'[u] = pc[u]
    BY <1>8 DEF loc_sync_wait_for_ind, Types, TypeOK
  <2> QED
    BY <1>5, <2>1, <2>2, <2>3 DEF Unanswered
<1>9. ASSUME NEW t \in Threads, Woken(t) PROVE OneAnswerEach'
  <2>1. /\ pc[t] = "waiting" /\ pc'[t] = "freeing"
        /\ select_id[t] \in signalled
        /\ UNCHANGED <<scan, req, select_id, callNo, mem, asked>>
        /\ signalled' \subseteq signalled
        /\ \A u \in Threads \ {t} : pc'[u] = pc[u]
        /\ \A s \in Slots \ {select_id[t]} : slots'[s] = slots[s]
    BY <1>9 DEF Woken, WaitReturns, Types, TypeOK
  <2> QED
    BY <1>5, <2>1 DEF Unanswered
<1>10. ASSUME NEW t \in Threads, loc_free_slot(t) PROVE OneAnswerEach'
  <2>1. /\ pc[t] = "freeing" /\ pc'[t] = "returned" /\ MutexFree
        /\ UNCHANGED <<scan, req, callNo, mem, asked, signalled>>
        /\ \A u \in Threads \ {t} : pc'[u] = pc[u] /\ select_id'[u] = select_id[u]
        /\ \A s \in Slots \ {select_id[t]} : slots'[s] = slots[s]
    BY <1>10 DEF loc_free_slot, Release, Types, TypeOK
  <2>2. Frame(t)' = Frame(t) /\ Answer(t)' = Answer(t)
    BY <2>1 DEF Frame, Answer
  <2>3. req[t] \in Requests[t] /\ mem[Frame(t)] \in {NULL, Answer(t)}
    BY <2>1 DEF OneAnswerEach, AnswerIsOwn
  <2> QED
    BY <2>1, <2>2, <2>3, OneAnswerOneCaller DEF Unanswered
<1>11. ASSUME NEW t \in Threads, Leave(t) PROVE OneAnswerEach'
  <2>1. /\ pc[t] = "returned" /\ pc'[t] = "idle"
        /\ UNCHANGED <<scan, slots, signalled, select_id, callNo, asked>>
        /\ mem' = [mem EXCEPT ![Frame(t)] = NULL]
        /\ \A u \in Threads \ {t} : pc'[u] = pc[u] /\ req'[u] = req[u]
    BY <1>11 DEF Leave, slotVars, Types, TypeOK
  <2> QED
    BY <2>1, OtherFrames, OneAnswerOneCaller DEF Unanswered
<1>12. ASSUME NEW m \in asked, loc_sync_process_ind(m) PROVE OneAnswerEach'
  <2>1. UNCHANGED <<slots, signalled, pc, req, select_id, callNo, mem>>
    BY <1>12 DEF loc_sync_process_ind, slotVars, callerVars
  <2>2. /\ asked' \subseteq asked
        /\ scan' = NoScan \/ scan'.ind = m
    BY <1>12 DEF loc_sync_process_ind, NoScan
  <2>3. \A t \in Threads : /\ Answer(t)' = Answer(t) /\ Frame(t)' = Frame(t)
                           /\ Unanswered(t)' <=> Unanswered(t)
    BY <2>1 DEF Answer, Frame, Unanswered
  <2>4. PICK t \in Threads : m = Answer(t) /\ Unanswered(t)
    BY DEF OneAnswerEach, Awaited
  <2>5. ~MutexFree' => scan'.ind = Answer(t)' /\ pc'[t] \in Selected
    BY <2>1, <2>2, <2>3, <2>4 DEF MutexFree, NoScan, Unanswered
  <2> QED
    BY <2>1, <2>2, <2>3, <2>4, <2>5 DEF OneAnswerEach, AnswerIsOwn, Awaited
<1>13. ASSUME NEW s \in Slots, VisitSlot(s) PROVE OneAnswerEach'
  BY <1>13, OneAnswerVisit
<1>14. CASE EndScan \/ UNCHANGED vars
  <2>1. /\ UNCHANGED <<slots, signalled, pc, req, select_id, callNo, mem, asked>>
        /\ scan' = scan \/ MutexFree'
    BY <1>14 DEF EndScan, vars, slotVars, callerVars, NoScan, MutexFree
  <2>2. \A t \in Threads : /\ Answer(t)' = Answer(t) /\ Frame(t)' = Frame(t)
                           /\ Unanswered(t)' <=> Unanswered(t)
    BY <2>1 DEF Answer, Frame, Unanswered
  <2> QED
    BY <2>1, <2>2 DEF OneAnswerEach, AnswerIsOwn, Awaited, MutexFree
<1> QED
  BY <1>1, <1>2, <1>3, <1>4, <1>6, <1>7, <1>8, <1>9, <1>10, <1>11, <1>12, <1>13,
     <1>14
  DEF Next, Caller, CallStep, Callback, WokenSpuriously, TimedOut

LEMMA OneAnswerInvariant ==
  ASSUME DifferentKinds, Faults = {}
  PROVE  Spec => []OneAnswerEach
<1>1. Inv /\ SignalsAreFresh /\ AnswersWereAsked /\ OneAnswerEach /\ [Next]_vars
        => OneAnswerEach'
  BY OneAnswerStep
<1> QED
  BY <1>1, OneAnswerInit, InvInvariant, FreshInvariant, AskedInvariant, PTL DEF Spec

\* When concurrent calls wait for different indications and no call gives up, a
\* caller never finds anything but the answer to its own request.
THEOREM OwnAnswers ==
  ASSUME DifferentKinds, Faults = {}
  PROVE  Spec => []AnswerIsOwn
<1>1. OneAnswerEach => AnswerIsOwn
  BY DEF OneAnswerEach
<1> QED
  BY <1>1, OneAnswerInvariant, PTL

\* Under the same conditions an answer that has been handed over is not
\* overwritten by another one before its caller returns, although the slot of a
\* caller that was signalled goes on matching.
THEOREM AnswersAreKept ==
  ASSUME DifferentKinds, Faults = {}
  PROVE  Spec => AnswerKept
<1> DEFINE Kept == \A f \in Frames : mem[f] # NULL => mem'[f] \in {mem[f], NULL}
<1>1. ASSUME Inv, OneAnswerEach, [Next]_vars PROVE Kept
  <2> SUFFICES ASSUME NEW f \in Frames, mem'[f] # mem[f], mem'[f] # NULL
               PROVE  mem[f] = NULL
    OBVIOUS
  <2>1. CASE \E s \in Slots : VisitSlot(s)
    <3>1. PICK s \in Slots : VisitSlot(s)
      BY <2>1
    <3>2. Copies(s) /\ Matches(s)
      BY <3>1 DEF VisitSlot, Copies
    <3>3. PICK t \in Threads :
            Unanswered(t) /\ slots[s].recv_ind_payload_ptr = Frame(t)
      BY <1>1, <3>1, <3>2, MatchIsAwaited
    <3>4. f = Frame(t)
      BY <1>1, <3>1, <3>2, <3>3 DEF VisitSlot, Inv, Types, TypeOK
    <3> QED
      BY <3>3, <3>4 DEF Unanswered
  <2>2. CASE \E t \in Threads : Leave(t)
    BY <1>1, <2>2 DEF Leave, Inv, Types, TypeOK
  <2>3. CASE UNCHANGED mem
    BY <2>3
  <2> QED
    BY <1>1, <2>1, <2>2, <2>3
    DEF Next, Caller, CallStep, Callback, Woken, WokenSpuriously, TimedOut,
        WaitReturns, loc_sync_req_init, loc_alloc_slot, BufferFull,
        loc_sync_select_ind, Transmit, SendReturns, SendFails,
        loc_sync_wait_for_ind, loc_free_slot, Release, loc_sync_process_ind,
        EndScan, vars
<1>2. Inv /\ OneAnswerEach /\ [Next]_vars => [Kept]_vars
  BY <1>1
<1> QED
  BY <1>2, InvInvariant, OneAnswerInvariant, PTL DEF Spec, AnswerKept

-----------------------------------------------------------------------------
(* The refinement of SyncCall *)

LEMMA PromiseInit == Init => Promise!Init
BY DEF Init, Promise!Init, Phase, PhaseOf, Buffer, Outcome, InFlight,
       Undelivered, NoScan

LEMMA PromiseStutter ==
  ASSUME UNCHANGED <<Phase, req, Buffer, Outcome, InFlight>>
  PROVE  [Promise!Next]_(Promise!vars)
BY DEF Promise!vars

\* Where the call of t is, for the caller.
LEMMA PhaseFacts ==
  ASSUME NEW t \in Threads, pc[t] \in PCs
  PROVE  /\ Phase[t] = "idle" <=> pc[t] = "idle"
         /\ Phase[t] = "done" <=> pc[t] = "returned"
         /\ Phase[t] = "open" <=> pc[t] \in Holding
BY DEF Phase, PhaseOf, PCs, Holding

\* A step of t changes what the promise says of t alone.
LEMMA MapOneCaller ==
  ASSUME NEW t \in Threads,
         \A u \in Threads \ {t} :
           /\ pc'[u] = pc[u] /\ status'[u] = status[u]
           /\ pc[u] # "idle" => mem'[Frame(u)'] = mem[Frame(u)]
  PROVE  /\ Phase' = [Phase EXCEPT ![t] = PhaseOf(t)']
         /\ Buffer' = [Buffer EXCEPT ![t] =
                         IF pc'[t] = "idle" THEN NULL ELSE mem'[Frame(t)']]
         /\ Outcome' = [Outcome EXCEPT ![t] =
                          IF pc'[t] = "returned" THEN status'[t] ELSE NULL]
<1>1. \A u \in Threads \ {t} : PhaseOf(u)' = PhaseOf(u)
  BY DEF PhaseOf
<1>2. Phase' = [Phase EXCEPT ![t] = PhaseOf(t)']
  BY <1>1 DEF Phase
<1>3. Buffer' = [Buffer EXCEPT ![t] =
                   IF pc'[t] = "idle" THEN NULL ELSE mem'[Frame(t)']]
  BY DEF Buffer
<1>4. Outcome' = [Outcome EXCEPT ![t] =
                    IF pc'[t] = "returned" THEN status'[t] ELSE NULL]
  BY DEF Outcome
<1> QED
  BY <1>2, <1>3, <1>4

\* A step inside loc_sync_send_req that touches no buffer.
LEMMA MapInside ==
  ASSUME NEW t \in Threads, pc[t] \in Holding, pc'[t] \in Holding,
         UNCHANGED <<req, mem, callNo>>,
         \A u \in Threads \ {t} : pc'[u] = pc[u] /\ status'[u] = status[u]
  PROVE  UNCHANGED <<Phase, req, Buffer, Outcome>>
<1>1. \A u \in Threads : Frame(u)' = Frame(u) /\ mem'[Frame(u)'] = mem[Frame(u)]
  BY DEF Frame
<1>2. \A u \in Threads : PhaseOf(u)' = PhaseOf(u)
  BY DEF PhaseOf, Holding, PCs
<1>3. \A u \in Threads : /\ pc'[u] = "idle" <=> pc[u] = "idle"
                         /\ pc'[u] = "returned" <=> pc[u] = "returned"
                         /\ pc[u] = "returned" => status'[u] = status[u]
  BY DEF Holding, PCs
<1> QED
  BY <1>1, <1>2, <1>3 DEF Phase, Buffer, Outcome

LEMMA MapBegin ==
  ASSUME Inv, NEW t \in Threads, loc_alloc_slot(t)
  PROVE  \E r \in Requests[t] : Promise!Open(t, r)
<1> USE DEF Inv
<1>1. PICK r \in Requests[t] : Begin(t, r)
  BY DEF loc_alloc_slot
<1>2. /\ pc[t] = "idle" /\ pc'[t] = "alloced" /\ req' = [req EXCEPT ![t] = r]
      /\ UNCHANGED <<status, mem, asked, scan>>
      /\ \A u \in Threads \ {t} : pc'[u] = pc[u] /\ Frame(u)' = Frame(u)
  BY <1>1 DEF loc_alloc_slot, Begin, Frame, Types, TypeOK
<1>3. mem'[Frame(t)'] = NULL
  BY <1>1, <1>2, NewFrameIsEmpty
<1>4. PhaseOf(t)' = "open"
  BY <1>2 DEF PhaseOf
<1>5. Phase[t] = "idle" /\ Buffer[t] = NULL /\ Outcome[t] = NULL
  BY <1>2 DEF Phase, PhaseOf, Buffer, Outcome
<1>6. /\ Phase' = [Phase EXCEPT ![t] = "open"]
      /\ Buffer' = [Buffer EXCEPT ![t] = NULL]
      /\ Outcome' = [Outcome EXCEPT ![t] = NULL]
  BY <1>2, <1>3, <1>4, MapOneCaller
<1>7. Buffer' = Buffer /\ Outcome' = Outcome
  BY <1>5, <1>6 DEF Buffer, Outcome
<1>8. InFlight' = InFlight
  BY <1>2 DEF InFlight, Undelivered
<1> QED
  BY <1>2, <1>5, <1>6, <1>7, <1>8 DEF Promise!Open

LEMMA MapTransmit ==
  ASSUME Inv, NEW t \in Threads, Transmit(t)
  PROVE  Promise!Ask(t)
<1> USE DEF Inv
<1>1. /\ pc[t] = "selected" /\ pc'[t] = "sending"
      /\ UNCHANGED <<req, status, mem, callNo, scan>>
      /\ \A u \in Threads \ {t} : pc'[u] = pc[u]
      /\ asked' = asked \cup {Answer(t)}
  BY DEF Transmit, Types, TypeOK
<1>2. UNCHANGED <<Phase, req, Buffer, Outcome>>
  BY <1>1, MapInside DEF Holding, PCs
<1>3. Phase[t] = "open"
  BY <1>1 DEF Phase, PhaseOf
<1>4. Answer(t) \in Indications
  BY <1>1 DEF Answer, Frame, Frames, Indications, Types, CallsHaveArguments,
              RequestType
<1>5. Answer(t).client = req[t].client /\ Answer(t).ind = req[t].ind
  BY DEF Answer
<1>6. InFlight' = InFlight \cup {Answer(t)}
  BY <1>1 DEF InFlight, Undelivered
<1> QED
  BY <1>2, <1>3, <1>4, <1>5, <1>6 DEF Promise!Ask

LEMMA MapReturn ==
  ASSUME Inv, Earned, NEW t \in Threads, loc_free_slot(t)
  PROVE  \E st \in Statuses : Promise!Return(t, st)
<1> USE DEF Inv
<1>1. /\ pc[t] = "freeing" /\ pc'[t] = "returned"
      /\ UNCHANGED <<req, status, mem, callNo, scan, asked>>
      /\ \A u \in Threads \ {t} : pc'[u] = pc[u]
  BY DEF loc_free_slot, Release, Types, TypeOK
<1>2. \A u \in Threads : Frame(u)' = Frame(u)
  BY <1>1 DEF Frame
<1>3. /\ status[t] \in Statuses
      /\ status[t] = "SUCCESS" /\ WantsPayload(t) => mem[Frame(t)] # NULL
  BY <1>1 DEF Earned, StatusIsEarned
<1>4. Phase[t] = "open" /\ Buffer[t] = mem[Frame(t)]
  BY <1>1 DEF Phase, PhaseOf, Buffer
<1>5. PhaseOf(t)' = "done"
  BY <1>1 DEF PhaseOf
<1>6. /\ Phase' = [Phase EXCEPT ![t] = "done"]
      /\ Buffer' = [Buffer EXCEPT ![t] = mem[Frame(t)]]
      /\ Outcome' = [Outcome EXCEPT ![t] = status[t]]
  BY <1>1, <1>2, <1>5, MapOneCaller
<1>7. Buffer' = Buffer
  BY <1>4, <1>6 DEF Buffer
<1>8. InFlight' = InFlight
  BY <1>1 DEF InFlight, Undelivered
<1>9. Promise!WantsPayload(req[t]) <=> WantsPayload(t)
  BY DEF Promise!WantsPayload, WantsPayload
<1> QED
  BY <1>1, <1>3, <1>4, <1>6, <1>7, <1>8, <1>9 DEF Promise!Return

LEMMA MapLeave ==
  ASSUME Inv, NEW t \in Threads, Leave(t)
  PROVE  Promise!Close(t)
<1> USE DEF Inv
<1>1. /\ pc[t] = "returned" /\ pc'[t] = "idle" /\ req' = [req EXCEPT ![t] = NULL]
      /\ UNCHANGED <<callNo, scan, asked>>
      /\ mem' = [mem EXCEPT ![Frame(t)] = NULL]
      /\ \A u \in Threads \ {t} : pc'[u] = pc[u] /\ status'[u] = status[u]
  BY DEF Leave, Types, TypeOK
<1>2. \A u \in Threads : Frame(u)' = Frame(u)
  BY <1>1 DEF Frame
<1>3. \A u \in Threads \ {t} : pc[u] # "idle" => mem'[Frame(u)] = mem[Frame(u)]
  BY <1>1, OtherFrames
<1>4. Phase[t] = "done" /\ PhaseOf(t)' = "idle"
  BY <1>1 DEF Phase, PhaseOf
<1>5. /\ Phase' = [Phase EXCEPT ![t] = "idle"]
      /\ Buffer' = [Buffer EXCEPT ![t] = NULL]
      /\ Outcome' = [Outcome EXCEPT ![t] = NULL]
  BY <1>1, <1>2, <1>3, <1>4, MapOneCaller
<1>6. InFlight' = InFlight
  BY <1>1 DEF InFlight, Undelivered
<1> QED
  BY <1>1, <1>4, <1>5, <1>6 DEF Promise!Close

\* The indication that the loop has copied fills one buffer and is gone; one
\* that no slot matched is dropped at the end.
LEMMA MapCallback ==
  ASSUME Inv, AnswersWereAsked,
         \/ \E m \in asked : loc_sync_process_ind(m)
         \/ Callback
  PROVE  \/ UNCHANGED <<Phase, req, Buffer, Outcome, InFlight>>
         \/ \E m \in InFlight : Promise!Drop(m)
         \/ \E t \in Threads : \E m \in InFlight : Promise!Fill(t, m)
<1> USE DEF Inv
<1>0. UNCHANGED <<pc, req, select_id, status, callNo>>
  BY DEF loc_sync_process_ind, Callback, VisitSlot, EndScan, callerVars
<1>1. \A u \in Threads : Frame(u)' = Frame(u) /\ PhaseOf(u)' = PhaseOf(u)
  BY <1>0 DEF Frame, PhaseOf
<1>2. Phase' = Phase /\ Outcome' = Outcome
  BY <1>0, <1>1 DEF Phase, Outcome
<1>3. mem' = mem => Buffer' = Buffer
  BY <1>0, <1>1 DEF Buffer
<1>4. ASSUME NEW m \in asked, loc_sync_process_ind(m)
      PROVE  InFlight' = InFlight \/ InFlight' = InFlight \ {m}
  <2>1. InFlight = asked /\ m # NULL
    BY <1>4, ConstantsAssumption
    DEF loc_sync_process_ind, InFlight, Undelivered, MutexFree, Types, TypeOK
  <2>2. scan' = NoScan \/ (scan'.ind = m /\ ~scan'.consumed)
    BY <1>4 DEF loc_sync_process_ind, NoScan
  <2>3. asked' = asked \ {m}
    BY <1>4 DEF loc_sync_process_ind
  <2>4. Undelivered' = {} \/ Undelivered' = {m}
    BY <2>1, <2>2 DEF Undelivered, NoScan
  <2> QED
    BY <2>1, <2>3, <2>4 DEF InFlight
<1>5. CASE \E m \in asked : loc_sync_process_ind(m)
  <2>1. PICK m \in asked : loc_sync_process_ind(m)
    BY <1>5
  <2>2. mem' = mem /\ m \in InFlight
    BY <2>1 DEF loc_sync_process_ind, InFlight
  <2> QED
    BY <1>0, <1>2, <1>3, <1>4, <2>1, <2>2 DEF Promise!Drop
<1>6. CASE EndScan
  <2>1. /\ mem' = mem /\ asked' = asked /\ scan' = NoScan
        /\ scan.ind # NULL /\ scan.ind \notin asked
    BY <1>6 DEF EndScan, MutexFree, AnswersWereAsked
  <2>2. InFlight' = asked
    BY <2>1 DEF InFlight, Undelivered, NoScan
  <2>3. CASE scan.consumed
    BY <1>0, <1>2, <1>3, <2>1, <2>2, <2>3 DEF InFlight, Undelivered
  <2>4. CASE ~scan.consumed
    <3>1. InFlight = asked \cup {scan.ind}
      BY <2>1, <2>4 DEF InFlight, Undelivered
    <3> QED
      BY <1>0, <1>2, <1>3, <2>1, <2>2, <3>1 DEF Promise!Drop
  <2> QED
    BY <2>3, <2>4
<1>7. ASSUME NEW s \in Slots, VisitSlot(s), ~Copies(s)
      PROVE  UNCHANGED <<Phase, req, Buffer, Outcome, InFlight>>
  <2>1. /\ mem' = mem /\ asked' = asked /\ ~scan.consumed
        /\ scan'.ind = scan.ind /\ ~scan'.consumed
    BY <1>7 DEF VisitSlot, LoopEnds, Types, TypeOK
  <2> QED
    BY <1>0, <1>2, <1>3, <2>1 DEF InFlight, Undelivered
<1>8. ASSUME NEW s \in Slots, VisitSlot(s), Copies(s)
      PROVE  \E t \in Threads : \E m \in InFlight : Promise!Fill(t, m)
  <2>1. /\ asked' = asked /\ ~scan.consumed /\ ~MutexFree
        /\ scan'.consumed
        /\ mem' = [mem EXCEPT ![slots[s].recv_ind_payload_ptr] = scan.ind]
        /\ scan.ind # NULL /\ scan.ind \notin asked
    BY <1>8 DEF VisitSlot, LoopEnds, MutexFree, AnswersWereAsked, Types, TypeOK
  <2>2. PICK t \in Threads :
          /\ pc[t] \in Selected /\ select_id[t] = s /\ SlotHolds(t)
          /\ req[t].client = scan.ind.client /\ req[t].ind = scan.ind.ind
          /\ slots[s].recv_ind_payload_ptr = Frame(t)
    BY <1>8, <2>1, MatchesOwner DEF Copies
  <2>3. Frame(t) \in Frames /\ req[t] \in RequestType
    BY <2>2 DEF Frame, Frames, Types, CallsHaveArguments, Selected, Holding
  <2>4. mem'[Frame(t)'] = scan.ind
    BY <1>1, <2>1, <2>2, <2>3 DEF Types, TypeOK
  <2>5. \A u \in Threads \ {t} : pc[u] # "idle" => mem'[Frame(u)'] = mem[Frame(u)]
    BY <1>1, <2>1, <2>2, OtherFrames
  <2>6. Buffer' = [Buffer EXCEPT ![t] = scan.ind]
    BY <1>0, <2>2, <2>4, <2>5, MapOneCaller DEF Selected, Holding
  <2>7. Phase[t] = "open"
    BY <2>2 DEF Phase, PhaseOf, Selected, Holding
  <2>8. Promise!WantsPayload(req[t])
    BY <1>8, <2>2, <2>3 DEF Promise!WantsPayload, Copies, SlotHolds, RequestType
  <2>9. InFlight = asked \cup {scan.ind} /\ InFlight' = asked
    BY <2>1 DEF InFlight, Undelivered
  <2> QED
    BY <1>0, <1>2, <2>1, <2>2, <2>6, <2>7, <2>8, <2>9 DEF Promise!Fill
<1> QED
  BY <1>5, <1>6, <1>7, <1>8 DEF Callback

LEMMA PromiseStep ==
  ASSUME PoolSuffices, Inv, Earned, AnswersWereAsked, [Next]_vars
  PROVE  [Promise!Next]_(Promise!vars)
<1> USE DEF Inv
<1>1. CASE loc_sync_req_init \/ UNCHANGED vars
  <2>1. UNCHANGED <<pc, req, status, callNo, mem, asked, scan>>
    BY <1>1 DEF loc_sync_req_init, vars, callerVars
  <2>2. \A u \in Threads : Frame(u)' = Frame(u) /\ PhaseOf(u)' = PhaseOf(u)
    BY <2>1 DEF Frame, PhaseOf
  <2> QED
    BY <2>1, <2>2, PromiseStutter DEF Phase, Buffer, Outcome, InFlight, Undelivered
<1>2. ASSUME NEW t \in Threads, loc_alloc_slot(t) PROVE Promise!Next
  BY <1>2, MapBegin DEF Promise!Next
<1>3. ASSUME NEW t \in Threads, BufferFull(t) PROVE FALSE
  BY <1>3, PoolHasRoom DEF BufferFull, Begin
<1>4. ASSUME NEW t \in Threads,
             \/ loc_sync_select_ind(t) \/ SendReturns(t) \/ SendFails(t)
             \/ loc_sync_wait_for_ind(t) \/ (\E st \in Statuses : WaitReturns(t, st))
      PROVE  [Promise!Next]_(Promise!vars)
  <2>1. loc_sync_wait_for_ind(t) => slot_in_use[select_id[t]]
    BY DEF loc_sync_wait_for_ind, Holding, PCs, Types, CallsHaveArguments,
           Ownership, EverySlotHasOneOwner
  <2>2. /\ pc[t] \in Holding /\ pc'[t] \in Holding
        /\ UNCHANGED <<req, mem, callNo, asked, scan>>
        /\ \A u \in Threads \ {t} : pc'[u] = pc[u] /\ status'[u] = status[u]
    BY <1>4, <2>1
    DEF loc_sync_select_ind, SendReturns, SendFails, loc_sync_wait_for_ind,
        WaitReturns, Holding, PCs, Types, TypeOK
  <2> QED
    BY <2>2, MapInside, PromiseStutter DEF InFlight, Undelivered
<1>5. ASSUME NEW t \in Threads, Transmit(t) PROVE Promise!Next
  BY <1>5, MapTransmit DEF Promise!Next
<1>6. ASSUME NEW t \in Threads, loc_free_slot(t) PROVE Promise!Next
  BY <1>6, MapReturn DEF Promise!Next
<1>7. ASSUME NEW t \in Threads, Leave(t) PROVE Promise!Next
  BY <1>7, MapLeave DEF Promise!Next
<1>8. CASE Callback \/ \E m \in asked : loc_sync_process_ind(m)
  BY <1>8, MapCallback, PromiseStutter DEF Promise!Next
<1> QED
  BY <1>1, <1>2, <1>3, <1>4, <1>5, <1>6, <1>7, <1>8
  DEF Next, Caller, CallStep, Woken, WokenSpuriously, TimedOut, Statuses

\* The slots, their locks, the signals and the loop implement SyncCall: seen from
\* its callers, loc_sync_send_req is one call that opens, asks, has its buffer
\* filled with an answer of its kind or not, and succeeds only with the buffer
\* filled.
THEOREM KeepsItsPromise ==
  ASSUME PoolSuffices, NoSpuriousWakeups
  PROVE  Spec => ImplementsSyncCall
<1>1. Inv /\ Earned /\ AnswersWereAsked /\ [Next]_vars
        => [Promise!Next]_(Promise!vars)
  BY PromiseStep
<1> QED
  BY <1>1, PromiseInit, InvInvariant, EarnedInvariant, AskedInvariant, PTL
  DEF Spec, ImplementsSyncCall, Promise!Spec
=============================================================================
