----------------------------- MODULE LocSyncReq -----------------------------
(***************************************************************************)
(* The synchronous-request layer of the location API, loc_api_sync_req.c.  *)
(*                                                                         *)
(* The location service answers a request twice: a QMI response, which     *)
(* locClientSendReq waits for, and later an indication that carries the    *)
(* result.  loc_sync_send_req turns that into one blocking call.  It takes *)
(* one of a small pool of slots, notes in it which indication it waits for *)
(* and where the payload must be copied, sends the request, and sleeps on  *)
(* the slot's condition variable.  The QMI callback thread hands every     *)
(* response indication to loc_sync_process_ind, which copies the payload   *)
(* into the first slot that matches and wakes the slot's owner.            *)
(*                                                                         *)
(* An action is a critical section of the code.  loc_sync_call_mutex is    *)
(* held across several steps by loc_sync_process_ind alone, which takes a  *)
(* slot's sync_req_lock once per slot: each visit of a slot is a step of   *)
(* its own, and callers that need no more than a slot lock run in between. *)
(*                                                                         *)
(* An operator named X_Fault, just before X, is X with a bug it could well *)
(* have had.  It is part of no behaviour and shows that a property would   *)
(* notice.                                                                 *)
(***************************************************************************)
EXTENDS Naturals

CONSTANTS
  Threads,          \* threads that call loc_sync_send_req
  Requests,         \* Requests[t]: the calls thread t may make
  Clients,          \* open loc_api_v02 clients (locClientHandleType)
  IndIds,           \* ids of the indications that answer a request
  SizedInds,        \* those that locClientGetSizeByRespIndId knows
  NumSlots,         \* LOC_SYNC_REQ_BUFFER_SIZE
  MaxCalls,         \* bound: calls made by one thread
  Faults,           \* what the environment may do, see below
  InvalidHandle,    \* LOC_CLIENT_INVALID_HANDLE_VALUE
  NoIndId,          \* the 0 in the recv_ind_id of a slot that is free
  NULL

Slots  == 1..NumSlots

\* "timeout": pthread_cond_timedwait returns ETIMEDOUT; "spurious": it returns 0
\* though nobody signalled; "send_error": locClientSendReq reports an error for
\* a request that reached the service.
AllFaults == {"timeout", "spurious", "send_error"}

\* The stack frame of a call that holds the buffer for its indication.
Frames == Threads \X (1..MaxCalls)

\* The arguments of loc_sync_send_req; "buf" is FALSE when ind_payload_ptr is
\* NULL, which the interface allows.
RequestType == [client : Clients, ind : IndIds, buf : BOOLEAN]

\* An indication, and the call whose request it answers.  The code never sees
\* "call": indications carry no transaction id.
Indications == [client : Clients, ind : IndIds, call : Frames]

ASSUME ConstantsAssumption ==
  /\ NumSlots \in Nat \ {0}
  /\ MaxCalls \in Nat
  /\ SizedInds \subseteq IndIds
  /\ Requests \in [Threads -> SUBSET RequestType]
  /\ Faults \subseteq AllFaults
  /\ InvalidHandle \notin Clients
  /\ NoIndId \notin IndIds
  /\ NULL \notin Frames \cup Indications \cup RequestType

VARIABLES
  loc_sync_call_initialized,
  in_use,        \* loc_sync_array.in_use
  slot_in_use,   \* loc_sync_array.slot_in_use
  slots,         \* loc_sync_array.slots
  signalled,     \* slots whose waiter was signalled and has yet to wake up
  scan,          \* the loop of loc_sync_process_ind, while it holds the mutex
  pc,            \* where each caller is in loc_sync_send_req
  req,           \* the arguments of its call
  select_id,     \* the slot it was given
  status,        \* the value it returns
  callNo,        \* number of the call each thread is in, or made last
  mem,           \* contents of the payload buffer in every frame
  asked          \* requests the service took and has not answered

slotVars   == <<in_use, slot_in_use, slots>>
callerVars == <<pc, req, select_id, status, callNo>>
vars == <<loc_sync_call_initialized, slotVars, signalled, scan, callerVars,
          mem, asked>>

-----------------------------------------------------------------------------
PCs == {"idle", "alloced", "selected", "sending", "sent", "waiting",
        "freeing", "returned"}

\* The caller owns the slot select_id[t] ...
Holding   == PCs \ {"idle", "returned"}
\* ... whose fields loc_sync_select_ind has filled in.
Selected  == Holding \ {"alloced"}

Statuses == {"SUCCESS", "SEND_FAILED", "FAILURE_TIMEOUT", "FAILURE_INTERNAL"}

SlotType == [client_handle        : Clients \cup {InvalidHandle},
             recv_ind_id          : IndIds \cup {NoIndId},
             recv_ind_payload_ptr : Frames \cup {NULL},
             ind_is_waiting       : BOOLEAN,
             ind_has_arrived      : BOOLEAN]

\* A slot as loc_sync_req_init and loc_free_slot leave it.
EmptySlot == [client_handle        |-> InvalidHandle,
              recv_ind_id          |-> NoIndId,
              recv_ind_payload_ptr |-> NULL,
              ind_is_waiting       |-> FALSE,
              ind_has_arrived      |-> FALSE]

NoScan == [ind |-> NULL, pos |-> 1, consumed |-> FALSE, in_use |-> FALSE]

\* Nobody is inside loc_sync_process_ind, the only holder of
\* loc_sync_call_mutex from one step to the next.
MutexFree == scan.ind = NULL

Frame(t) == <<t, callNo[t]>>

\* The indication that answers the call t is in.
Answer(t) == [client |-> req[t].client, ind |-> req[t].ind, call |-> Frame(t)]

Init ==
  /\ loc_sync_call_initialized = FALSE
  /\ in_use = FALSE
  /\ slot_in_use = [s \in Slots |-> FALSE]
  /\ slots = [s \in Slots |-> EmptySlot]
  /\ signalled = {}
  /\ scan = NoScan
  /\ pc = [t \in Threads |-> "idle"]
  /\ req = [t \in Threads |-> NULL]
  /\ select_id = [t \in Threads |-> 0]
  /\ status = [t \in Threads |-> NULL]
  /\ callNo = [t \in Threads |-> 0]
  /\ mem = [f \in Frames |-> NULL]
  /\ asked = {}

-----------------------------------------------------------------------------
(* Callers *)

\* Without the check that guards the initialisation.
\* Every LocApiV02 object calls this from its constructor, when other objects
\* may already have requests outstanding.
loc_sync_req_init ==
  /\ MutexFree
  /\ IF loc_sync_call_initialized
       THEN UNCHANGED slotVars
       ELSE /\ in_use' = FALSE
            /\ slot_in_use' = [s \in Slots |-> FALSE]
            /\ slots' = [s \in Slots |-> EmptySlot]
  /\ loc_sync_call_initialized' = TRUE
  /\ UNCHANGED <<signalled, scan, callerVars, mem, asked>>

\* Goes by a field that loc_sync_select_ind fills in only later.
FreeSlots_ByHandle == {s \in Slots : slots[s].client_handle = InvalidHandle}

FreeSlots == {s \in Slots : ~slot_in_use[s]}

\* Thread t enters loc_sync_send_req.
Begin(t, r) ==
  /\ pc[t] = "idle"
  /\ loc_sync_call_initialized
  /\ MutexFree
  /\ callNo[t] < MaxCalls
  /\ callNo' = [callNo EXCEPT ![t] = @ + 1]
  /\ req' = [req EXCEPT ![t] = r]

\* The first free slot is taken.
loc_alloc_slot(t) ==
  /\ \E r \in Requests[t] : Begin(t, r)
  /\ \E s \in FreeSlots :
       /\ \A x \in FreeSlots : s <= x
       /\ select_id' = [select_id EXCEPT ![t] = s]
       /\ slot_in_use' = [slot_in_use EXCEPT ![s] = TRUE]
  /\ in_use' = TRUE
  /\ pc' = [pc EXCEPT ![t] = "alloced"]
  /\ UNCHANGED <<loc_sync_call_initialized, slots, signalled, scan, status,
                 mem, asked>>

\* No slot is free.  loc_sync_select_ind returns -ENOMEM; loc_sync_send_req
\* skips everything else and returns the value "status" was initialised with.
BufferFull(t) ==
  /\ \E r \in Requests[t] : Begin(t, r)
  /\ FreeSlots = {}
  /\ status' = [status EXCEPT ![t] = "SUCCESS"]
  /\ pc' = [pc EXCEPT ![t] = "returned"]
  /\ UNCHANGED <<loc_sync_call_initialized, slotVars, signalled, scan,
                 select_id, mem, asked>>

\* The rest of loc_sync_select_ind, under the slot's own lock.
loc_sync_select_ind(t) ==
  /\ pc[t] = "alloced"
  /\ slots' = [slots EXCEPT ![select_id[t]] =
                 [client_handle        |-> req[t].client,
                  recv_ind_id          |-> req[t].ind,
                  recv_ind_payload_ptr |-> IF req[t].buf THEN Frame(t) ELSE NULL,
                  ind_is_waiting       |-> FALSE,
                  ind_has_arrived      |-> FALSE]]
  /\ pc' = [pc EXCEPT ![t] = "selected"]
  /\ UNCHANGED <<loc_sync_call_initialized, in_use, slot_in_use, signalled,
                 scan, req, select_id, status, callNo, mem, asked>>

\* locClientSendReq hands the request to the service ...
Transmit(t) ==
  /\ pc[t] = "selected"
  /\ asked' = asked \cup {Answer(t)}
  /\ pc' = [pc EXCEPT ![t] = "sending"]
  /\ UNCHANGED <<loc_sync_call_initialized, slotVars, signalled, scan, req,
                 select_id, status, callNo, mem>>

\* ... and returns success; the indication may have come in before that.
SendReturns(t) ==
  /\ pc[t] = "sending"
  /\ pc' = [pc EXCEPT ![t] = "sent"]
  /\ UNCHANGED <<loc_sync_call_initialized, slotVars, signalled, scan, req,
                 select_id, status, callNo, mem, asked>>

\* locClientSendReq fails, before the request left (validateRequest) or after
\* (the QMI response reports an error or timed out).
SendFails(t) ==
  /\ pc[t] = "selected" \/ (pc[t] = "sending" /\ "send_error" \in Faults)
  /\ status' = [status EXCEPT ![t] = "SEND_FAILED"]
  /\ pc' = [pc EXCEPT ![t] = "freeing"]
  /\ UNCHANGED <<loc_sync_call_initialized, slotVars, signalled, scan, req,
                 select_id, callNo, mem, asked>>

\* loc_sync_wait_for_ind up to the wait: an indication that is already there
\* is success; a slot that is not in use (EINVAL, which alone frees nothing) or
\* has a waiter already (EBUSY) is FAILURE_INTERNAL.
loc_sync_wait_for_ind(t) ==
  /\ pc[t] = "sent"
  /\ LET s    == select_id[t]
         next == IF ~slot_in_use[s] THEN "returned"
                 ELSE IF slots[s].ind_has_arrived \/ slots[s].ind_is_waiting
                 THEN "freeing"
                 ELSE "waiting"
     IN  /\ pc' = [pc EXCEPT ![t] = next]
         /\ status' = [status EXCEPT ![t] =
              IF next = "waiting" THEN @
              ELSE IF next = "freeing" /\ slots[s].ind_has_arrived THEN "SUCCESS"
              ELSE "FAILURE_INTERNAL"]
         /\ slots' = [slots EXCEPT ![s].ind_is_waiting =
                        @ \/ next = "waiting"]
  /\ UNCHANGED <<loc_sync_call_initialized, in_use, slot_in_use, signalled,
                 scan, req, select_id, callNo, mem, asked>>

\* pthread_cond_timedwait returns, with the slot's lock held again.
WaitReturns(t, st) ==
  /\ pc[t] = "waiting"
  /\ slots' = [slots EXCEPT ![select_id[t]].ind_is_waiting = FALSE]
  /\ signalled' = signalled \ {select_id[t]}
  /\ status' = [status EXCEPT ![t] = st]
  /\ pc' = [pc EXCEPT ![t] = "freeing"]
  /\ UNCHANGED <<loc_sync_call_initialized, in_use, slot_in_use, scan, req,
                 select_id, callNo, mem, asked>>

Woken(t) ==
  /\ select_id[t] \in signalled
  /\ WaitReturns(t, "SUCCESS")

\* The wait is not in a loop: whatever returns 0 is taken for the indication.
WokenSpuriously(t) ==
  /\ "spurious" \in Faults
  /\ WaitReturns(t, "SUCCESS")

\* Returns the raw error, or forgets to look at it, or waits without a limit.
TimedOut_RawError(t) == "timeout" \in Faults /\ WaitReturns(t, "ETIMEDOUT")
TimedOut_Ignored(t) == "timeout" \in Faults /\ WaitReturns(t, "SUCCESS")
\* The time is up.  A signal sent after that, before the caller has the lock
\* back, wakes nobody.
TimedOut(t) ==
  /\ "timeout" \in Faults
  /\ WaitReturns(t, "FAILURE_TIMEOUT")

\* The slot of t is free again, with the given contents.
Release(t, contents) ==
  /\ pc[t] = "freeing"
  /\ MutexFree
  /\ slot_in_use' = [slot_in_use EXCEPT ![select_id[t]] = FALSE]
  /\ slots' = [slots EXCEPT ![select_id[t]] = contents]
  /\ in_use' = (in_use /\ \E s \in Slots : slot_in_use'[s])
  /\ select_id' = [select_id EXCEPT ![t] = 0]
  /\ pc' = [pc EXCEPT ![t] = "returned"]
  /\ UNCHANGED <<loc_sync_call_initialized, signalled, scan, req, status,
                 callNo, mem, asked>>

\* Marks the slot free and leaves its fields for the next owner to fill in.
loc_free_slot_KeepsFields(t) == Release(t, slots[select_id[t]])

\* Under loc_sync_call_mutex, without the slot's own lock.
loc_free_slot(t) == Release(t, EmptySlot)

\* The LocApiV02 method has read the status and the buffer and returns: its
\* frame is gone.
Leave(t) ==
  /\ pc[t] = "returned"
  /\ mem' = [mem EXCEPT ![Frame(t)] = NULL]
  /\ req' = [req EXCEPT ![t] = NULL]
  /\ status' = [status EXCEPT ![t] = NULL]
  /\ pc' = [pc EXCEPT ![t] = "idle"]
  /\ UNCHANGED <<loc_sync_call_initialized, slotVars, signalled, scan,
                 select_id, callNo, asked>>

-----------------------------------------------------------------------------
(* The QMI callback thread *)

\* The service answers m, or an answer that was long on its way arrives.
\* Nothing happens to it when no call is in progress.
loc_sync_process_ind(m) ==
  /\ MutexFree
  /\ m \in asked
  /\ asked' = asked \ {m}
  /\ scan' = IF in_use THEN [NoScan EXCEPT !.ind = m] ELSE NoScan
  /\ UNCHANGED <<loc_sync_call_initialized, slotVars, signalled, callerVars,
                 mem>>

\* Any response indication of the client will do.
Matches_AnyInd(s) ==
  /\ slot_in_use[s]
  /\ slots[s].client_handle = scan.ind.client
  /\ ~slots[s].ind_has_arrived

Matches(s) ==
  /\ slot_in_use[s]
  /\ slots[s].client_handle = scan.ind.client
  /\ slots[s].recv_ind_id = scan.ind.ind
  /\ ~slots[s].ind_has_arrived

Copies(s) ==
  /\ Matches(s)
  /\ scan.ind.ind \in SizedInds
  /\ slots[s].recv_ind_payload_ptr # NULL

\* The two branches swapped.
Signals_Swapped(s) == Matches(s) /\ ~slots[s].ind_is_waiting

Signals(s) == Matches(s) /\ slots[s].ind_is_waiting

\* Goes on to the next slot after the payload has been copied.
LoopEnds_LastSlotOnly == scan.pos > NumSlots

\* The loop ends: the indication was consumed or every slot was visited.
LoopEnds == scan.consumed \/ scan.pos > NumSlots

\* One turn of the loop, under the slot's lock.  A slot with a waiter is
\* signalled and nothing records that its indication has arrived.
VisitSlot(s) ==
  /\ ~MutexFree
  /\ ~LoopEnds
  /\ s = scan.pos
  /\ mem' = IF Copies(s)
              THEN [mem EXCEPT ![slots[s].recv_ind_payload_ptr] = scan.ind]
              ELSE mem
  /\ signalled' = IF Signals(s) THEN signalled \cup {s} ELSE signalled
  /\ slots' = IF Matches(s) /\ ~Signals(s)
                THEN [slots EXCEPT ![s].ind_has_arrived = TRUE] ELSE slots
  /\ scan' = [scan EXCEPT !.pos = @ + 1,
                          !.consumed = Copies(s),
                          !.in_use = @ \/ slot_in_use[s]]
  /\ UNCHANGED <<loc_sync_call_initialized, in_use, slot_in_use, callerVars,
                 asked>>

\* Takes "nobody matched" for "nobody is there".
EndScan_ClearsInUse ==
  /\ ~MutexFree
  /\ LoopEnds
  /\ in_use' = (in_use /\ scan.consumed)
  /\ scan' = NoScan
  /\ UNCHANGED <<loc_sync_call_initialized, slot_in_use, slots, signalled,
                 callerVars, mem, asked>>

\* in_use is cleared if no slot was in use; the mutex is released.
EndScan ==
  /\ ~MutexFree
  /\ LoopEnds
  /\ in_use' = (in_use /\ scan.in_use)
  /\ scan' = NoScan
  /\ UNCHANGED <<loc_sync_call_initialized, slot_in_use, slots, signalled,
                 callerVars, mem, asked>>

-----------------------------------------------------------------------------
CallStep(t) ==
  \/ loc_sync_select_ind(t)
  \/ Transmit(t)
  \/ SendReturns(t)
  \/ SendFails(t)
  \/ loc_sync_wait_for_ind(t)
  \/ Woken(t)
  \/ TimedOut(t)
  \/ loc_free_slot(t)
  \/ Leave(t)

Caller(t) ==
  \/ loc_alloc_slot(t)
  \/ BufferFull(t)
  \/ CallStep(t)
  \/ WokenSpuriously(t)

Callback ==
  \/ \E s \in Slots : VisitSlot(s)
  \/ EndScan

Next ==
  \/ loc_sync_req_init
  \/ \E t \in Threads : Caller(t)
  \/ \E m \in asked : loc_sync_process_ind(m)
  \/ Callback

Spec == Init /\ [][Next]_vars

\* The scheduler runs every thread that can run, and a timed wait ends.
\* Starting a call and waking up for no reason are nobody's duty.
Fairness == (\A t \in Threads : WF_vars(CallStep(t))) /\ WF_vars(Callback)

FairSpec == Spec /\ Fairness

\* The service, too, answers every request it has accepted.
AnsweredSpec == FairSpec /\ WF_vars(\E m \in asked : loc_sync_process_ind(m))

-----------------------------------------------------------------------------
TypeOK ==
  /\ loc_sync_call_initialized \in BOOLEAN
  /\ in_use \in BOOLEAN
  /\ slot_in_use \in [Slots -> BOOLEAN]
  /\ slots \in [Slots -> SlotType]
  /\ signalled \subseteq Slots
  /\ scan \in [ind : Indications \cup {NULL}, pos : 1..(NumSlots + 1),
               consumed : BOOLEAN, in_use : BOOLEAN]
  /\ pc \in [Threads -> PCs]
  /\ req \in [Threads -> RequestType \cup {NULL}]
  /\ select_id \in [Threads -> Slots \cup {0}]
  /\ status \in [Threads -> Statuses \cup {NULL}]
  /\ callNo \in [Threads -> 0..MaxCalls]
  /\ mem \in [Frames -> Indications \cup {NULL}]
  /\ asked \subseteq Indications

(***************************************************************************)
(* The properties below hold for every value of the constants unless their *)
(* comment names a condition.                                              *)
(***************************************************************************)

\* Slots neither leak nor are shared: whenever a slot is marked in use exactly
\* one caller is between loc_alloc_slot and loc_free_slot with that select_id,
\* however init, allocation, release and indications interleave.
EverySlotHasOneOwner ==
  /\ \A s \in Slots : slot_in_use[s] <=>
       \E t \in Threads : pc[t] \in Holding /\ select_id[t] = s
  /\ \A t, u \in Threads :
       pc[t] \in Holding /\ pc[u] \in Holding /\ select_id[t] = select_id[u]
         => t = u

\* loc_sync_process_ind throws an indication away unread when in_use is false,
\* and both it and loc_free_slot may clear in_use: it is false only when no
\* call holds a slot, so no call in progress can lose its indication this way.
InUseIsExact == in_use <=> \E s \in Slots : slot_in_use[s]

\* The payload buffer is in a stack frame of the caller.  The callback thread
\* never writes it before the call has selected its indication, nor once
\* loc_sync_send_req has returned (when the caller reads it without a lock, or
\* the frame is gone), whatever late indications are on their way.
BufferWrittenOnlyDuringCall ==
  [][\A f \in Frames : mem'[f] \notin {mem[f], NULL} =>
       \E t \in Threads : f = Frame(t) /\ pc[t] \in Selected]_vars

\* What a call finds in its buffer came from the client and is the kind of
\* indication it asked for, also when slots are reused between two calls and
\* answers to calls that gave up are still arriving.
PayloadIsOfKindRequested ==
  \A t \in Threads : pc[t] # "idle" /\ mem[Frame(t)] # NULL =>
    /\ mem[Frame(t)].client = req[t].client
    /\ mem[Frame(t)].ind = req[t].ind

\* No lost wakeup: a caller that sleeps although its payload has been copied
\* has been signalled, both when the indication overtakes the wait and when it
\* comes later.
NoLostWakeup ==
  \A t \in Threads :
    pc[t] = "waiting" /\ mem[Frame(t)] # NULL => select_id[t] \in signalled

\* A call that reports success has sent its request and has its payload: what
\* LocApiV02 takes for granted when it reads ind.status after a success.  It
\* holds while the pool never runs out and no wakeup is spurious.
SuccessHasPayload ==
  \A t \in Threads :
    /\ pc[t] = "returned"
    /\ status[t] = "SUCCESS"
    /\ req[t].buf
    /\ req[t].ind \in SizedInds
    => mem[Frame(t)] # NULL

\* An answer a call has received is still there when the call returns.  Calls
\* for the same indication of the same client at the same time break it: until
\* the signalled caller runs, its slot goes on matching.
AnswerKept ==
  [][\A f \in Frames : mem[f] # NULL => mem'[f] \in {mem[f], NULL}]_vars

\* Every call returns: by its timeout when the service is silent (FairSpec),
\* and without a timeout when it answers (AnsweredSpec, and different
\* indications for concurrent calls).
CallsReturn == \A t \in Threads : pc[t] # "idle" ~> pc[t] = "idle"
=============================================================================
