------------------------------ MODULE SyncCall ------------------------------
(***************************************************************************)
(* What loc_sync_send_req promises its callers (loc_api_sync_req.h): a     *)
(* thread-safe blocking request.  No slots, locks, signals or loops: a     *)
(* call is open until it returns; an indication either fills the buffer of *)
(* one open call that asked for its kind or is thrown away; success means  *)
(* that the buffer was filled; and every call returns.                     *)
(***************************************************************************)
CONSTANTS
  Threads,      \* the callers
  Requests,     \* Requests[t]: the calls thread t may make
  SizedInds,    \* indications whose payload can be copied
  Indications,  \* answers of the service
  Statuses,     \* what a call may return, "SUCCESS" among it
  NULL

VARIABLES
  phase,        \* "idle", "open" or "done", for each thread
  request,      \* the arguments of its call
  buffer,       \* the payload it has received
  outcome,      \* what its call returns
  inFlight      \* answers the service will, or may, still deliver

vars == <<phase, request, buffer, outcome, inFlight>>

\* A call that passes a buffer wants a payload in it.
WantsPayload(r) == r.buf /\ r.ind \in SizedInds

Init ==
  /\ phase = [t \in Threads |-> "idle"]
  /\ request = [t \in Threads |-> NULL]
  /\ buffer = [t \in Threads |-> NULL]
  /\ outcome = [t \in Threads |-> NULL]
  /\ inFlight = {}

Open(t, r) ==
  /\ phase[t] = "idle"
  /\ phase' = [phase EXCEPT ![t] = "open"]
  /\ request' = [request EXCEPT ![t] = r]
  /\ UNCHANGED <<buffer, outcome, inFlight>>

\* The request of an open call reaches the service.
Ask(t) ==
  /\ phase[t] = "open"
  /\ \E m \in Indications :
       /\ m.client = request[t].client /\ m.ind = request[t].ind
       /\ inFlight' = inFlight \cup {m}
  /\ UNCHANGED <<phase, request, buffer, outcome>>

\* An indication fills the buffer of one open call of its kind.
Fill(t, m) ==
  /\ m \in inFlight
  /\ phase[t] = "open"
  /\ WantsPayload(request[t])
  /\ request[t].client = m.client /\ request[t].ind = m.ind
  /\ buffer' = [buffer EXCEPT ![t] = m]
  /\ inFlight' = inFlight \ {m}
  /\ UNCHANGED <<phase, request, outcome>>

Drop(m) ==
  /\ m \in inFlight
  /\ inFlight' = inFlight \ {m}
  /\ UNCHANGED <<phase, request, buffer, outcome>>

Return(t, st) ==
  /\ phase[t] = "open"
  /\ st = "SUCCESS" /\ WantsPayload(request[t]) => buffer[t] # NULL
  /\ phase' = [phase EXCEPT ![t] = "done"]
  /\ outcome' = [outcome EXCEPT ![t] = st]
  /\ UNCHANGED <<request, buffer, inFlight>>

Close(t) ==
  /\ phase[t] = "done"
  /\ phase' = [phase EXCEPT ![t] = "idle"]
  /\ request' = [request EXCEPT ![t] = NULL]
  /\ buffer' = [buffer EXCEPT ![t] = NULL]
  /\ outcome' = [outcome EXCEPT ![t] = NULL]
  /\ UNCHANGED inFlight

Next ==
  \/ \E t \in Threads :
       \/ \E r \in Requests[t] : Open(t, r)
       \/ Ask(t)
       \/ \E m \in inFlight : Fill(t, m)
       \/ \E st \in Statuses : Return(t, st)
       \/ Close(t)
  \/ \E m \in inFlight : Drop(m)

Spec == Init /\ [][Next]_vars

\* Every call returns, whatever the service does.
FairSpec ==
  /\ Spec
  /\ \A t \in Threads :
       WF_vars(Close(t) \/ \E st \in Statuses : Return(t, st))
=============================================================================
