--------------------------- MODULE XtraInjection ---------------------------
(***************************************************************************)
(* LocApiV02::setXtraData: an XTRA file is cut into parts, and each part   *)
(* is sent to the location service with loc_sync_send_req.                 *)
(*                                                                         *)
(* The data of a part is modelled by where in the file it was copied from  *)
(* and how long it is.  The widths of the counters are parameters:         *)
(* PartMod is 2^8 and LenMod is 2^16 in the code, and PartLen is 1024.     *)
(* The field totalParts of the message, 16 bits wide, is not modelled:     *)
(* the counter of the loop overflows long before it.                       *)
(*                                                                         *)
(* loc_sync_send_req is abstracted to what LocSyncReq shows of it: the     *)
(* call ends with the first indication of its kind that comes while it     *)
(* waits, with a timeout, or with an error of the transport; indications   *)
(* for which nobody waits are thrown away.                                 *)
(***************************************************************************)
EXTENDS Integers, Sequences

CONSTANTS
  Lengths,   \* the sizes of files that may be injected
  PartLen,   \* QMI_LOC_MAX_PREDICTED_ORBITS_PART_LEN_V02
  PartMod,   \* number of values of the uint8_t part
  LenMod,    \* number of values of the uint16_t len_injected
  Faults     \* what may go wrong: "send", "refuse", "late"

ASSUME XtraAssumption ==
  /\ Lengths \subseteq Nat
  /\ PartLen \in Nat \ {0}
  /\ PartMod \in Nat \ {0}
  /\ LenMod \in Nat \ {0}
  /\ Faults \subseteq {"send", "refuse", "late"}

VARIABLES
  pc,            \* "idle", "send", "wait" or "done"
  length,        \* argument of the call
  part,          \* number of the part, 8 bits
  len_injected,  \* bytes injected, 16 bits
  inject_xtra,   \* the message, as last filled in
  status,        \* result of the last loc_sync_send_req
  counted,       \* the messages whose length was added to len_injected
  requests,      \* messages on their way to the service
  answers,       \* indications on their way back
  received       \* the messages the service accepted

clientVars == <<pc, length, part, len_injected, inject_xtra, status, counted>>
vars == <<clientVars, requests, answers, received>>

Message == [partNum : Nat, from : Nat, partData_len : Nat]
Ind     == [partNum : Nat, ok : BOOLEAN]
Statuses == {"SUCCESS", "GENERAL_FAILURE", "TIMEOUT"}

TypeOK ==
  /\ pc \in {"idle", "send", "wait", "done"}
  /\ length \in Nat
  /\ part \in 0 .. PartMod - 1
  /\ len_injected \in 0 .. LenMod - 1
  /\ inject_xtra \in Message
  /\ status \in Statuses
  /\ counted \subseteq Message
  /\ requests \in Seq(Message)
  /\ answers \in Seq(Ind)
  /\ received \subseteq Message

NoMessage == [partNum |-> 0, from |-> 0, partData_len |-> 0]

(***************************************************************************)
(* The arithmetic of the call.                                             *)
(***************************************************************************)
\* C divides towards zero, so an empty file has one part too.
TotalParts(l) == IF l = 0 THEN 1 ELSE ((l - 1) \div PartLen) + 1

ChunkLen_Full(l, offset) == PartLen

ChunkLen(l, offset) == IF PartLen > l - offset THEN l - offset ELSE PartLen

FirstPart_Zero == 0

FirstPart == 1 % PartMod

MoreParts_Exclusive == part < TotalParts(length)

\* The condition of the loop.
MoreParts == part <= TotalParts(length)

-----------------------------------------------------------------------------
Init ==
  /\ pc = "idle"
  /\ length = 0
  /\ part = 0
  /\ len_injected = 0
  /\ inject_xtra = NoMessage
  /\ status = "SUCCESS"
  /\ counted = {}
  /\ requests = <<>>
  /\ answers = <<>>
  /\ received = {}

setXtraData(l) ==
  /\ pc = "idle"
  /\ pc' = "send"
  /\ length' = l
  /\ part' = FirstPart
  /\ len_injected' = 0
  /\ UNCHANGED <<inject_xtra, status, counted, requests, answers, received>>

Filled == [partNum      |-> part,
           from         |-> len_injected,
           partData_len |-> ChunkLen(length, len_injected)]

SendPart ==
  /\ pc = "send" /\ MoreParts
  /\ inject_xtra' = Filled
  /\ requests' = Append(requests, Filled)
  /\ pc' = "wait"
  /\ UNCHANGED <<length, part, len_injected, status, counted, answers, received>>

NextPart_SkipsNothing(s) == IF s = "SUCCESS" THEN (part + 1) % PartMod ELSE part

\* The loop goes on with the next number whatever became of this part.
NextPart(s) == (part + 1) % PartMod

Step(s) ==
  /\ status' = s
  /\ part' = NextPart(s)
  /\ pc' = "send"

\* The transport does not take the message: the part is given up.
SendFails ==
  /\ "send" \in Faults
  /\ pc = "send" /\ MoreParts
  /\ inject_xtra' = Filled
  /\ Step("GENERAL_FAILURE")
  /\ UNCHANGED <<length, len_injected, counted, requests, answers, received>>

Counts_AnyPart(ind) == ind.ok

Counts(ind) == ind.ok /\ ind.partNum = inject_xtra.partNum

\* The first indication that comes ends the wait, whichever part it is for.
Answered ==
  /\ pc = "wait"
  /\ answers # <<>>
  /\ answers' = Tail(answers)
  /\ IF Counts(Head(answers))
     THEN /\ len_injected' = (len_injected + inject_xtra.partData_len) % LenMod
          /\ counted' = counted \cup {inject_xtra}
     ELSE UNCHANGED <<len_injected, counted>>
  /\ Step("SUCCESS")
  /\ UNCHANGED <<length, inject_xtra, requests, received>>

TimedOut ==
  /\ "late" \in Faults
  /\ pc = "wait"
  /\ Step("TIMEOUT")
  /\ UNCHANGED <<length, len_injected, inject_xtra, counted, requests, answers,
                 received>>

\* loc_sync_process_ind finds nobody waiting.
Dropped ==
  /\ pc # "wait"
  /\ answers # <<>>
  /\ answers' = Tail(answers)
  /\ UNCHANGED <<clientVars, requests, received>>

Return ==
  /\ pc = "send" /\ ~MoreParts
  /\ pc' = "done"
  /\ UNCHANGED <<length, part, len_injected, inject_xtra, status, counted,
                 requests, answers, received>>

(***************************************************************************)
(* The location service takes the parts in the order they were sent, or    *)
(* refuses one with an error in its indication.                            *)
(***************************************************************************)
Serve(ok) ==
  /\ ok \/ "refuse" \in Faults
  /\ requests # <<>>
  /\ requests' = Tail(requests)
  /\ answers' = Append(answers, [partNum |-> Head(requests).partNum, ok |-> ok])
  /\ received' = IF ok THEN received \cup {Head(requests)} ELSE received
  /\ UNCHANGED clientVars

Call == \E l \in Lengths : setXtraData(l)
Client == SendPart \/ SendFails \/ Answered \/ TimedOut \/ Return
Service == \E ok \in BOOLEAN : Serve(ok)

Next == Call \/ Client \/ Dropped \/ Service

Spec == Init /\ [][Next]_vars

\* The caller's thread runs, a wait ends when its time is over, and the
\* service answers; without "late" it answers in time.
FairSpec == Spec /\ WF_vars(Client) /\ WF_vars(Service)

-----------------------------------------------------------------------------
\* The memcpy of a part stays inside the file and inside partData, whatever
\* fails and however the counters overflow.
ReadsInsideFile ==
  pc = "wait" =>
    /\ inject_xtra.from + inject_xtra.partData_len <= length
    /\ inject_xtra.partData_len <= PartLen

\* A part counted as injected was accepted by the service, although late
\* answers to earlier parts may be what the call was woken by: that is what
\* the comparison of the part numbers is for.
CountedPartsTaken == counted \subseteq received

Right(m) ==
  /\ m.from = (m.partNum - 1) * PartLen
  /\ m.partData_len = ChunkLen(length, m.from)

Counted(n) == \E m \in counted : m.partNum = n
CountedBefore(n) == \A k \in 1 .. n - 1 : Counted(k)

\* Up to the first part that is lost, whether it was not sent, refused or
\* answered too late, every part the service holds is the piece of the file its
\* number stands for.  (Behind a lost part the numbers and the pieces no longer
\* agree; nor do they in a file whose size does not fit len_injected.)
PartsAreRight ==
  length < LenMod =>
    \A m \in received : CountedBefore(m.partNum) => Right(m)

\* The call returns.
Returns == (pc = "send") ~> (pc = "done")
=============================================================================
