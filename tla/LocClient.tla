----------------------------- MODULE LocClient -----------------------------
(***************************************************************************)
(* The life of a client of loc_api_v02_client.c: the block of callback     *)
(* data that locClientOpen allocates, the QMI client that carries its      *)
(* address as a cookie, and the callback thread that follows the cookie    *)
(* while another thread opens and closes.                                  *)
(*                                                                         *)
(* One thread opens and closes (the message task of LocApiV02, the only    *)
(* caller), one thread delivers indications and errors.  The address of a  *)
(* freed block may be handed out again; the names of QMI clients are not   *)
(* reused.  LocApiV02 forgets its handle whatever locClientClose returns,  *)
(* and closes before it opens again.                                       *)
(***************************************************************************)
EXTENDS Naturals, FiniteSets

CONSTANTS
  Blocks,         \* addresses calloc may return
  NoBlock,        \* the null pointer
  ReleaseWaits,   \* qmi_client_release waits for a callback in progress
  Faults,         \* which calls may fail
  LOC_CLIENT_MAX_OPEN_RETRIES,
  MaxOpens,       \* bound: opens by the adapter
  MaxDowns        \* bound: times the service goes away

ASSUME ClientAssumption ==
  /\ NoBlock \notin Blocks
  /\ ReleaseWaits \in BOOLEAN
  /\ Faults \subseteq {"alloc", "notifier", "init", "error_cb", "send", "release"}
  /\ LOC_CLIENT_MAX_OPEN_RETRIES \in Nat
  /\ MaxOpens \in Nat
  /\ MaxDowns \in Nat

VARIABLES
  heap,     \* the blocks: [Blocks -> locClientCallbackDataType]
  clients,  \* QMI clients that are not released
  nextId,   \* name of the next QMI client
  owner,    \* the thread that opens and closes
  cb,       \* the thread that delivers
  service,  \* is the location service up, and how often it went away
  sig       \* the signal of the notifier

vars == <<heap, clients, nextId, owner, cb, service, sig>>

\* Fields of the block that are filled in after the registration; "mask" is
\* written by locClientSendReq.
Fields == {"mask", "event", "resp", "error", "cookie"}

BlockType == [alloc : BOOLEAN, me : BOOLEAN, user : Nat, set : SUBSET Fields]

\* cookie: the block passed to qmi_client_init; errorCb: its error callback is
\* registered; dead: the service it talked to is gone, told: it was told so.
ClientType == [id : Nat \ {0}, cookie : Blocks, errorCb : BOOLEAN,
               dead : BOOLEAN, told : BOOLEAN]

OwnerSteps == {"idle", "alloc", "notifier", "clear", "lookup", "wait", "init",
               "error_cb", "me", "register", "fill", "release", "zero", "free",
               "failed"}

OwnerType == [at : OwnerSteps, handle : Blocks \cup {NoBlock},
              block : Blocks \cup {NoBlock}, clnt : Nat, tries : Nat,
              opens : 0 .. MaxOpens, then : {"idle", "failed"}]

CbType == [at : {"idle", "check", "got", "call"}, kind : {"event", "error"},
           id : Nat, block : Blocks \cup {NoBlock}]

TypeOK ==
  /\ heap \in [Blocks -> BlockType]
  /\ clients \subseteq ClientType
  /\ nextId \in Nat \ {0}
  /\ owner \in OwnerType
  /\ cb \in CbType
  /\ service \in [up : BOOLEAN, downs : 0 .. MaxDowns]
  /\ sig \in BOOLEAN

Zeroed == [alloc |-> TRUE, me |-> FALSE, user |-> 0, set |-> {}]
Freed  == [Zeroed EXCEPT !.alloc = FALSE]

Init ==
  /\ heap = [b \in Blocks |-> Freed]
  /\ clients = {}
  /\ nextId = 1
  /\ owner = [at |-> "idle", handle |-> NoBlock, block |-> NoBlock, clnt |-> 0,
              tries |-> 0, opens |-> 0, then |-> "idle"]
  /\ cb = [at |-> "idle", kind |-> "event", id |-> 0, block |-> NoBlock]
  /\ service \in [up : BOOLEAN, downs : {0}]
  /\ sig = FALSE

Goto(step) == owner' = [owner EXCEPT !.at = step]
MayFail(call) == call \in Faults

-----------------------------------------------------------------------------
(* locClientOpen and locClientOpenInstance *)

Open ==
  /\ owner.at = "idle" /\ owner.handle = NoBlock
  /\ owner.opens < MaxOpens
  /\ owner' = [owner EXCEPT !.at = "alloc", !.tries = 1, !.opens = @ + 1]
  /\ UNCHANGED <<heap, clients, nextId, cb, service, sig>>

Calloc ==
  /\ owner.at = "alloc"
  /\ \E b \in Blocks :
       /\ ~heap[b].alloc
       /\ heap' = [heap EXCEPT ![b] = Zeroed]
       /\ owner' = [owner EXCEPT !.at = "notifier", !.block = b]
  /\ UNCHANGED <<clients, nextId, cb, service, sig>>

CallocFails ==
  /\ owner.at = "alloc"
  /\ MayFail("alloc") \/ \A b \in Blocks : heap[b].alloc
  /\ Goto("failed")
  /\ UNCHANGED <<heap, clients, nextId, cb, service, sig>>

NotifierInit ==
  /\ owner.at = "notifier"
  /\ Goto("clear")
  /\ UNCHANGED <<heap, clients, nextId, cb, service, sig>>

SignalClear ==
  /\ owner.at = "clear"
  /\ sig' = FALSE
  /\ Goto("lookup")
  /\ UNCHANGED <<heap, clients, nextId, cb, service>>

LookUp ==
  /\ owner.at = "lookup"
  /\ Goto(IF service.up THEN "init" ELSE "wait")
  /\ UNCHANGED <<heap, clients, nextId, cb, service, sig>>

SignalWait_DropsEarlier ==
  /\ owner.at = "wait" /\ sig
  /\ sig' = FALSE
  /\ UNCHANGED <<heap, clients, nextId, owner, cb, service>>

\* The timeout is 0: the wait is for the signal only.
SignalWait ==
  /\ owner.at = "wait" /\ sig
  /\ Goto("clear")
  /\ UNCHANGED <<heap, clients, nextId, cb, service, sig>>

ClientInit ==
  /\ owner.at = "init" /\ service.up
  /\ clients' = clients \cup {[id |-> nextId, cookie |-> owner.block,
                               errorCb |-> FALSE, dead |-> FALSE, told |-> FALSE]}
  /\ nextId' = nextId + 1
  /\ owner' = [owner EXCEPT !.at = "error_cb", !.clnt = nextId]
  /\ UNCHANGED <<heap, cb, service, sig>>

RegisterErrorCb ==
  /\ owner.at = "error_cb"
  /\ clients' = {IF c.id = owner.clnt THEN [c EXCEPT !.errorCb = TRUE] ELSE c :
                 c \in clients}
  /\ heap' = [heap EXCEPT ![owner.block].user = owner.clnt]
  /\ Goto("me")
  /\ UNCHANGED <<nextId, cb, service, sig>>

\* locClientQmiCtrlPointInit fails: locClientOpenInstance frees the block.  The
\* QMI client, when there is one already, is not released.
CtrlPointInitFails ==
  /\ \/ owner.at = "notifier" /\ MayFail("notifier")
     \/ owner.at = "init" /\ (MayFail("init") \/ ~service.up)
     \/ owner.at = "error_cb" /\ MayFail("error_cb")
  /\ heap' = [heap EXCEPT ![owner.block] = Freed]
  /\ owner' = [owner EXCEPT !.at = "failed", !.block = NoBlock]
  /\ UNCHANGED <<clients, nextId, cb, service, sig>>

SetMe ==
  /\ owner.at = "me"
  /\ heap' = [heap EXCEPT ![owner.block].me = TRUE]
  /\ owner' = [owner EXCEPT !.at = "register", !.handle = owner.block]
  /\ UNCHANGED <<clients, nextId, cb, service, sig>>

ClientDead == \E c \in clients : c.id = owner.clnt /\ c.dead

\* The service takes the event mask, and locClientSendReq keeps a copy.
RegisterEventMask ==
  /\ owner.at = "register" /\ ~ClientDead
  /\ heap' = [heap EXCEPT ![owner.block].set = @ \cup {"mask"}]
  /\ Goto("fill")
  /\ UNCHANGED <<clients, nextId, cb, service, sig>>

RegisterFails_NoRelease ==
  /\ owner.at = "register"
  /\ ClientDead \/ MayFail("send")
  /\ owner' = [owner EXCEPT !.at = "zero", !.then = "failed"]
  /\ UNCHANGED <<heap, clients, nextId, cb, service, sig>>

\* locClientOpenInstance closes the client again.
RegisterFails ==
  /\ owner.at = "register"
  /\ ClientDead \/ MayFail("send")
  /\ owner' = [owner EXCEPT !.at = "release", !.then = "failed"]
  /\ UNCHANGED <<heap, clients, nextId, cb, service, sig>>

\* The order in which the fields are filled in.
FillOrder == <<"event", "resp", "error", "cookie">>

Fill(n) ==
  /\ owner.at = "fill"
  /\ \A k \in 1 .. n - 1 : FillOrder[k] \in heap[owner.block].set
  /\ FillOrder[n] \notin heap[owner.block].set
  /\ heap' = [heap EXCEPT ![owner.block].set = @ \cup {FillOrder[n]}]
  /\ IF n = 4 THEN Goto("idle") ELSE UNCHANGED owner
  /\ UNCHANGED <<clients, nextId, cb, service, sig>>

Tries_Uncounted == owner.tries

Tries == owner.tries + 1

\* The handle is invalid; locClientOpen tries again after a sleep.
OpenFailed ==
  /\ owner.at = "failed"
  /\ owner' = [owner EXCEPT
       !.handle = NoBlock, !.block = NoBlock, !.clnt = 0,
       !.tries = IF owner.tries <= LOC_CLIENT_MAX_OPEN_RETRIES THEN Tries ELSE 0,
       !.at = IF owner.tries <= LOC_CLIENT_MAX_OPEN_RETRIES THEN "alloc" ELSE "idle"]
  /\ UNCHANGED <<heap, clients, nextId, cb, service, sig>>

-----------------------------------------------------------------------------
(* locClientClose *)

Close ==
  /\ owner.at = "idle" /\ owner.handle # NoBlock
  /\ owner' = [owner EXCEPT !.at = "release", !.then = "idle"]
  /\ UNCHANGED <<heap, clients, nextId, cb, service, sig>>

Release_KeepsBlock ==
  /\ owner.at = "release"
  /\ clients' = {c \in clients : c.id # owner.clnt}
  /\ owner' = [owner EXCEPT !.at = owner.then, !.handle = NoBlock,
                            !.block = NoBlock, !.clnt = 0]
  /\ UNCHANGED <<heap, nextId, cb, service, sig>>

Release ==
  /\ owner.at = "release"
  /\ ReleaseWaits => cb.at = "idle" \/ cb.id # owner.clnt
  /\ clients' = {c \in clients : c.id # owner.clnt}
  /\ Goto("zero")
  /\ UNCHANGED <<heap, nextId, cb, service, sig>>

\* What the caller has when locClientClose returns: both callers forget the
\* handle, also when the close failed.
Forget == owner' = [owner EXCEPT !.at = owner.then, !.handle = NoBlock,
                                 !.block = NoBlock, !.clnt = 0]

ReleaseFails_FreesBlock ==
  /\ owner.at = "release" /\ MayFail("release")
  /\ Goto("zero")
  /\ UNCHANGED <<heap, clients, nextId, cb, service, sig>>

ReleaseFails ==
  /\ owner.at = "release" /\ MayFail("release")
  /\ Forget
  /\ UNCHANGED <<heap, clients, nextId, cb, service, sig>>

Memset ==
  /\ owner.at = "zero"
  /\ heap' = [heap EXCEPT ![owner.block] = Zeroed]
  /\ Goto("free")
  /\ UNCHANGED <<clients, nextId, cb, service, sig>>

Free ==
  /\ owner.at = "free"
  /\ heap' = [heap EXCEPT ![owner.block] = Freed]
  /\ Forget
  /\ UNCHANGED <<clients, nextId, cb, service, sig>>

-----------------------------------------------------------------------------
(* locClientIndCb and locClientErrorCb *)

Deliver(c, kind) ==
  /\ cb.at = "idle"
  /\ IF kind = "event" THEN ~c.dead ELSE c.dead /\ c.errorCb /\ ~c.told
  /\ cb' = [at |-> "check", kind |-> kind, id |-> c.id, block |-> c.cookie]
  /\ clients' = IF kind = "event" THEN clients
                ELSE (clients \ {c}) \cup {[c EXCEPT !.told = TRUE]}
  /\ UNCHANGED <<heap, nextId, owner, service, sig>>

\* What a read of the block gives: a freed block may hold anything.
Reads(condition) == {IF heap[cb.block].alloc THEN condition ELSE x : x \in BOOLEAN}

CallbackGoes(condition, to) ==
  /\ \E ok \in Reads(condition) :
       cb' = [cb EXCEPT !.at = IF ok THEN to ELSE "idle"]
  /\ UNCHANGED <<heap, clients, nextId, owner, service, sig>>

\* The checks at the head of the callback; locClientErrorCb copies its
\* callback first.
Accepts ==
  LET b == heap[cb.block]
  IN  IF cb.kind = "event"
      THEN b.me /\ b.user = cb.id /\ {"mask", "event"} \subseteq b.set
      ELSE "error" \in b.set

CheckBlock == cb.at = "check" /\ CallbackGoes(Accepts, "got")

\* The callback is looked at again just before it is called.
StillThere ==
  LET b == heap[cb.block]
  IN  cb.kind \in b.set /\ (cb.kind = "error" => b.me)

CheckAgain == cb.at = "got" /\ CallbackGoes(StillThere, "call")

\* The callback runs, with the cookie it finds in the block.
CallBack == cb.at = "call" /\ CallbackGoes(FALSE, "idle")

-----------------------------------------------------------------------------
(* The location service *)

ServiceUp ==
  /\ ~service.up
  /\ service' = [service EXCEPT !.up = TRUE]
  /\ sig' = TRUE
  /\ UNCHANGED <<heap, clients, nextId, owner, cb>>

ServiceDown ==
  /\ service.up /\ service.downs < MaxDowns
  /\ service' = [up |-> FALSE, downs |-> service.downs + 1]
  /\ clients' = {[c EXCEPT !.dead = TRUE] : c \in clients}
  /\ UNCHANGED <<heap, nextId, owner, cb, sig>>

-----------------------------------------------------------------------------
Opening ==
  \/ Calloc \/ CallocFails
  \/ NotifierInit \/ SignalClear \/ LookUp \/ SignalWait
  \/ ClientInit \/ RegisterErrorCb \/ CtrlPointInitFails
  \/ SetMe \/ RegisterEventMask \/ RegisterFails
  \/ \E n \in 1 .. 4 : Fill(n)
  \/ OpenFailed

Closing == Release \/ ReleaseFails \/ Memset \/ Free

CallbackThread == CheckBlock \/ CheckAgain \/ CallBack

Next ==
  \/ Open \/ Opening
  \/ Close \/ Closing
  \/ \E c \in clients, kind \in {"event", "error"} : Deliver(c, kind)
  \/ CallbackThread
  \/ ServiceUp \/ ServiceDown

Spec == Init /\ [][Next]_vars

\* Threads run, and qmi_client_release returns although callbacks of the client
\* keep coming: it lets no new one begin.  Nothing is assumed of the service.
FairSpec ==
  /\ Spec
  /\ WF_vars(Opening) /\ WF_vars(Closing) /\ WF_vars(CallbackThread)
  /\ SF_vars(Release)

-----------------------------------------------------------------------------
\* The callback thread never works on a block that was freed.
NoDanglingCallback == cb.at # "idle" => heap[cb.block].alloc

\* A callback runs only for a client that is open: not between the release of
\* the client and the end of the close, nor for the next user of its memory.
CalledOnlyWhileOpen ==
  cb.at = "call" =>
    /\ heap[cb.block].alloc /\ heap[cb.block].user = cb.id
    /\ \E c \in clients : c.id = cb.id

\* The cookie of every QMI client that may still call back is allocated, in
\* particular after a release that failed.
CookiesAlive == \A c \in clients : heap[c.cookie].alloc

\* The adapter's handle is a complete client, known to QMI by its own address.
HandleIsComplete ==
  owner.at = "idle" /\ owner.handle # NoBlock =>
    /\ heap[owner.handle].me /\ heap[owner.handle].set = Fields
    /\ \E c \in clients : /\ c.id = heap[owner.handle].user
                          /\ c.cookie = owner.handle /\ c.errorCb

\* Between calls blocks and QMI clients belong together, whatever failed on the
\* way: no block is allocated that no client refers to, and no client refers to
\* a block that is not.
NoOrphans ==
  owner.at = "idle" =>
    {b \in Blocks : heap[b].alloc} = {c.cookie : c \in clients}

\* The wait for the service ends when the service is there: its signal is not
\* missed, whenever it comes.
ServiceNoticed ==
  (owner.at = "wait" /\ service.up) ~> (owner.at # "wait" \/ ~service.up)

\* The service stays away for good, or stays for good.
ServiceSettles == <>[](~service.up) \/ <>[](service.up)

\* An open returns, with a client or without, or it waits for a service that
\* never comes: once the service has settled it is stuck nowhere else, and its
\* tries come to an end.
OpenReturnsOrWaits ==
  ServiceSettles =>
    ((owner.at = "alloc") ~>
       (owner.at = "idle" \/ [](owner.at = "wait" /\ ~service.up)))

\* locClientOpen returns, with a client or without.  The comments speak of a
\* fixed time out in the wait for the service; there is none.
OpenReturns == (owner.at = "alloc") ~> (owner.at = "idle")
=============================================================================
