-------------------------- MODULE LocClientProofs --------------------------
(***************************************************************************)
(* Theorems about LocClient, for any memory, any number of opens, retries  *)
(* and restarts of the service, and any faults but one: the error callback *)
(* can be registered.                                                      *)
(***************************************************************************)
EXTENDS LocClient, TLAPS

\* When qmi_client_release waits for callbacks in progress and the error
\* callback can be registered.
SafeQmi == ReleaseWaits = TRUE /\ "error_cb" \notin Faults

-----------------------------------------------------------------------------
(* The inductive invariant *)

\* The steps of open and close that own a block.
WithBlock == {"notifier", "clear", "lookup", "wait", "init", "error_cb", "me",
              "register", "fill", "release", "zero", "free"}

\* ... of these, the ones before and after the life of the QMI client.
WithoutClient == {"notifier", "clear", "lookup", "wait", "init", "zero", "free"}

\* ... and before the block is marked as a client's.
BeforeMe == {"notifier", "clear", "lookup", "wait", "init", "error_cb"}

Connected ==
  \/ owner.at \in {"me", "register", "fill"}
  \/ owner.at = "idle" /\ owner.handle # NoBlock

OwnerInv ==
  /\ owner.at \in WithBlock => owner.block \in Blocks /\ heap[owner.block].alloc
  /\ owner.at \in {"idle", "register", "fill"} => owner.handle = owner.block
  /\ owner.at = "idle" /\ owner.handle # NoBlock => heap[owner.block].alloc

\* QMI clients and the blocks they were given.
ClientsInv ==
  /\ \A c \in clients : c.id < nextId
  /\ \A c, d \in clients : c.id = d.id \/ c.cookie = d.cookie => c = d
  /\ CookiesAlive
  /\ \A c \in clients : heap[c.cookie].me => heap[c.cookie].user = c.id

\* The block under construction belongs to no other client.
OwnBlockInv ==
  /\ owner.at \in WithoutClient => \A c \in clients : c.cookie # owner.block
  /\ \/ owner.at \in WithBlock \ WithoutClient
     \/ owner.at = "idle" /\ owner.handle # NoBlock
     => \A c \in clients : c.cookie = owner.block => c.id = owner.clnt
  /\ owner.at \in BeforeMe => ~heap[owner.block].me
  /\ owner.at = "error_cb" =>
       \E c \in clients : c.id = owner.clnt /\ c.cookie = owner.block

\* What is filled in so far.
FilledInv ==
  /\ Connected =>
       /\ heap[owner.block].user = owner.clnt
       /\ \E c \in clients : /\ c.id = owner.clnt /\ c.cookie = owner.block
                             /\ c.errorCb
  /\ Connected /\ owner.at # "me" => heap[owner.block].me
  /\ owner.at = "fill" => "mask" \in heap[owner.block].set
  /\ owner.at = "idle" /\ owner.handle # NoBlock =>
       heap[owner.block].set = Fields

\* The callback thread holds a client, and its block.
CallbackInv ==
  /\ cb.at # "idle" => \E c \in clients : c.id = cb.id /\ c.cookie = cb.block
  /\ \/ cb.at = "got" /\ cb.kind = "event"
     \/ cb.at = "call"
     => heap[cb.block].me

ClientInv ==
  /\ TypeOK /\ OwnerInv /\ ClientsInv /\ OwnBlockInv /\ FilledInv /\ CallbackInv

-----------------------------------------------------------------------------
(* Types *)

\* Initially every variable has its type.
LEMMA TypeInit == Init => TypeOK
<1> SUFFICES ASSUME Init PROVE TypeOK
  OBVIOUS
<1>1. heap \in [Blocks -> BlockType]
  BY DEF Init, BlockType, Freed, Zeroed, Fields
<1>2. owner \in OwnerType
  BY ClientAssumption DEF Init, OwnerType, OwnerSteps
<1>3. cb \in CbType
  BY DEF Init, CbType
<1>4. service \in [up : BOOLEAN, downs : 0 .. MaxDowns]
  BY ClientAssumption DEF Init
<1>5. clients \subseteq ClientType /\ nextId \in Nat \ {0} /\ sig \in BOOLEAN
  <2>1. clients = {} /\ nextId = 1
    BY DEF Init
  <2>2. sig \in BOOLEAN
    BY Zenon DEF Init
  <2>3. clients \subseteq ClientType
    BY <2>1
  <2>4. nextId \in Nat \ {0}
    BY <2>1
  <2> QED BY <2>2, <2>3, <2>4
<1> QED BY <1>1, <1>2, <1>3, <1>4, <1>5 DEF TypeOK

\* What the thread may do with its own variables.
LEMMA OwnerGoes ==
  ASSUME owner \in OwnerType, NEW step \in OwnerSteps
  PROVE  [owner EXCEPT !.at = step] \in OwnerType
BY DEF OwnerType

\* The same for a close that returns.
LEMMA OwnerForgets ==
  ASSUME owner \in OwnerType, Forget
  PROVE  owner' \in OwnerType
BY DEF OwnerType, Forget, OwnerSteps

\* Every write of the module to a block keeps the type of the heap.
LEMMA BlockChanges ==
  ASSUME heap \in [Blocks -> BlockType], NEW b \in Blocks
  PROVE  /\ Zeroed \in BlockType /\ Freed \in BlockType
         /\ \A u \in Nat : [heap EXCEPT ![b].user = u] \in [Blocks -> BlockType]
         /\ [heap EXCEPT ![b].me = TRUE] \in [Blocks -> BlockType]
         /\ \A f \in Fields :
              [heap EXCEPT ![b].set = @ \cup {f}] \in [Blocks -> BlockType]
<1>1. Zeroed \in BlockType /\ Freed \in BlockType
  BY DEF Zeroed, Freed, BlockType, Fields
<1>2. \A u \in Nat : [heap EXCEPT ![b].user = u] \in [Blocks -> BlockType]
  BY DEF BlockType
<1>3. [heap EXCEPT ![b].me = TRUE] \in [Blocks -> BlockType]
  BY DEF BlockType
<1>4. ASSUME NEW f \in Fields
      PROVE  [heap EXCEPT ![b].set = @ \cup {f}] \in [Blocks -> BlockType]
  BY DEF BlockType
<1> QED BY <1>1, <1>2, <1>3, <1>4

\* A step keeps the types, as long as open and close own their block.
LEMMA TypeStep ==
  ASSUME TypeOK, OwnerInv, [Next]_vars
  PROVE  TypeOK'
<1> USE DEF TypeOK
<1>0. {"alloc", "notifier", "clear", "lookup", "wait", "init", "error_cb", "me",
       "register", "fill", "release", "zero", "free", "failed", "idle"}
        \subseteq OwnerSteps
  BY DEF OwnerSteps
<1>1. CASE Open
  <2> DEFINE count == owner.opens + 1
  <2>2. count \in 0 .. MaxOpens
    BY <1>1, ClientAssumption DEF Open, OwnerType
  <2>3. owner' = [owner EXCEPT !.at = "alloc", !.tries = 1, !.opens = count]
    BY <1>1 DEF Open
  <2> HIDE DEF count
  <2>1. owner' \in OwnerType
    BY <1>0, <2>2, <2>3 DEF OwnerType
  <2> QED BY <1>1, <2>1 DEF Open
<1>2. CASE Calloc
  <2>1. PICK b \in Blocks :
          /\ heap' = [heap EXCEPT ![b] = Zeroed]
          /\ owner' = [owner EXCEPT !.at = "notifier", !.block = b]
    BY <1>2 DEF Calloc
  <2>2. owner' \in OwnerType
    BY <2>1, <1>0 DEF OwnerType
  <2>3. heap' \in [Blocks -> BlockType]
    BY <2>1, BlockChanges
  <2> QED BY <1>2, <2>2, <2>3 DEF Calloc
<1>3. CASE CallocFails \/ NotifierInit \/ LookUp \/ SignalWait
  BY <1>3, <1>0, OwnerGoes
  DEF CallocFails, NotifierInit, LookUp, SignalWait, Goto
<1>4. CASE SignalClear
  BY <1>4, <1>0, OwnerGoes DEF SignalClear, Goto
<1>5. CASE ClientInit
  <2>1. owner.block \in Blocks
    BY <1>5 DEF ClientInit, OwnerInv, WithBlock
  <2>2. owner' \in OwnerType
    BY <1>5, <1>0 DEF ClientInit, OwnerType
  <2>4. [id |-> nextId, cookie |-> owner.block, errorCb |-> FALSE,
         dead |-> FALSE, told |-> FALSE] \in ClientType
    BY <2>1 DEF ClientType
  <2>3. clients' \subseteq ClientType
    BY <1>5, <2>4 DEF ClientInit
  <2> QED BY <1>5, <2>2, <2>3 DEF ClientInit
<1>6. CASE RegisterErrorCb
  <2>4. \A c \in clients : [c EXCEPT !.errorCb = TRUE] \in ClientType
    BY DEF ClientType
  <2>1. clients' \subseteq ClientType
    BY <1>6, <2>4 DEF RegisterErrorCb
  <2>2. owner.block \in Blocks /\ owner.clnt \in Nat
    BY <1>6 DEF RegisterErrorCb, OwnerInv, WithBlock, OwnerType
  <2>3. heap' \in [Blocks -> BlockType]
    BY <1>6, <2>2, BlockChanges DEF RegisterErrorCb
  <2> QED BY <1>6, <1>0, OwnerGoes, <2>1, <2>3 DEF RegisterErrorCb, Goto
<1>7. CASE CtrlPointInitFails
  <2>1. owner.block \in Blocks
    BY <1>7 DEF CtrlPointInitFails, OwnerInv, WithBlock
  <2>2. owner' \in OwnerType
    BY <1>7, <1>0 DEF CtrlPointInitFails, OwnerType
  <2>3. heap' \in [Blocks -> BlockType]
    BY <1>7, <2>1, BlockChanges DEF CtrlPointInitFails
  <2> QED BY <1>7, <2>2, <2>3 DEF CtrlPointInitFails
<1>8. CASE SetMe
  <2>1. owner.block \in Blocks
    BY <1>8 DEF SetMe, OwnerInv, WithBlock
  <2>2. owner' \in OwnerType
    BY <1>8, <1>0 DEF SetMe, OwnerType
  <2>3. heap' \in [Blocks -> BlockType]
    BY <1>8, <2>1, BlockChanges DEF SetMe
  <2> QED BY <1>8, <2>2, <2>3 DEF SetMe
<1>9. CASE RegisterEventMask
  <2>1. owner.block \in Blocks /\ "mask" \in Fields
    BY <1>9 DEF RegisterEventMask, OwnerInv, WithBlock, Fields
  <2>2. heap' \in [Blocks -> BlockType]
    BY <1>9, <2>1, BlockChanges DEF RegisterEventMask
  <2> QED BY <1>9, <1>0, OwnerGoes, <2>2 DEF RegisterEventMask, Goto
<1>10. CASE RegisterFails
  <2>1. owner' \in OwnerType
    BY <1>10, <1>0 DEF RegisterFails, OwnerType
  <2> QED BY <1>10, <2>1 DEF RegisterFails
<1>11. ASSUME NEW n \in 1 .. 4, Fill(n) PROVE TypeOK'
  <2>1. owner.block \in Blocks /\ FillOrder[n] \in Fields
    BY <1>11 DEF Fill, OwnerInv, WithBlock, FillOrder, Fields
  <2>2. heap' \in [Blocks -> BlockType]
    BY <1>11, <2>1, BlockChanges DEF Fill
  <2>3. owner' \in OwnerType
    BY <1>11, <1>0, OwnerGoes DEF Fill, Goto
  <2> QED BY <1>11, <2>2, <2>3 DEF Fill
<1>12. CASE OpenFailed
  <2>2. PICK n \in Nat, step \in {"alloc", "idle"} :
          owner' = [owner EXCEPT !.handle = NoBlock, !.block = NoBlock,
                                 !.clnt = 0, !.tries = n, !.at = step]
    <3>1. owner.tries \in Nat /\ Tries \in Nat
      BY DEF OwnerType, Tries
    <3>2. CASE owner.tries <= LOC_CLIENT_MAX_OPEN_RETRIES
      BY <1>12, <3>1, <3>2 DEF OpenFailed
    <3>3. CASE ~(owner.tries <= LOC_CLIENT_MAX_OPEN_RETRIES)
      BY <1>12, <3>3 DEF OpenFailed
    <3> QED BY <3>2, <3>3
  <2>1. owner' \in OwnerType
    BY <1>0, <2>2 DEF OwnerType
  <2> QED BY <1>12, <2>1 DEF OpenFailed
<1>13. CASE Close
  <2>1. owner' \in OwnerType
    BY <1>13, <1>0 DEF Close, OwnerType
  <2> QED BY <1>13, <2>1 DEF Close
<1>14. CASE Release
  BY <1>14, <1>0, OwnerGoes DEF Release, Goto
<1>15. CASE ReleaseFails
  BY <1>15, OwnerForgets DEF ReleaseFails
<1>16. CASE Memset
  <2>1. heap' \in [Blocks -> BlockType]
    BY <1>16, BlockChanges DEF Memset, OwnerInv, WithBlock
  <2> QED BY <1>16, <1>0, OwnerGoes, <2>1 DEF Memset, Goto
<1>17. CASE Free
  <2>1. heap' \in [Blocks -> BlockType]
    BY <1>17, BlockChanges DEF Free, OwnerInv, WithBlock
  <2> QED BY <1>17, OwnerForgets, <2>1 DEF Free
<1>18. ASSUME NEW c \in clients, NEW kind \in {"event", "error"}, Deliver(c, kind)
       PROVE  TypeOK'
  <2>1. cb' \in CbType
    BY <1>18 DEF Deliver, ClientType, CbType
  <2>2. clients' \subseteq ClientType
    BY <1>18 DEF Deliver, ClientType
  <2> QED BY <1>18, <2>1, <2>2 DEF Deliver
<1>19. CASE CallbackThread
  <2>1. PICK to \in {"idle", "got", "call"} : cb' = [cb EXCEPT !.at = to]
    BY <1>19 DEF CallbackThread, CheckBlock, CheckAgain, CallBack, CallbackGoes
  <2>2. cb' \in CbType
    BY <2>1 DEF CbType
  <2> QED BY <1>19, <2>2
          DEF CallbackThread, CheckBlock, CheckAgain, CallBack, CallbackGoes
<1>20. CASE ServiceUp
  BY <1>20 DEF ServiceUp
<1>21. CASE ServiceDown
  <2>2. \A c \in clients : [c EXCEPT !.dead = TRUE] \in ClientType
    BY DEF ClientType
  <2>1. clients' \subseteq ClientType
    BY <1>21, <2>2 DEF ServiceDown
  <2> QED BY <1>21, <2>1, ClientAssumption DEF ServiceDown
<1>22. CASE UNCHANGED vars
  BY <1>22 DEF vars
<1> QED BY <1>1, <1>2, <1>3, <1>4, <1>5, <1>6, <1>7, <1>8, <1>9, <1>10, <1>11,
           <1>12, <1>13, <1>14, <1>15, <1>16, <1>17, <1>18, <1>19, <1>20, <1>21,
           <1>22
        DEF Next, Opening, Closing

-----------------------------------------------------------------------------
(* The invariant *)

\* The invariant holds initially.
LEMMA ClientStart ==
  ASSUME Init
  PROVE  ClientInv
<1>1. TypeOK
  BY TypeInit
<1>2. OwnerInv /\ OwnBlockInv /\ FilledInv
  BY DEF Init, OwnerInv, OwnBlockInv, FilledInv, WithBlock, WithoutClient,
         BeforeMe, Connected
<1>3. ClientsInv /\ CallbackInv
  BY DEF Init, ClientsInv, CookiesAlive, CallbackInv
<1> QED BY <1>1, <1>2, <1>3 DEF ClientInv


\* Every step keeps the invariant, one step of the proof per action and one
\* leaf per part.
LEMMA ClientStep ==
  ASSUME ClientInv, SafeQmi, [Next]_vars
  PROVE  ClientInv'
<1> USE DEF OwnerType, ClientType, CbType
<1>0. TypeOK /\ TypeOK'
  BY TypeStep DEF ClientInv
<1>a. /\ owner \in OwnerType /\ clients \subseteq ClientType
      /\ heap \in [Blocks -> BlockType] /\ cb \in CbType /\ nextId \in Nat \ {0}
      /\ owner' \in OwnerType /\ clients' \subseteq ClientType /\ cb' \in CbType
      /\ heap' \in [Blocks -> BlockType]
  BY <1>0 DEF TypeOK
<1>b. NoBlock \notin Blocks
  BY ClientAssumption
<1> USE <1>a, <1>b DEF BlockType
<1>1. CASE Open
  <2>1. OwnerInv'
    BY <1>1 DEF Open, Goto, ClientInv, OwnerInv, WithBlock
  <2>2. ClientsInv'
    BY <1>1
    DEF Open, Goto, ClientInv, ClientsInv, CookiesAlive, OwnBlockInv,
        FilledInv, Connected, OwnerInv, WithBlock, WithoutClient, BeforeMe
  <2>3. OwnBlockInv'
    BY <1>1
    DEF Open, Goto, ClientInv, OwnBlockInv, ClientsInv, OwnerInv,
        CookiesAlive, WithBlock, WithoutClient, BeforeMe
  <2>4. FilledInv'
    BY <1>1
    DEF Open, Goto, ClientInv, FilledInv, Connected, OwnerInv, ClientsInv,
        OwnBlockInv, WithBlock, WithoutClient, BeforeMe
  <2>5. CallbackInv'
    BY <1>1
    DEF Open, Goto, ClientInv, CallbackInv, ClientsInv, CookiesAlive,
        OwnerInv, OwnBlockInv, WithBlock, WithoutClient, BeforeMe
  <2> QED BY <1>0, <2>1, <2>2, <2>3, <2>4, <2>5 DEF ClientInv
<1>2. CASE Calloc
  <2>1. OwnerInv'
    BY <1>2 DEF Calloc, Goto, ClientInv, Zeroed, OwnerInv, WithBlock
  <2>2. ClientsInv'
    BY <1>2
    DEF Calloc, Goto, ClientInv, Zeroed, ClientsInv, CookiesAlive,
        OwnBlockInv, FilledInv, Connected, OwnerInv, WithBlock, WithoutClient,
        BeforeMe
  <2>3. OwnBlockInv'
    BY <1>2
    DEF Calloc, Goto, ClientInv, Zeroed, OwnBlockInv, ClientsInv, OwnerInv,
        CookiesAlive, WithBlock, WithoutClient, BeforeMe
  <2>4. FilledInv'
    BY <1>2
    DEF Calloc, Goto, ClientInv, Zeroed, FilledInv, Connected, OwnerInv,
        ClientsInv, OwnBlockInv, WithBlock, WithoutClient, BeforeMe
  <2>5. CallbackInv'
    BY <1>2
    DEF Calloc, Goto, ClientInv, Zeroed, CallbackInv, ClientsInv,
        CookiesAlive, OwnerInv, OwnBlockInv, WithBlock, WithoutClient,
        BeforeMe
  <2> QED BY <1>0, <2>1, <2>2, <2>3, <2>4, <2>5 DEF ClientInv
<1>3. CASE CallocFails
  <2>1. OwnerInv'
    BY <1>3 DEF CallocFails, Goto, ClientInv, OwnerInv, WithBlock
  <2>2. ClientsInv'
    BY <1>3
    DEF CallocFails, Goto, ClientInv, ClientsInv, CookiesAlive, OwnBlockInv,
        FilledInv, Connected, OwnerInv, WithBlock, WithoutClient, BeforeMe
  <2>3. OwnBlockInv'
    BY <1>3
    DEF CallocFails, Goto, ClientInv, OwnBlockInv, ClientsInv, OwnerInv,
        CookiesAlive, WithBlock, WithoutClient, BeforeMe
  <2>4. FilledInv'
    BY <1>3
    DEF CallocFails, Goto, ClientInv, FilledInv, Connected, OwnerInv,
        ClientsInv, OwnBlockInv, WithBlock, WithoutClient, BeforeMe
  <2>5. CallbackInv'
    BY <1>3
    DEF CallocFails, Goto, ClientInv, CallbackInv, ClientsInv, CookiesAlive,
        OwnerInv, OwnBlockInv, WithBlock, WithoutClient, BeforeMe
  <2> QED BY <1>0, <2>1, <2>2, <2>3, <2>4, <2>5 DEF ClientInv
<1>4. CASE NotifierInit
  <2>1. OwnerInv'
    BY <1>4 DEF NotifierInit, Goto, ClientInv, OwnerInv, WithBlock
  <2>2. ClientsInv'
    BY <1>4
    DEF NotifierInit, Goto, ClientInv, ClientsInv, CookiesAlive, OwnBlockInv,
        FilledInv, Connected, OwnerInv, WithBlock, WithoutClient, BeforeMe
  <2>3. OwnBlockInv'
    BY <1>4
    DEF NotifierInit, Goto, ClientInv, OwnBlockInv, ClientsInv, OwnerInv,
        CookiesAlive, WithBlock, WithoutClient, BeforeMe
  <2>4. FilledInv'
    BY <1>4
    DEF NotifierInit, Goto, ClientInv, FilledInv, Connected, OwnerInv,
        ClientsInv, OwnBlockInv, WithBlock, WithoutClient, BeforeMe
  <2>5. CallbackInv'
    BY <1>4
    DEF NotifierInit, Goto, ClientInv, CallbackInv, ClientsInv, CookiesAlive,
        OwnerInv, OwnBlockInv, WithBlock, WithoutClient, BeforeMe
  <2> QED BY <1>0, <2>1, <2>2, <2>3, <2>4, <2>5 DEF ClientInv
<1>5. CASE SignalClear
  <2>1. OwnerInv'
    BY <1>5 DEF SignalClear, Goto, ClientInv, OwnerInv, WithBlock
  <2>2. ClientsInv'
    BY <1>5
    DEF SignalClear, Goto, ClientInv, ClientsInv, CookiesAlive, OwnBlockInv,
        FilledInv, Connected, OwnerInv, WithBlock, WithoutClient, BeforeMe
  <2>3. OwnBlockInv'
    BY <1>5
    DEF SignalClear, Goto, ClientInv, OwnBlockInv, ClientsInv, OwnerInv,
        CookiesAlive, WithBlock, WithoutClient, BeforeMe
  <2>4. FilledInv'
    BY <1>5
    DEF SignalClear, Goto, ClientInv, FilledInv, Connected, OwnerInv,
        ClientsInv, OwnBlockInv, WithBlock, WithoutClient, BeforeMe
  <2>5. CallbackInv'
    BY <1>5
    DEF SignalClear, Goto, ClientInv, CallbackInv, ClientsInv, CookiesAlive,
        OwnerInv, OwnBlockInv, WithBlock, WithoutClient, BeforeMe
  <2> QED BY <1>0, <2>1, <2>2, <2>3, <2>4, <2>5 DEF ClientInv
<1>6. CASE LookUp
  <2>1. OwnerInv'
    BY <1>6 DEF LookUp, Goto, ClientInv, OwnerInv, WithBlock
  <2>2. ClientsInv'
    BY <1>6
    DEF LookUp, Goto, ClientInv, ClientsInv, CookiesAlive, OwnBlockInv,
        FilledInv, Connected, OwnerInv, WithBlock, WithoutClient, BeforeMe
  <2>3. OwnBlockInv'
    BY <1>6
    DEF LookUp, Goto, ClientInv, OwnBlockInv, ClientsInv, OwnerInv,
        CookiesAlive, WithBlock, WithoutClient, BeforeMe
  <2>4. FilledInv'
    BY <1>6
    DEF LookUp, Goto, ClientInv, FilledInv, Connected, OwnerInv, ClientsInv,
        OwnBlockInv, WithBlock, WithoutClient, BeforeMe
  <2>5. CallbackInv'
    BY <1>6
    DEF LookUp, Goto, ClientInv, CallbackInv, ClientsInv, CookiesAlive,
        OwnerInv, OwnBlockInv, WithBlock, WithoutClient, BeforeMe
  <2> QED BY <1>0, <2>1, <2>2, <2>3, <2>4, <2>5 DEF ClientInv
<1>7. CASE SignalWait
  <2>1. OwnerInv'
    BY <1>7 DEF SignalWait, Goto, ClientInv, OwnerInv, WithBlock
  <2>2. ClientsInv'
    BY <1>7
    DEF SignalWait, Goto, ClientInv, ClientsInv, CookiesAlive, OwnBlockInv,
        FilledInv, Connected, OwnerInv, WithBlock, WithoutClient, BeforeMe
  <2>3. OwnBlockInv'
    BY <1>7
    DEF SignalWait, Goto, ClientInv, OwnBlockInv, ClientsInv, OwnerInv,
        CookiesAlive, WithBlock, WithoutClient, BeforeMe
  <2>4. FilledInv'
    BY <1>7
    DEF SignalWait, Goto, ClientInv, FilledInv, Connected, OwnerInv,
        ClientsInv, OwnBlockInv, WithBlock, WithoutClient, BeforeMe
  <2>5. CallbackInv'
    BY <1>7
    DEF SignalWait, Goto, ClientInv, CallbackInv, ClientsInv, CookiesAlive,
        OwnerInv, OwnBlockInv, WithBlock, WithoutClient, BeforeMe
  <2> QED BY <1>0, <2>1, <2>2, <2>3, <2>4, <2>5 DEF ClientInv
<1>8. CASE ClientInit
  <2> DEFINE new == [id |-> nextId, cookie |-> owner.block, errorCb |-> FALSE,
                     dead |-> FALSE, told |-> FALSE]
  <2>0. clients' = clients \cup {new} /\ new.id = nextId /\ new.cookie = owner.block
    BY <1>8 DEF ClientInit
  <2>8. /\ nextId' = nextId + 1 /\ heap' = heap /\ owner.at = "init"
         /\ owner'.at = "error_cb" /\ owner'.clnt = nextId
         /\ owner'.block = owner.block
    BY <1>8 DEF ClientInit
  <2> HIDE DEF new
  <2>1. OwnerInv'
    BY <1>8 DEF ClientInit, Goto, ClientInv, OwnerInv, WithBlock
  <2>9. \A c \in clients : c.id < nextId /\ c.id # nextId /\ c.cookie # owner.block
    <3>1. \A c \in clients : c.id \in Nat /\ c.id < nextId
      BY DEF ClientInv, ClientsInv
    <3>2. \A c \in clients : c.cookie # owner.block
      BY <2>8 DEF ClientInv, OwnBlockInv, WithoutClient, BeforeMe
    <3> QED BY <3>1, <3>2
  <2>2. ClientsInv'
    <3>1. (\A c \in clients : c.id < nextId)'
      BY <2>0, <2>8, <2>9
    <3>2. (\A c, d \in clients : c.id = d.id \/ c.cookie = d.cookie => c = d)'
      BY <2>0, <2>9 DEF ClientInv, ClientsInv
    <3>3. CookiesAlive'
      BY <2>0, <2>8
      DEF ClientInv, ClientsInv, CookiesAlive, OwnerInv, WithBlock
    <3>4. (\A c \in clients : heap[c.cookie].me => heap[c.cookie].user = c.id)'
      BY <2>0, <2>8 DEF ClientInv, ClientsInv, OwnBlockInv, BeforeMe
    <3> QED BY <3>1, <3>2, <3>3, <3>4 DEF ClientsInv
  <2>3. OwnBlockInv'
    BY <2>0, <2>8, <2>9
    DEF ClientInv, OwnBlockInv, WithBlock, WithoutClient, BeforeMe
  <2>4. FilledInv'
    BY <1>8
    DEF ClientInit, Goto, ClientInv, FilledInv, Connected, OwnerInv,
        ClientsInv, OwnBlockInv, WithBlock, WithoutClient, BeforeMe
  <2>5. CallbackInv'
    BY <1>8
    DEF ClientInit, Goto, ClientInv, CallbackInv, ClientsInv, CookiesAlive,
        OwnerInv, OwnBlockInv, WithBlock, WithoutClient, BeforeMe
  <2> QED BY <1>0, <2>1, <2>2, <2>3, <2>4, <2>5 DEF ClientInv
<1>9. CASE RegisterErrorCb
  <2>0. /\ \A c \in clients : \E d \in clients' :
             /\ d.id = c.id /\ d.cookie = c.cookie
             /\ c.errorCb \/ c.id = owner.clnt => d.errorCb
        /\ \A d \in clients' : \E c \in clients : d.id = c.id /\ d.cookie = c.cookie
    <3> DEFINE D(c) == IF c.id = owner.clnt THEN [c EXCEPT !.errorCb = TRUE] ELSE c
    <3>1. \A c \in clients :
            /\ D(c).id = c.id /\ D(c).cookie = c.cookie
            /\ c.errorCb \/ c.id = owner.clnt => D(c).errorCb
      OBVIOUS
    <3>2. clients' = {D(c) : c \in clients}
      BY <1>9 DEF RegisterErrorCb
    <3> HIDE DEF D
    <3> QED BY <3>1, <3>2
  <2>8. /\ owner.at = "error_cb" /\ owner'.at = "me" /\ cb' = cb
         /\ owner'.block = owner.block /\ owner'.clnt = owner.clnt
         /\ heap' = [heap EXCEPT ![owner.block].user = owner.clnt]
    BY <1>9 DEF RegisterErrorCb, Goto
  <2>1. OwnerInv'
    BY <1>9 DEF RegisterErrorCb, Goto, ClientInv, OwnerInv, WithBlock
  <2>2. ClientsInv'
    BY <1>9
    DEF RegisterErrorCb, Goto, ClientInv, ClientsInv, CookiesAlive,
        OwnBlockInv, FilledInv, Connected, OwnerInv, WithBlock, WithoutClient,
        BeforeMe
  <2>3. OwnBlockInv'
    BY <1>9
    DEF RegisterErrorCb, Goto, ClientInv, OwnBlockInv, ClientsInv, OwnerInv,
        CookiesAlive, WithBlock, WithoutClient, BeforeMe
  <2>4. FilledInv'
    BY <2>0, <2>8
    DEF ClientInv, FilledInv, Connected, OwnerInv, ClientsInv, OwnBlockInv,
        WithBlock, WithoutClient, BeforeMe
  <2>5. CallbackInv'
    BY <2>0, <2>8
    DEF ClientInv, CallbackInv, ClientsInv, CookiesAlive, OwnerInv,
        OwnBlockInv, WithBlock, WithoutClient, BeforeMe
  <2> QED BY <1>0, <2>1, <2>2, <2>3, <2>4, <2>5 DEF ClientInv
<1>10. CASE CtrlPointInitFails
  <2>1. OwnerInv'
    BY <1>10
    DEF CtrlPointInitFails, Goto, ClientInv, Freed, Zeroed, MayFail, OwnerInv,
        WithBlock, SafeQmi
  <2>2. ClientsInv'
    BY <1>10
    DEF CtrlPointInitFails, Goto, ClientInv, Freed, Zeroed, MayFail,
        ClientsInv, CookiesAlive, OwnBlockInv, FilledInv, Connected, OwnerInv,
        WithBlock, WithoutClient, BeforeMe, SafeQmi
  <2>3. OwnBlockInv'
    BY <1>10
    DEF CtrlPointInitFails, Goto, ClientInv, Freed, Zeroed, MayFail,
        OwnBlockInv, ClientsInv, OwnerInv, CookiesAlive, WithBlock,
        WithoutClient, BeforeMe, SafeQmi
  <2>4. FilledInv'
    BY <1>10
    DEF CtrlPointInitFails, Goto, ClientInv, Freed, Zeroed, MayFail,
        FilledInv, Connected, OwnerInv, ClientsInv, OwnBlockInv, WithBlock,
        WithoutClient, BeforeMe, SafeQmi
  <2>5. CallbackInv'
    BY <1>10
    DEF CtrlPointInitFails, Goto, ClientInv, Freed, Zeroed, MayFail,
        CallbackInv, ClientsInv, CookiesAlive, OwnerInv, OwnBlockInv,
        WithBlock, WithoutClient, BeforeMe, SafeQmi
  <2> QED BY <1>0, <2>1, <2>2, <2>3, <2>4, <2>5 DEF ClientInv
<1>11. CASE SetMe
  <2>1. OwnerInv'
    BY <1>11 DEF SetMe, Goto, ClientInv, OwnerInv, WithBlock
  <2>2. ClientsInv'
    BY <1>11
    DEF SetMe, Goto, ClientInv, ClientsInv, CookiesAlive, OwnBlockInv,
        FilledInv, Connected, OwnerInv, WithBlock, WithoutClient, BeforeMe
  <2>3. OwnBlockInv'
    BY <1>11
    DEF SetMe, Goto, ClientInv, OwnBlockInv, ClientsInv, OwnerInv,
        CookiesAlive, WithBlock, WithoutClient, BeforeMe
  <2>4. FilledInv'
    BY <1>11
    DEF SetMe, Goto, ClientInv, FilledInv, Connected, OwnerInv, ClientsInv,
        OwnBlockInv, WithBlock, WithoutClient, BeforeMe
  <2>5. CallbackInv'
    BY <1>11
    DEF SetMe, Goto, ClientInv, CallbackInv, ClientsInv, CookiesAlive,
        OwnerInv, OwnBlockInv, WithBlock, WithoutClient, BeforeMe
  <2> QED BY <1>0, <2>1, <2>2, <2>3, <2>4, <2>5 DEF ClientInv
<1>12. CASE RegisterEventMask
  <2>1. OwnerInv'
    BY <1>12 DEF RegisterEventMask, Goto, ClientInv, OwnerInv, WithBlock, Fields
  <2>2. ClientsInv'
    BY <1>12
    DEF RegisterEventMask, Goto, ClientInv, ClientsInv, CookiesAlive,
        OwnBlockInv, FilledInv, Connected, OwnerInv, WithBlock, WithoutClient,
        BeforeMe, Fields
  <2>3. OwnBlockInv'
    BY <1>12
    DEF RegisterEventMask, Goto, ClientInv, OwnBlockInv, ClientsInv, OwnerInv,
        CookiesAlive, WithBlock, WithoutClient, BeforeMe, Fields
  <2>4. FilledInv'
    BY <1>12
    DEF RegisterEventMask, Goto, ClientInv, FilledInv, Connected, OwnerInv,
        ClientsInv, OwnBlockInv, WithBlock, WithoutClient, BeforeMe, Fields
  <2>5. CallbackInv'
    BY <1>12
    DEF RegisterEventMask, Goto, ClientInv, CallbackInv, ClientsInv,
        CookiesAlive, OwnerInv, OwnBlockInv, WithBlock, WithoutClient,
        BeforeMe, Fields
  <2> QED BY <1>0, <2>1, <2>2, <2>3, <2>4, <2>5 DEF ClientInv
<1>13. CASE RegisterFails
  <2>1. OwnerInv'
    BY <1>13 DEF RegisterFails, Goto, ClientInv, OwnerInv, WithBlock
  <2>2. ClientsInv'
    BY <1>13
    DEF RegisterFails, Goto, ClientInv, ClientsInv, CookiesAlive, OwnBlockInv,
        FilledInv, Connected, OwnerInv, WithBlock, WithoutClient, BeforeMe
  <2>3. OwnBlockInv'
    BY <1>13
    DEF RegisterFails, Goto, ClientInv, OwnBlockInv, ClientsInv, OwnerInv,
        CookiesAlive, WithBlock, WithoutClient, BeforeMe
  <2>4. FilledInv'
    BY <1>13
    DEF RegisterFails, Goto, ClientInv, FilledInv, Connected, OwnerInv,
        ClientsInv, OwnBlockInv, WithBlock, WithoutClient, BeforeMe
  <2>5. CallbackInv'
    BY <1>13
    DEF RegisterFails, Goto, ClientInv, CallbackInv, ClientsInv, CookiesAlive,
        OwnerInv, OwnBlockInv, WithBlock, WithoutClient, BeforeMe
  <2> QED BY <1>0, <2>1, <2>2, <2>3, <2>4, <2>5 DEF ClientInv
<1>14. CASE OpenFailed
  <2>1. OwnerInv'
    BY <1>14 DEF OpenFailed, Goto, ClientInv, Tries, OwnerInv, WithBlock
  <2>2. ClientsInv'
    BY <1>14
    DEF OpenFailed, Goto, ClientInv, Tries, ClientsInv, CookiesAlive,
        OwnBlockInv, FilledInv, Connected, OwnerInv, WithBlock, WithoutClient,
        BeforeMe
  <2>3. OwnBlockInv'
    BY <1>14
    DEF OpenFailed, Goto, ClientInv, Tries, OwnBlockInv, ClientsInv, OwnerInv,
        CookiesAlive, WithBlock, WithoutClient, BeforeMe
  <2>4. FilledInv'
    BY <1>14
    DEF OpenFailed, Goto, ClientInv, Tries, FilledInv, Connected, OwnerInv,
        ClientsInv, OwnBlockInv, WithBlock, WithoutClient, BeforeMe
  <2>5. CallbackInv'
    BY <1>14
    DEF OpenFailed, Goto, ClientInv, Tries, CallbackInv, ClientsInv,
        CookiesAlive, OwnerInv, OwnBlockInv, WithBlock, WithoutClient,
        BeforeMe
  <2> QED BY <1>0, <2>1, <2>2, <2>3, <2>4, <2>5 DEF ClientInv
<1>15. CASE Close
  <2>1. OwnerInv'
    BY <1>15 DEF Close, Goto, ClientInv, OwnerInv, WithBlock
  <2>2. ClientsInv'
    BY <1>15
    DEF Close, Goto, ClientInv, ClientsInv, CookiesAlive, OwnBlockInv,
        FilledInv, Connected, OwnerInv, WithBlock, WithoutClient, BeforeMe
  <2>3. OwnBlockInv'
    BY <1>15
    DEF Close, Goto, ClientInv, OwnBlockInv, ClientsInv, OwnerInv,
        CookiesAlive, WithBlock, WithoutClient, BeforeMe
  <2>4. FilledInv'
    BY <1>15
    DEF Close, Goto, ClientInv, FilledInv, Connected, OwnerInv, ClientsInv,
        OwnBlockInv, WithBlock, WithoutClient, BeforeMe
  <2>5. CallbackInv'
    BY <1>15
    DEF Close, Goto, ClientInv, CallbackInv, ClientsInv, CookiesAlive,
        OwnerInv, OwnBlockInv, WithBlock, WithoutClient, BeforeMe
  <2> QED BY <1>0, <2>1, <2>2, <2>3, <2>4, <2>5 DEF ClientInv
<1>16. CASE Release
  <2>1. OwnerInv'
    BY <1>16 DEF Release, Goto, ClientInv, OwnerInv, WithBlock
  <2>2. ClientsInv'
    BY <1>16
    DEF Release, Goto, ClientInv, ClientsInv, CookiesAlive, OwnBlockInv,
        FilledInv, Connected, OwnerInv, WithBlock, WithoutClient, BeforeMe
  <2>3. OwnBlockInv'
    BY <1>16
    DEF Release, Goto, ClientInv, OwnBlockInv, ClientsInv, OwnerInv,
        CookiesAlive, WithBlock, WithoutClient, BeforeMe
  <2>4. FilledInv'
    BY <1>16
    DEF Release, Goto, ClientInv, FilledInv, Connected, OwnerInv, ClientsInv,
        OwnBlockInv, WithBlock, WithoutClient, BeforeMe
  <2>5. CallbackInv'
    <3>1. /\ heap' = heap /\ cb' = cb
          /\ cb.at = "idle" \/ cb.id # owner.clnt
          /\ \A c \in clients : c.id # owner.clnt => c \in clients'
      BY <1>16 DEF Release, SafeQmi
    <3> QED BY <3>1 DEF ClientInv, CallbackInv
  <2> QED BY <1>0, <2>1, <2>2, <2>3, <2>4, <2>5 DEF ClientInv
<1>17. CASE ReleaseFails
  <2>1. OwnerInv'
    BY <1>17 DEF ReleaseFails, Goto, ClientInv, Forget, OwnerInv, WithBlock
  <2>2. ClientsInv'
    BY <1>17
    DEF ReleaseFails, Goto, ClientInv, Forget, ClientsInv, CookiesAlive,
        OwnBlockInv, FilledInv, Connected, OwnerInv, WithBlock, WithoutClient,
        BeforeMe
  <2>3. OwnBlockInv'
    BY <1>17
    DEF ReleaseFails, Goto, ClientInv, Forget, OwnBlockInv, ClientsInv,
        OwnerInv, CookiesAlive, WithBlock, WithoutClient, BeforeMe
  <2>4. FilledInv'
    BY <1>17
    DEF ReleaseFails, Goto, ClientInv, Forget, FilledInv, Connected, OwnerInv,
        ClientsInv, OwnBlockInv, WithBlock, WithoutClient, BeforeMe
  <2>5. CallbackInv'
    BY <1>17
    DEF ReleaseFails, Goto, ClientInv, Forget, CallbackInv, ClientsInv,
        CookiesAlive, OwnerInv, OwnBlockInv, WithBlock, WithoutClient,
        BeforeMe
  <2> QED BY <1>0, <2>1, <2>2, <2>3, <2>4, <2>5 DEF ClientInv
<1>18. CASE Memset
  <2>1. OwnerInv'
    BY <1>18 DEF Memset, Goto, ClientInv, Zeroed, OwnerInv, WithBlock
  <2>2. ClientsInv'
    BY <1>18
    DEF Memset, Goto, ClientInv, Zeroed, ClientsInv, CookiesAlive,
        OwnBlockInv, FilledInv, Connected, OwnerInv, WithBlock, WithoutClient,
        BeforeMe
  <2>3. OwnBlockInv'
    BY <1>18
    DEF Memset, Goto, ClientInv, Zeroed, OwnBlockInv, ClientsInv, OwnerInv,
        CookiesAlive, WithBlock, WithoutClient, BeforeMe
  <2>4. FilledInv'
    BY <1>18
    DEF Memset, Goto, ClientInv, Zeroed, FilledInv, Connected, OwnerInv,
        ClientsInv, OwnBlockInv, WithBlock, WithoutClient, BeforeMe
  <2>5. CallbackInv'
    BY <1>18
    DEF Memset, Goto, ClientInv, Zeroed, CallbackInv, ClientsInv,
        CookiesAlive, OwnerInv, OwnBlockInv, WithBlock, WithoutClient,
        BeforeMe
  <2> QED BY <1>0, <2>1, <2>2, <2>3, <2>4, <2>5 DEF ClientInv
<1>19. CASE Free
  <2>1. OwnerInv'
    BY <1>19
    DEF Free, Goto, ClientInv, Forget, Freed, Zeroed, OwnerInv, WithBlock
  <2>2. ClientsInv'
    BY <1>19
    DEF Free, Goto, ClientInv, Forget, Freed, Zeroed, ClientsInv,
        CookiesAlive, OwnBlockInv, FilledInv, Connected, OwnerInv, WithBlock,
        WithoutClient, BeforeMe
  <2>3. OwnBlockInv'
    BY <1>19
    DEF Free, Goto, ClientInv, Forget, Freed, Zeroed, OwnBlockInv, ClientsInv,
        OwnerInv, CookiesAlive, WithBlock, WithoutClient, BeforeMe
  <2>4. FilledInv'
    BY <1>19
    DEF Free, Goto, ClientInv, Forget, Freed, Zeroed, FilledInv, Connected,
        OwnerInv, ClientsInv, OwnBlockInv, WithBlock, WithoutClient, BeforeMe
  <2>5. CallbackInv'
    BY <1>19
    DEF Free, Goto, ClientInv, Forget, Freed, Zeroed, CallbackInv, ClientsInv,
        CookiesAlive, OwnerInv, OwnBlockInv, WithBlock, WithoutClient,
        BeforeMe
  <2> QED BY <1>0, <2>1, <2>2, <2>3, <2>4, <2>5 DEF ClientInv
<1>20. CASE CheckBlock
  <2>1. OwnerInv'
    BY <1>20
    DEF CheckBlock, Goto, ClientInv, CallbackGoes, Accepts, Reads, OwnerInv,
        WithBlock
  <2>2. ClientsInv'
    BY <1>20
    DEF CheckBlock, Goto, ClientInv, CallbackGoes, Accepts, Reads, ClientsInv,
        CookiesAlive, OwnBlockInv, FilledInv, Connected, OwnerInv, WithBlock,
        WithoutClient, BeforeMe
  <2>3. OwnBlockInv'
    BY <1>20
    DEF CheckBlock, Goto, ClientInv, CallbackGoes, Accepts, Reads,
        OwnBlockInv, ClientsInv, OwnerInv, CookiesAlive, WithBlock,
        WithoutClient, BeforeMe
  <2>4. FilledInv'
    BY <1>20
    DEF CheckBlock, Goto, ClientInv, CallbackGoes, Accepts, Reads, FilledInv,
        Connected, OwnerInv, ClientsInv, OwnBlockInv, WithBlock,
        WithoutClient, BeforeMe
  <2>5. CallbackInv'
    BY <1>20
    DEF CheckBlock, Goto, ClientInv, CallbackGoes, Accepts, Reads,
        CallbackInv, ClientsInv, CookiesAlive, OwnerInv, OwnBlockInv,
        WithBlock, WithoutClient, BeforeMe
  <2> QED BY <1>0, <2>1, <2>2, <2>3, <2>4, <2>5 DEF ClientInv
<1>21. CASE CheckAgain
  <2>1. OwnerInv'
    BY <1>21
    DEF CheckAgain, Goto, ClientInv, CallbackGoes, StillThere, Reads,
        OwnerInv, WithBlock
  <2>2. ClientsInv'
    BY <1>21
    DEF CheckAgain, Goto, ClientInv, CallbackGoes, StillThere, Reads,
        ClientsInv, CookiesAlive, OwnBlockInv, FilledInv, Connected, OwnerInv,
        WithBlock, WithoutClient, BeforeMe
  <2>3. OwnBlockInv'
    BY <1>21
    DEF CheckAgain, Goto, ClientInv, CallbackGoes, StillThere, Reads,
        OwnBlockInv, ClientsInv, OwnerInv, CookiesAlive, WithBlock,
        WithoutClient, BeforeMe
  <2>4. FilledInv'
    BY <1>21
    DEF CheckAgain, Goto, ClientInv, CallbackGoes, StillThere, Reads,
        FilledInv, Connected, OwnerInv, ClientsInv, OwnBlockInv, WithBlock,
        WithoutClient, BeforeMe
  <2>5. CallbackInv'
    BY <1>21
    DEF CheckAgain, Goto, ClientInv, CallbackGoes, StillThere, Reads,
        CallbackInv, ClientsInv, CookiesAlive, OwnerInv, OwnBlockInv,
        WithBlock, WithoutClient, BeforeMe
  <2> QED BY <1>0, <2>1, <2>2, <2>3, <2>4, <2>5 DEF ClientInv
<1>22. CASE CallBack
  <2>1. OwnerInv'
    BY <1>22 DEF CallBack, Goto, ClientInv, CallbackGoes, OwnerInv, WithBlock
  <2>2. ClientsInv'
    BY <1>22
    DEF CallBack, Goto, ClientInv, CallbackGoes, ClientsInv, CookiesAlive,
        OwnBlockInv, FilledInv, Connected, OwnerInv, WithBlock, WithoutClient,
        BeforeMe
  <2>3. OwnBlockInv'
    BY <1>22
    DEF CallBack, Goto, ClientInv, CallbackGoes, OwnBlockInv, ClientsInv,
        OwnerInv, CookiesAlive, WithBlock, WithoutClient, BeforeMe
  <2>4. FilledInv'
    BY <1>22
    DEF CallBack, Goto, ClientInv, CallbackGoes, FilledInv, Connected,
        OwnerInv, ClientsInv, OwnBlockInv, WithBlock, WithoutClient, BeforeMe
  <2>5. CallbackInv'
    BY <1>22
    DEF CallBack, Goto, ClientInv, CallbackGoes, CallbackInv, ClientsInv,
        CookiesAlive, OwnerInv, OwnBlockInv, WithBlock, WithoutClient,
        BeforeMe
  <2> QED BY <1>0, <2>1, <2>2, <2>3, <2>4, <2>5 DEF ClientInv
<1>23. CASE ServiceUp
  <2>1. OwnerInv'
    BY <1>23 DEF ServiceUp, Goto, ClientInv, OwnerInv, WithBlock
  <2>2. ClientsInv'
    BY <1>23
    DEF ServiceUp, Goto, ClientInv, ClientsInv, CookiesAlive, OwnBlockInv,
        FilledInv, Connected, OwnerInv, WithBlock, WithoutClient, BeforeMe
  <2>3. OwnBlockInv'
    BY <1>23
    DEF ServiceUp, Goto, ClientInv, OwnBlockInv, ClientsInv, OwnerInv,
        CookiesAlive, WithBlock, WithoutClient, BeforeMe
  <2>4. FilledInv'
    BY <1>23
    DEF ServiceUp, Goto, ClientInv, FilledInv, Connected, OwnerInv,
        ClientsInv, OwnBlockInv, WithBlock, WithoutClient, BeforeMe
  <2>5. CallbackInv'
    BY <1>23
    DEF ServiceUp, Goto, ClientInv, CallbackInv, ClientsInv, CookiesAlive,
        OwnerInv, OwnBlockInv, WithBlock, WithoutClient, BeforeMe
  <2> QED BY <1>0, <2>1, <2>2, <2>3, <2>4, <2>5 DEF ClientInv
<1>24. CASE ServiceDown
  <2>0. /\ \A c \in clients : \E d \in clients' :
             d.id = c.id /\ d.cookie = c.cookie /\ (c.errorCb => d.errorCb)
        /\ \A d \in clients' : \E c \in clients : d.id = c.id /\ d.cookie = c.cookie
    <3> DEFINE D(c) == [c EXCEPT !.dead = TRUE]
    <3>1. \A c \in clients :
            D(c).id = c.id /\ D(c).cookie = c.cookie /\ D(c).errorCb = c.errorCb
      OBVIOUS
    <3>2. clients' = {D(c) : c \in clients}
      BY <1>24 DEF ServiceDown
    <3> HIDE DEF D
    <3> QED BY <3>1, <3>2
  <2>8. heap' = heap /\ owner' = owner /\ cb' = cb
    BY <1>24 DEF ServiceDown
  <2>1. OwnerInv'
    BY <1>24 DEF ServiceDown, Goto, ClientInv, OwnerInv, WithBlock
  <2>2. ClientsInv'
    BY <1>24
    DEF ServiceDown, Goto, ClientInv, ClientsInv, CookiesAlive, OwnBlockInv,
        FilledInv, Connected, OwnerInv, WithBlock, WithoutClient, BeforeMe
  <2>3. OwnBlockInv'
    BY <2>0, <2>8
    DEF ClientInv, OwnBlockInv, ClientsInv, OwnerInv, CookiesAlive, WithBlock,
        WithoutClient, BeforeMe
  <2>4. FilledInv'
    BY <2>0, <2>8
    DEF ClientInv, FilledInv, Connected, OwnerInv, ClientsInv, OwnBlockInv,
        WithBlock, WithoutClient, BeforeMe
  <2>5. CallbackInv'
    BY <2>0, <2>8
    DEF ClientInv, CallbackInv, ClientsInv, CookiesAlive, OwnerInv,
        OwnBlockInv, WithBlock, WithoutClient, BeforeMe
  <2> QED BY <1>0, <2>1, <2>2, <2>3, <2>4, <2>5 DEF ClientInv
<1>25. ASSUME NEW n \in 1 .. 4, Fill(n) PROVE ClientInv'
  <2>1. OwnerInv'
    BY <1>25 DEF Fill, Goto, ClientInv, OwnerInv, WithBlock, FillOrder, Fields
  <2>2. ClientsInv'
    BY <1>25
    DEF Fill, Goto, ClientInv, ClientsInv, CookiesAlive, OwnBlockInv,
        FilledInv, Connected, OwnerInv, WithBlock, WithoutClient, BeforeMe,
        FillOrder, Fields
  <2>3. OwnBlockInv'
    BY <1>25
    DEF Fill, Goto, ClientInv, OwnBlockInv, ClientsInv, OwnerInv,
        CookiesAlive, WithBlock, WithoutClient, BeforeMe, FillOrder, Fields
  <2>4. FilledInv'
    BY <1>25
    DEF Fill, Goto, ClientInv, FilledInv, Connected, OwnerInv, ClientsInv,
        OwnBlockInv, WithBlock, WithoutClient, BeforeMe, FillOrder, Fields
  <2>5. CallbackInv'
    BY <1>25
    DEF Fill, Goto, ClientInv, CallbackInv, ClientsInv, CookiesAlive,
        OwnerInv, OwnBlockInv, WithBlock, WithoutClient, BeforeMe, FillOrder,
        Fields
  <2> QED BY <1>0, <2>1, <2>2, <2>3, <2>4, <2>5 DEF ClientInv
<1>26. ASSUME NEW c \in clients, NEW kind \in {"event", "error"}, Deliver(c, kind)
  PROVE ClientInv'
  <2>0. /\ \A x \in clients : \E d \in clients' :
             d.id = x.id /\ d.cookie = x.cookie /\ (x.errorCb => d.errorCb)
        /\ \A d \in clients' : \E x \in clients : d.id = x.id /\ d.cookie = x.cookie
    <3>1. CASE kind = "event"
      BY <1>26, <3>1 DEF Deliver
    <3>2. CASE kind = "error"
      <4> DEFINE told == [c EXCEPT !.told = TRUE]
      <4>1. told.id = c.id /\ told.cookie = c.cookie /\ told.errorCb = c.errorCb
        OBVIOUS
      <4>2. clients' = (clients \ {c}) \cup {told}
        BY <1>26, <3>2 DEF Deliver
      <4> HIDE DEF told
      <4> QED BY <4>1, <4>2
    <3> QED BY <3>1, <3>2
  <2>1. OwnerInv'
    BY <1>26 DEF Deliver, Goto, ClientInv, OwnerInv, WithBlock
  <2>2. ClientsInv'
    BY <1>26
    DEF Deliver, Goto, ClientInv, ClientsInv, CookiesAlive, OwnBlockInv,
        FilledInv, Connected, OwnerInv, WithBlock, WithoutClient, BeforeMe
  <2>3. OwnBlockInv'
    BY <2>0, <1>26
    DEF Deliver, Goto, ClientInv, OwnBlockInv, ClientsInv, OwnerInv,
        CookiesAlive, WithBlock, WithoutClient, BeforeMe
  <2>4. FilledInv'
    BY <2>0, <1>26
    DEF Deliver, Goto, ClientInv, FilledInv, Connected, OwnerInv, ClientsInv,
        OwnBlockInv, WithBlock, WithoutClient, BeforeMe
  <2>5. CallbackInv'
    BY <2>0, <1>26
    DEF Deliver, Goto, ClientInv, CallbackInv, ClientsInv, CookiesAlive,
        OwnerInv, OwnBlockInv, WithBlock, WithoutClient, BeforeMe
  <2> QED BY <1>0, <2>1, <2>2, <2>3, <2>4, <2>5 DEF ClientInv
<1>90. CASE UNCHANGED vars
  BY <1>90, <1>0
  DEF vars, ClientInv, OwnerInv, ClientsInv, OwnBlockInv, FilledInv,
     CallbackInv, CookiesAlive, Connected
<1> QED BY <1>1, <1>2, <1>3, <1>4, <1>5, <1>6, <1>7, <1>8, <1>9, <1>10, <1>11,
           <1>12, <1>13, <1>14, <1>15, <1>16, <1>17, <1>18, <1>19, <1>20, <1>21,
           <1>22, <1>23, <1>24, <1>25, <1>26, <1>90
        DEF Next, Opening, Closing, CallbackThread

\* The invariant of every behaviour.
LEMMA ClientInvariant ==
  ASSUME SafeQmi
  PROVE  Spec => []ClientInv
<1>1. Init => ClientInv
  BY ClientStart
<1>2. ClientInv /\ [Next]_vars => ClientInv'
  BY ClientStep
<1> QED BY <1>1, <1>2, PTL DEF Spec

-----------------------------------------------------------------------------
\* The variables keep their types; in particular no thread follows the null
\* pointer into the heap.
THEOREM TypeCorrect ==
  ASSUME SafeQmi
  PROVE  Spec => []TypeOK
<1>1. ClientInv => TypeOK
  BY DEF ClientInv
<1> QED BY <1>1, ClientInvariant, PTL

\* The cookie of every QMI client that is alive is an allocated block, also
\* after a release that failed and when addresses are used again.
THEOREM CookiesStayAlive ==
  ASSUME SafeQmi
  PROVE  Spec => []CookiesAlive
<1>1. ClientInv => CookiesAlive
  BY DEF ClientInv, ClientsInv
<1> QED BY <1>1, ClientInvariant, PTL

\* The callback thread never works on a freed block.
THEOREM CallbackHasBlock ==
  ASSUME SafeQmi
  PROVE  Spec => []NoDanglingCallback
<1>1. ClientInv => NoDanglingCallback
  BY DEF ClientInv, ClientsInv, CookiesAlive, CallbackInv, NoDanglingCallback
<1> QED BY <1>1, ClientInvariant, PTL

\* A callback runs only for a client that is open, never for the next user of
\* its memory: together with CallbackHasBlock, the promise of the comments on
\* the race between close and the callbacks.
THEOREM CallbackOfOpenClient ==
  ASSUME SafeQmi
  PROVE  Spec => []CalledOnlyWhileOpen
<1>1. ASSUME ClientInv PROVE CalledOnlyWhileOpen
  <2>1. SUFFICES ASSUME cb.at = "call"
                 PROVE  /\ heap[cb.block].alloc /\ heap[cb.block].user = cb.id
                        /\ \E c \in clients : c.id = cb.id
    BY DEF CalledOnlyWhileOpen
  <2>2. PICK c \in clients : c.id = cb.id /\ c.cookie = cb.block
    BY <1>1, <2>1 DEF ClientInv, CallbackInv
  <2>3. heap[cb.block].me
    BY <1>1, <2>1 DEF ClientInv, CallbackInv
  <2>4. heap[cb.block].alloc /\ heap[cb.block].user = cb.id
    BY <1>1, <2>2, <2>3 DEF ClientInv, ClientsInv, CookiesAlive
  <2> QED BY <2>2, <2>4
<1> QED BY <1>1, ClientInvariant, PTL

\* A handle the adapter holds between calls is a complete client.
THEOREM HandleStaysComplete ==
  ASSUME SafeQmi
  PROVE  Spec => []HandleIsComplete
<1>1. ClientInv => HandleIsComplete
  BY DEF ClientInv, OwnerInv, FilledInv, Connected, HandleIsComplete
<1> QED BY <1>1, ClientInvariant, PTL

-----------------------------------------------------------------------------
(* Blocks and clients belong together *)

HasClient(b) == \E c \in clients : c.cookie = b

\* A block is allocated for a QMI client that refers to it, or for the thread
\* that has no client for it yet, or no longer.
BlocksAreOwned ==
  \A b \in Blocks :
    heap[b].alloc <=> \/ HasClient(b)
                      \/ owner.at \in WithoutClient /\ owner.block = b

\* The actions that leave blocks, the block at hand and the clients alone, and
\* do not pass a point at which the thread has a block to itself.
LEMMA BlocksQuiet ==
  ASSUME BlocksAreOwned,
         \A b \in Blocks : /\ heap'[b].alloc <=> heap[b].alloc
                           /\ HasClient(b)' <=> HasClient(b),
         owner'.at \in WithoutClient <=> owner.at \in WithoutClient,
         owner'.at \in WithoutClient => owner'.block = owner.block
  PROVE  BlocksAreOwned'
BY DEF BlocksAreOwned

LEMMA BlocksStep ==
  ASSUME ClientInv, SafeQmi, BlocksAreOwned, [Next]_vars
  PROVE  BlocksAreOwned'
<1> USE DEF WithoutClient
<1>0. /\ owner \in OwnerType /\ clients \subseteq ClientType
      /\ heap \in [Blocks -> BlockType]
  BY DEF ClientInv, TypeOK
\* The steps of a thread that neither get nor give up anything.
<1>1. CASE \/ Open \/ CallocFails \/ NotifierInit \/ SignalClear \/ LookUp
           \/ SignalWait \/ RegisterFails \/ OpenFailed \/ Close \/ ReleaseFails
           \/ CallbackThread \/ ServiceUp \/ UNCHANGED vars
  <2>1. UNCHANGED <<heap, clients>>
    BY <1>1 DEF Open, CallocFails, NotifierInit, SignalClear, LookUp, SignalWait,
                RegisterFails, OpenFailed, Close, ReleaseFails, CallbackThread,
                CheckBlock, CheckAgain, CallBack, CallbackGoes, ServiceUp, vars
  <2>2. /\ owner'.at \in WithoutClient <=> owner.at \in WithoutClient
        /\ owner'.at \in WithoutClient => owner'.block = owner.block
    BY <1>0, <1>1
    DEF Open, CallocFails, NotifierInit, SignalClear, LookUp, SignalWait,
        RegisterFails, OpenFailed, Close, ReleaseFails, Forget, CallbackThread,
        CheckBlock, CheckAgain, CallBack, CallbackGoes, ServiceUp, vars, Goto,
        OwnerType
  <2> QED
    BY <2>1, <2>2, BlocksQuiet DEF HasClient
\* Writes to the block at hand that keep it.
<1>2. CASE \/ SetMe \/ RegisterEventMask \/ Memset
           \/ \E n \in 1 .. 4 : Fill(n)
  <2>1. /\ clients' = clients
        /\ \A b \in Blocks : heap'[b].alloc <=> heap[b].alloc
    BY <1>0, <1>2 DEF SetMe, RegisterEventMask, Memset, Fill, BlockType, Zeroed,
                      ClientInv, OwnerInv, WithBlock
  <2>2. /\ owner'.at \in WithoutClient <=> owner.at \in WithoutClient
        /\ owner'.at \in WithoutClient => owner'.block = owner.block
    BY <1>0, <1>2 DEF SetMe, RegisterEventMask, Memset, Fill, Goto, OwnerType
  <2> QED
    BY <2>1, <2>2, BlocksQuiet DEF HasClient
\* What happens to a client it keeps its cookie.
<1>3. CASE \/ \E c \in clients, kind \in {"event", "error"} : Deliver(c, kind)
           \/ ServiceDown \/ RegisterErrorCb
  <2>1. \A b \in Blocks : HasClient(b)' <=> HasClient(b)
    <3> SUFFICES /\ \A c \in clients : \E d \in clients' : d.cookie = c.cookie
                 /\ \A d \in clients' : \E c \in clients : d.cookie = c.cookie
      BY DEF HasClient
    <3>0. \A c \in clients : /\ [c EXCEPT !.dead = TRUE].cookie = c.cookie
                             /\ [c EXCEPT !.errorCb = TRUE].cookie = c.cookie
                             /\ [c EXCEPT !.told = TRUE].cookie = c.cookie
      BY <1>0 DEF ClientType
    <3>1. CASE ServiceDown
      <4> DEFINE down(c) == [c EXCEPT !.dead = TRUE]
      <4>1. clients' = {down(c) : c \in clients}
        BY <3>1 DEF ServiceDown
      <4>2. \A c \in clients : down(c).cookie = c.cookie
        BY <3>0
      <4> HIDE DEF down
      <4> QED
        BY <4>1, <4>2
    <3>2. CASE RegisterErrorCb
      <4> DEFINE told(c) == IF c.id = owner.clnt THEN [c EXCEPT !.errorCb = TRUE] ELSE c
      <4>1. clients' = {told(c) : c \in clients}
        BY <3>2 DEF RegisterErrorCb
      <4>2. \A c \in clients : told(c).cookie = c.cookie
        BY <3>0
      <4> HIDE DEF told
      <4> QED
        BY <4>1, <4>2
    <3>3. CASE \E c \in clients, kind \in {"event", "error"} : Deliver(c, kind)
      <4>1. PICK e \in clients :
              \/ clients' = clients
              \/ clients' = (clients \ {e}) \cup {[e EXCEPT !.told = TRUE]}
        BY <3>3 DEF Deliver
      <4>2. [e EXCEPT !.told = TRUE].cookie = e.cookie
        BY <3>0
      <4> QED
        BY <4>1, <4>2
    <3> QED
      BY <1>3, <3>1, <3>2, <3>3
  <2>2. /\ \A b \in Blocks : heap'[b].alloc <=> heap[b].alloc
        /\ owner'.at \in WithoutClient <=> owner.at \in WithoutClient
        /\ owner'.at \in WithoutClient => owner'.block = owner.block
    BY <1>0, <1>3 DEF Deliver, ServiceDown, RegisterErrorCb, Goto, OwnerType,
                      BlockType
  <2> QED
    BY <2>1, <2>2, BlocksQuiet
<1>4. CASE Calloc
  <2>1. PICK b \in Blocks : /\ heap' = [heap EXCEPT ![b] = Zeroed]
                            /\ owner'.at = "notifier" /\ owner'.block = b
    BY <1>0, <1>4 DEF Calloc, OwnerType
  <2>2. owner.at = "alloc" /\ clients' = clients
    BY <1>4 DEF Calloc
  <2> QED
    BY <1>0, <2>1, <2>2 DEF BlocksAreOwned, HasClient, Zeroed
<1>5. CASE ClientInit
  <2>1. owner.at = "init" /\ owner'.at = "error_cb" /\ heap' = heap
    BY <1>0, <1>5 DEF ClientInit, OwnerType
  <2> DEFINE new == [id |-> nextId, cookie |-> owner.block, errorCb |-> FALSE,
                     dead |-> FALSE, told |-> FALSE]
  <2>2. clients' = clients \cup {new} /\ new.cookie = owner.block
    BY <1>5 DEF ClientInit
  <2> HIDE DEF new
  <2>3. \A b \in Blocks : HasClient(b)' <=> HasClient(b) \/ b = owner.block
    BY <2>2 DEF HasClient
  <2> QED
    BY <2>1, <2>3 DEF BlocksAreOwned
<1>6. CASE CtrlPointInitFails
  <2>1. /\ owner.at \in {"notifier", "init"} /\ owner'.at = "failed"
        /\ owner.block \in Blocks /\ clients' = clients
        /\ heap' = [heap EXCEPT ![owner.block] = Freed]
    BY <1>0, <1>6 DEF CtrlPointInitFails, SafeQmi, MayFail, OwnerType, ClientInv,
                      OwnerInv, WithBlock
  <2>2. ~HasClient(owner.block)
    BY <2>1 DEF HasClient, ClientInv, OwnBlockInv
  <2> QED
    BY <1>0, <2>1, <2>2 DEF BlocksAreOwned, HasClient, Freed, Zeroed
<1>7. CASE Release
  <2>1. /\ owner.at = "release" /\ owner'.at = "zero" /\ owner'.block = owner.block
        /\ heap' = heap /\ clients' = {c \in clients : c.id # owner.clnt}
        /\ owner.block \in Blocks /\ heap[owner.block].alloc
    BY <1>0, <1>7 DEF Release, Goto, OwnerType, ClientInv, OwnerInv, WithBlock
  <2>2. PICK d \in clients : d.cookie = owner.block
    BY <2>1 DEF BlocksAreOwned, HasClient
  <2>3. d.id = owner.clnt
    BY <2>1, <2>2 DEF ClientInv, OwnBlockInv, WithBlock
  <2>4. \A c \in clients : c.id = owner.clnt <=> c.cookie = owner.block
    BY <2>2, <2>3 DEF ClientInv, ClientsInv
  <2>5. \A b \in Blocks : HasClient(b)' <=> HasClient(b) /\ b # owner.block
    BY <2>1, <2>4 DEF HasClient
  <2> QED
    BY <2>1, <2>2, <2>5 DEF BlocksAreOwned, HasClient
<1>8. CASE Free
  <2>1. /\ owner.at = "free" /\ owner'.at \in {"idle", "failed"}
        /\ owner.block \in Blocks /\ clients' = clients
        /\ heap' = [heap EXCEPT ![owner.block] = Freed]
    BY <1>0, <1>8 DEF Free, Forget, OwnerType, ClientInv, OwnerInv, WithBlock
  <2>2. ~HasClient(owner.block)
    BY <2>1 DEF HasClient, ClientInv, OwnBlockInv
  <2> QED
    BY <1>0, <2>1, <2>2 DEF BlocksAreOwned, HasClient, Freed, Zeroed
<1> QED
  BY <1>1, <1>2, <1>3, <1>4, <1>5, <1>6, <1>7, <1>8 DEF Next, Opening, Closing

\* Whenever the adapter's thread is outside open and close, the blocks that are
\* allocated are those QMI clients refer to: whichever call failed on the way,
\* no memory is left over and none is freed under a client.
THEOREM NothingLeftOver ==
  ASSUME SafeQmi
  PROVE  Spec => []NoOrphans
<1>1. Init => BlocksAreOwned
  BY DEF Init, BlocksAreOwned, HasClient, WithoutClient, Freed, Zeroed
<1>2. ClientInv /\ BlocksAreOwned /\ [Next]_vars => BlocksAreOwned'
  BY BlocksStep
<1>3. ClientInv /\ BlocksAreOwned => NoOrphans
  <2> SUFFICES ASSUME ClientInv, BlocksAreOwned, owner.at = "idle"
               PROVE  {b \in Blocks : heap[b].alloc} = {c.cookie : c \in clients}
    BY DEF NoOrphans
  <2>1. \A c \in clients : c.cookie \in Blocks
    BY DEF ClientInv, TypeOK, ClientType
  <2>2. \A b \in Blocks : heap[b].alloc <=> HasClient(b)
    BY DEF BlocksAreOwned, WithoutClient
  <2> QED
    BY <2>1, <2>2 DEF HasClient
<1> QED
  BY <1>1, <1>2, <1>3, ClientInvariant, PTL DEF Spec
=============================================================================
