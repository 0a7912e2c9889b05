--------------------------- MODULE DsClientProofs ---------------------------
(***************************************************************************)
(* Theorems about DsClient, for any memory, any profiles, any number of    *)
(* opens and any faults.                                                   *)
(***************************************************************************)
EXTENDS DsClient, TLAPS

-----------------------------------------------------------------------------
(* The inductive invariant *)

\* Where an open has not got a session block yet.
BeforeBlock == {"look", "notify", "clear", "lookup", "wait", "again", "info",
                "list", "settings", "next", "release", "session"}

\* Where the block has no DSI handle.
BeforeDsi == BeforeBlock \cup {"fill", "dsi", "free"}

\* The one session block there may be is the adapter's.
BlockInv ==
  /\ \A b \in Blocks : heap[b].alloc => b = handle
  /\ handle # NULL => heap[handle].alloc
  /\ pc \in BeforeBlock => handle = NULL
  /\ pc \in {"fill", "dsi", "start", "free"} => handle # NULL
  /\ pc = "dsi" => heap[handle].caller
  /\ pc \in BeforeBlock \cup {"fill", "dsi", "start"} => opens # 0

\* The DSI handles belong to it.
DsiInv ==
  /\ pc \in BeforeDsi => dsi = {}
  /\ \A d \in dsi : /\ d.user = handle /\ d.id = heap[handle].dsi
                    /\ heap[handle].caller

\* A callback in progress is for one of them, if the release waits for it.
CbInv ==
  ReleaseWaits = TRUE =>
    (cb.at = "run" => \E d \in dsi : d.id = cb.id /\ d.user = cb.block)

\* What an index and an IP version must be.
RightCall(index, ip) ==
  /\ index \in DOMAIN list.all /\ list.all[index].emergency = "yes"
  /\ \A j \in DOMAIN list.all : list.all[j].emergency = "yes" => index <= j
  /\ list.all[index].pdp \in DOMAIN Version =>
       ip = Version[list.all[index].pdp]

\* The search has passed no profile that supports emergency calls, and the
\* settings are those of the profile it looks at.
SearchInv ==
  /\ pc \in {"settings", "next"} =>
       /\ list.i \in Nat \ {0}
       /\ \A j \in DOMAIN list.all :
            j < list.i => list.all[j].emergency # "yes"
  /\ pc \in BeforeBlock \ {"release", "session", "next"} => settings = Unset
  /\ pc \in BeforeBlock \ {"release", "session"} => ~call.found
  /\ pc = "next" => list.i \in DOMAIN list.all /\ settings = list.all[list.i]
  /\ pc \in {"release", "session", "fill", "dsi", "start"} /\ call.found =>
       RightCall(call.index, call.ip)
  /\ pc \in {"session", "fill", "dsi", "start"} => call.found
  /\ pc = "idle" /\ result = "SUCCESS" =>
       \A d \in dsi : RightCall(d.index, d.ip)

DsInv == TypeOK /\ BlockInv /\ DsiInv /\ CbInv /\ SearchInv

-----------------------------------------------------------------------------
\* The IP versions.
LEMMA IpVersionIs ==
  ASSUME NEW p \in {"absent", "ipv4", "ppp", "ipv6", "ipv4v6"}
  PROVE  /\ IpVersion(p) \in IpVersions
         /\ p \in DOMAIN Version => IpVersion(p) = Version[p]
BY DEF IpVersion, IpVersions, Version

\* Settings that were cleared take over what the profile has, and nothing else.
LEMMA DecodedIs ==
  ASSUME NEW p \in ProfileType
  PROVE  Decoded(Unset, p) = p
BY DEF Decoded, Unset, ProfileType

LEMMA DecodedType ==
  ASSUME NEW p \in ProfileType, NEW old \in ProfileType
  PROVE  Decoded(old, p) \in ProfileType
BY DEF Decoded, ProfileType

\* The list is empty or one of the modem's.
LEMMA EmptyOrListed ==
  ASSUME NEW ps \in ProfileLists \cup {<<>>}
  PROVE  ps \in Seq(ProfileType)
<1>1. CASE ps \in ProfileLists
  BY <1>1, DsAssumption
<1>2. CASE ps = <<>>
  BY <1>2
<1> QED BY <1>1, <1>2

\* A profile of a list is a profile.
LEMMA ListedProfile ==
  ASSUME TypeOK, NEW i \in DOMAIN list.all
  PROVE  list.all[i] \in ProfileType
<1>1. list.all \in Seq(ProfileType)
  BY DsAssumption DEF TypeOK
<1> QED BY <1>1

\* While the search is on its index is that of a profile.
LEMMA SearchIndex ==
  ASSUME TypeOK, SearchInv, pc = "settings", list.i <= Len(list.all)
  PROVE  list.i \in DOMAIN list.all
<1>1. list.i \in Nat \ {0}
  BY DEF SearchInv
<1>2. list.all \in Seq(ProfileType)
  BY EmptyOrListed DEF TypeOK
<1> QED BY <1>1, <1>2

\* What happens to a DSI handle keeps its type.
LEMMA DsiMoves ==
  ASSUME NEW d \in DsiHandle, NEW t \in {"none", "starting", "up", "stopping"}
  PROVE  /\ [d EXCEPT !.state = t] \in DsiHandle
         /\ \A i \in Nat, v \in IpVersions :
              [d EXCEPT !.state = t, !.index = i, !.ip = v] \in DsiHandle
BY DEF DsiHandle

\* The session blocks.
HeapType == [Blocks -> [alloc : BOOLEAN, caller : BOOLEAN, dsi : 0 .. MaxOpens]]

\* What happens to a block without a DSI handle keeps its type.
LEMMA BlockMoves ==
  ASSUME heap \in HeapType, NEW b \in Blocks, MaxOpens \in Nat
  PROVE  /\ [heap EXCEPT ![b].dsi = 0] \in HeapType
         /\ [heap EXCEPT ![b] = Freed] \in HeapType
<1>1. Freed \in [alloc : BOOLEAN, caller : BOOLEAN, dsi : 0 .. MaxOpens]
  BY DEF Freed
<1> QED BY <1>1 DEF HeapType

\* A step keeps the types.
LEMMA TypeStep ==
  ASSUME TypeOK, BlockInv, SearchInv, [Next]_vars
  PROVE  TypeOK'
<1>a. DsAssumption
  BY DsAssumption
<1> USE DEF TypeOK
<1>1. CASE openAndStartDataCall
  BY <1>1, <1>a
  DEF DsAssumption, openAndStartDataCall, NoCall, Unset, ProfileType,
      IpVersions, open, env, qmi, block
<1>2. CASE LookFirst
  BY <1>2, <1>a DEF DsAssumption, LookFirst, open, env, qmi, block
<1>3. CASE NotifierInit
  <2>1. opens \in 1 .. MaxOpens
    BY <1>3, <1>a DEF NotifierInit, BlockInv, BeforeBlock, DsAssumption
  <2> QED BY <1>3, <2>1 DEF NotifierInit, open, block
<1>4. CASE SignalClear
  BY <1>4, <1>a DEF DsAssumption, SignalClear, open, env, qmi, block
<1>5. CASE LookUp
  BY <1>5, <1>a DEF DsAssumption, LookUp, open, env, qmi, block
<1>6. CASE Signalled
  BY <1>6, <1>a DEF DsAssumption, Signalled, open, env, qmi, block
<1>7. CASE TimedOut
  BY <1>7, <1>a DEF DsAssumption, TimedOut, ReturnWith, open, env, qmi, block
<1>8. CASE LookAgain
  BY <1>8, <1>a DEF DsAssumption, LookAgain, ReturnWith, open, env, qmi, block
<1>9. CASE ClientInit
  <2>1. opens \in 1 .. MaxOpens
    BY <1>9, <1>a DEF ClientInit, BlockInv, BeforeBlock, DsAssumption
  <2> QED BY <1>9, <2>1 DEF ClientInit, open, block, env
<1>10. CASE StepFails
  BY <1>10, <1>a DEF DsAssumption, StepFails, ReturnWith, open, env, qmi, block
<1>11. CASE GetProfileList
  BY <1>11, <1>a DEF DsAssumption, GetProfileList, open, env, qmi, block
<1>12. CASE GetProfileSettings
  <2>1. list.i \in DOMAIN list.all
    BY <1>12, SearchIndex DEF GetProfileSettings
  <2>2. settings' \in ProfileType
    BY <1>12, <2>1, ListedProfile, DecodedType DEF GetProfileSettings
  <2> QED BY <1>12, <2>2 DEF GetProfileSettings, block, qmi, env
<1>13. CASE Found
  <2>1. IpVersion(settings.pdp) \in IpVersions /\ list.i \in Nat
    BY IpVersionIs DEF ProfileType
  <2> QED BY <1>13, <2>1 DEF Found, block, qmi, env
<1>14. CASE NextProfile
  <2>1. settings' \in ProfileType /\ list' = [list EXCEPT !.i = list.i + 1]
    BY <1>14 DEF NextProfile, Cleared, Unset, ProfileType
  <2>2. list' \in [all : ProfileLists \cup {<<>>}, i : Nat]
    BY <2>1
  <2> QED BY <1>14, <2>1, <2>2 DEF NextProfile, qmi, env, block
<1>15. CASE NoneLeft
  BY <1>15, <1>a DEF DsAssumption, NoneLeft, open, env, qmi, block
<1>16. CASE ClientRelease
  BY <1>16, <1>a
  DEF DsAssumption, ClientRelease, ReturnWith, open, env, qmi, block
<1>17. CASE Calloc
  BY <1>17, <1>a DEF DsAssumption, Calloc, Zeroed, open, env, qmi, block
<1>18. CASE CallocFails
  BY <1>18, <1>a
  DEF DsAssumption, CallocFails, ReturnWith, open, env, qmi, block
<1>19. CASE FillCaller
  <2>1. heap' \in [Blocks -> [alloc : BOOLEAN, caller : BOOLEAN, dsi : 0 .. MaxOpens]]
    BY <1>19 DEF FillCaller
  <2> QED BY <1>19, <2>1 DEF FillCaller, open, qmi, env
<1>20. CASE GetDsiHandle
  <2>1. opens \in 1 .. MaxOpens /\ handle \in Blocks
    BY <1>20, <1>a DEF GetDsiHandle, BlockInv, BeforeBlock, DsAssumption
  <2>2. heap' \in [Blocks -> [alloc : BOOLEAN, caller : BOOLEAN, dsi : 0 .. MaxOpens]]
    BY <1>20, <2>1 DEF GetDsiHandle
  <2>3. [id |-> opens, user |-> handle, state |-> "none", index |-> 0, ip |-> "4"]
          \in DsiHandle
    BY <2>1 DEF DsiHandle, IpVersions
  <2>4. dsi' \subseteq DsiHandle
    BY <1>20, <2>3 DEF GetDsiHandle
  <2> QED BY <1>20, <2>2, <2>4 DEF GetDsiHandle, ReturnWith, qmi, env
<1>21. CASE GetDsiHandleFails
  BY <1>21, <1>a
  DEF DsAssumption, GetDsiHandleFails, ReturnWith, open, env, qmi, block
<1>22. CASE StartCall
  <2>1. \A d \in dsi, t \in {"starting", "none"} :
          [d EXCEPT !.state = t, !.index = call.index, !.ip = call.ip] \in DsiHandle
    <3>1. call.index \in Nat /\ call.ip \in IpVersions
      OBVIOUS
    <3> QED BY <3>1, DsiMoves
  <2>2. dsi' \subseteq DsiHandle
    <3> DEFINE F(d, ok) == [d EXCEPT !.state = IF ok THEN "starting" ELSE "none",
                                     !.index = call.index, !.ip = call.ip]
    <3>1. PICK ok \in BOOLEAN : dsi' = (dsi \ Own) \cup {F(d, ok) : d \in Own}
      BY <1>22 DEF StartCall
    <3>2. \A d \in Own : d \in dsi
      BY Zenon DEF Own
    <3>3. (IF ok THEN "starting" ELSE "none") \in {"starting", "none"}
      OBVIOUS
    <3>4. \A d \in Own : F(d, ok) \in DsiHandle
      BY <2>1, <3>2, <3>3
    <3>5. dsi \subseteq DsiHandle
      OBVIOUS
    <3> HIDE DEF F
    <3> QED BY <3>1, <3>4, <3>5
  <2>3. pc' = "idle" /\ result' \in {"SUCCESS", "UNSUPPORTED"}
    BY <1>22 DEF StartCall
  <2>4. UNCHANGED <<open, handle, heap, qmi, env, cb>>
    BY <1>22 DEF StartCall
  <2> QED BY <2>2, <2>3, <2>4 DEF open, qmi, env
<1>23. CASE stopDataCall
  <2>1. \A d \in dsi :
          [d EXCEPT !.state = IF d.state = "none" THEN @ ELSE "stopping"] \in DsiHandle
    BY DsiMoves
  <2>2. dsi' \subseteq DsiHandle
    BY <1>23, <2>1 DEF stopDataCall, Own
  <2> QED BY <1>23, <2>2 DEF stopDataCall, open, qmi, env
<1>24. CASE closeDataCall
  <2>1. heap' \in HeapType
    BY <1>24, <1>a, BlockMoves DEF closeDataCall, DsAssumption, HeapType
  <2> QED BY <1>24, <2>1 DEF closeDataCall, open, qmi, env, HeapType
<1>25. CASE FreeSession
  <2>2. handle \in Blocks
    BY <1>25 DEF FreeSession, BlockInv
  <2>1. heap' \in HeapType
    BY <1>25, <1>a, <2>2, BlockMoves DEF FreeSession, DsAssumption, HeapType
  <2> QED BY <1>25, <2>1 DEF FreeSession, HandleAfterFree, open, qmi, env,
                           HeapType
<1>26. CASE net_ev_cb
  <2>1. cb' \in [at : {"idle", "run"}, block : Blocks \cup {NULL},
               id : 0 .. MaxOpens, report : {"opened", "closed"}]
    BY <1>26 DEF net_ev_cb
  <2> QED BY <1>26, <2>1 DEF net_ev_cb, open, block, qmi, env
<1>27. CASE ServiceUp
  <2>1. sig' \in BOOLEAN
    BY <1>27, Zenon DEF ServiceUp
  <2>2. service' \in [up : BOOLEAN, downs : 0 .. MaxDowns]
    BY <1>27 DEF ServiceUp
  <2> QED BY <1>27, <2>1, <2>2 DEF ServiceUp, open, block, qmi
<1>28. CASE ServiceDown
  BY <1>28, <1>a DEF DsAssumption, ServiceDown, open, env, qmi, block
<1>29. ASSUME NEW d \in dsi, NEW report \in {"opened", "closed"},
              NetEvent(d, report)
       PROVE  TypeOK'
  <2> DEFINE moved == [d EXCEPT !.state = IF report = "opened" THEN "up" ELSE "none"]
  <2>1. moved \in DsiHandle /\ d.user \in Blocks /\ d.id \in 0 .. MaxOpens
    <3>1. d \in DsiHandle
      OBVIOUS
    <3>2. d.user \in Blocks /\ d.id \in 0 .. MaxOpens
      BY <3>1 DEF DsiHandle
    <3> QED BY <3>1, <3>2, DsiMoves
  <2>2. dsi' \subseteq DsiHandle
    BY <1>29, <2>1 DEF NetEvent
  <2>3. cb' \in [at : {"idle", "run"}, block : Blocks \cup {NULL},
               id : 0 .. MaxOpens, report : {"opened", "closed"}]
    BY <1>29, <2>1 DEF NetEvent
  <2> QED BY <1>29, <2>2, <2>3 DEF NetEvent, open, qmi, env
<1>90. CASE UNCHANGED vars
  BY <1>90 DEF vars, open, env, qmi, block
<1> QED BY <1>1, <1>2, <1>3, <1>4, <1>5, <1>6, <1>7, <1>8, <1>9, <1>10, <1>11,
           <1>12, <1>13, <1>14, <1>15, <1>16, <1>17, <1>18, <1>19, <1>20,
           <1>21, <1>22, <1>23, <1>24, <1>25, <1>26, <1>27, <1>28, <1>29,
           <1>90
        DEF Next, Opening

\* A step keeps the invariant, one step of the proof per action and one leaf
\* per part.
LEMMA DsStep ==
  ASSUME DsInv, TypeOK', Retries = FALSE, [Next]_vars
  PROVE  DsInv'
<1> USE DEF DsiHandle, ProfileType
<1>b. opens \in Nat
  BY DsAssumption DEF DsInv, TypeOK
<1>a. /\ handle \in Blocks \cup {NULL} /\ NULL \notin Blocks
      /\ heap \in [Blocks -> [alloc : BOOLEAN, caller : BOOLEAN, dsi : 0 .. MaxOpens]]
      /\ dsi \subseteq DsiHandle
      /\ list \in [all : ProfileLists \cup {<<>>}, i : Nat]
      /\ settings \in ProfileType
      /\ call \in [found : BOOLEAN, index : Nat, ip : IpVersions]
      /\ cb \in [at : {"idle", "run"}, block : Blocks \cup {NULL},
                 id : 0 .. MaxOpens, report : {"opened", "closed"}]
  BY DsAssumption DEF DsInv, TypeOK
<1> USE <1>a, <1>b
<1>1. CASE openAndStartDataCall
  <2>1. BlockInv'
    BY <1>1
    DEF openAndStartDataCall, NoCall, Unset, open, env, qmi, block, DsInv,
        BlockInv, BeforeBlock
  <2>2. DsiInv'
    BY <1>1
    DEF openAndStartDataCall, NoCall, Unset, open, env, qmi, block, DsInv,
        BlockInv, DsiInv, BeforeBlock, BeforeDsi
  <2>3. CbInv'
    BY <1>1
    DEF openAndStartDataCall, NoCall, Unset, open, env, qmi, block, DsInv,
        DsiInv, CbInv, BeforeBlock, BeforeDsi
  <2>4. SearchInv'
    BY <1>1
    DEF openAndStartDataCall, NoCall, Unset, open, env, qmi, block, DsInv,
        SearchInv, DsiInv, BeforeBlock, BeforeDsi, RightCall
  <2> QED BY <2>1, <2>2, <2>3, <2>4 DEF DsInv
<1>2. CASE LookFirst
  <2>1. BlockInv'
    BY <1>2
    DEF LookFirst, open, env, qmi, block, DsInv, BlockInv, BeforeBlock
  <2>2. DsiInv'
    BY <1>2
    DEF LookFirst, open, env, qmi, block, DsInv, BlockInv, DsiInv,
        BeforeBlock, BeforeDsi
  <2>3. CbInv'
    BY <1>2
    DEF LookFirst, open, env, qmi, block, DsInv, DsiInv, CbInv, BeforeBlock,
        BeforeDsi
  <2>4. SearchInv'
    BY <1>2
    DEF LookFirst, open, env, qmi, block, DsInv, SearchInv, DsiInv,
        BeforeBlock, BeforeDsi, RightCall
  <2> QED BY <2>1, <2>2, <2>3, <2>4 DEF DsInv
<1>3. CASE NotifierInit
  <2>1. BlockInv'
    BY <1>3
    DEF NotifierInit, open, env, qmi, block, DsInv, BlockInv, BeforeBlock
  <2>2. DsiInv'
    BY <1>3
    DEF NotifierInit, open, env, qmi, block, DsInv, BlockInv, DsiInv,
        BeforeBlock, BeforeDsi
  <2>3. CbInv'
    BY <1>3
    DEF NotifierInit, open, env, qmi, block, DsInv, DsiInv, CbInv,
        BeforeBlock, BeforeDsi
  <2>4. SearchInv'
    BY <1>3
    DEF NotifierInit, open, env, qmi, block, DsInv, SearchInv, DsiInv,
        BeforeBlock, BeforeDsi, RightCall
  <2> QED BY <2>1, <2>2, <2>3, <2>4 DEF DsInv
<1>4. CASE SignalClear
  <2>1. BlockInv'
    BY <1>4
    DEF SignalClear, open, env, qmi, block, DsInv, BlockInv, BeforeBlock
  <2>2. DsiInv'
    BY <1>4
    DEF SignalClear, open, env, qmi, block, DsInv, BlockInv, DsiInv,
        BeforeBlock, BeforeDsi
  <2>3. CbInv'
    BY <1>4
    DEF SignalClear, open, env, qmi, block, DsInv, DsiInv, CbInv, BeforeBlock,
        BeforeDsi
  <2>4. SearchInv'
    BY <1>4
    DEF SignalClear, open, env, qmi, block, DsInv, SearchInv, DsiInv,
        BeforeBlock, BeforeDsi, RightCall
  <2> QED BY <2>1, <2>2, <2>3, <2>4 DEF DsInv
<1>5. CASE LookUp
  <2>1. BlockInv'
    BY <1>5
    DEF LookUp, open, env, qmi, block, DsInv, BlockInv, BeforeBlock
  <2>2. DsiInv'
    BY <1>5
    DEF LookUp, open, env, qmi, block, DsInv, BlockInv, DsiInv, BeforeBlock,
        BeforeDsi
  <2>3. CbInv'
    BY <1>5
    DEF LookUp, open, env, qmi, block, DsInv, DsiInv, CbInv, BeforeBlock,
        BeforeDsi
  <2>4. SearchInv'
    BY <1>5
    DEF LookUp, open, env, qmi, block, DsInv, SearchInv, DsiInv, BeforeBlock,
        BeforeDsi, RightCall
  <2> QED BY <2>1, <2>2, <2>3, <2>4 DEF DsInv
<1>6. CASE Signalled
  <2>1. BlockInv'
    BY <1>6
    DEF Signalled, open, env, qmi, block, DsInv, BlockInv, BeforeBlock
  <2>2. DsiInv'
    BY <1>6
    DEF Signalled, open, env, qmi, block, DsInv, BlockInv, DsiInv,
        BeforeBlock, BeforeDsi
  <2>3. CbInv'
    BY <1>6
    DEF Signalled, open, env, qmi, block, DsInv, DsiInv, CbInv, BeforeBlock,
        BeforeDsi
  <2>4. SearchInv'
    BY <1>6
    DEF Signalled, open, env, qmi, block, DsInv, SearchInv, DsiInv,
        BeforeBlock, BeforeDsi, RightCall
  <2> QED BY <2>1, <2>2, <2>3, <2>4 DEF DsInv
<1>7. CASE TimedOut
  <2>1. BlockInv'
    BY <1>7
    DEF TimedOut, ReturnWith, open, env, qmi, block, DsInv, BlockInv,
        BeforeBlock
  <2>2. DsiInv'
    BY <1>7
    DEF TimedOut, ReturnWith, open, env, qmi, block, DsInv, BlockInv, DsiInv,
        BeforeBlock, BeforeDsi
  <2>3. CbInv'
    BY <1>7
    DEF TimedOut, ReturnWith, open, env, qmi, block, DsInv, DsiInv, CbInv,
        BeforeBlock, BeforeDsi
  <2>4. SearchInv'
    BY <1>7
    DEF TimedOut, ReturnWith, open, env, qmi, block, DsInv, SearchInv, DsiInv,
        BeforeBlock, BeforeDsi, RightCall
  <2> QED BY <2>1, <2>2, <2>3, <2>4 DEF DsInv
<1>8. CASE LookAgain
  <2>1. BlockInv'
    BY <1>8
    DEF LookAgain, ReturnWith, open, env, qmi, block, DsInv, BlockInv,
        BeforeBlock
  <2>2. DsiInv'
    BY <1>8
    DEF LookAgain, ReturnWith, open, env, qmi, block, DsInv, BlockInv, DsiInv,
        BeforeBlock, BeforeDsi
  <2>3. CbInv'
    BY <1>8
    DEF LookAgain, ReturnWith, open, env, qmi, block, DsInv, DsiInv, CbInv,
        BeforeBlock, BeforeDsi
  <2>4. SearchInv'
    BY <1>8
    DEF LookAgain, ReturnWith, open, env, qmi, block, DsInv, SearchInv,
        DsiInv, BeforeBlock, BeforeDsi, RightCall
  <2> QED BY <2>1, <2>2, <2>3, <2>4 DEF DsInv
<1>9. CASE ClientInit
  <2>1. BlockInv'
    BY <1>9
    DEF ClientInit, open, env, qmi, block, DsInv, BlockInv, BeforeBlock
  <2>2. DsiInv'
    BY <1>9
    DEF ClientInit, open, env, qmi, block, DsInv, BlockInv, DsiInv,
        BeforeBlock, BeforeDsi
  <2>3. CbInv'
    BY <1>9
    DEF ClientInit, open, env, qmi, block, DsInv, DsiInv, CbInv, BeforeBlock,
        BeforeDsi
  <2>4. SearchInv'
    BY <1>9
    DEF ClientInit, open, env, qmi, block, DsInv, SearchInv, DsiInv,
        BeforeBlock, BeforeDsi, RightCall
  <2> QED BY <2>1, <2>2, <2>3, <2>4 DEF DsInv
<1>10. CASE StepFails
  <2>1. BlockInv'
    BY <1>10
    DEF StepFails, ReturnWith, MayFail, open, env, qmi, block, DsInv,
        BlockInv, BeforeBlock
  <2>2. DsiInv'
    BY <1>10
    DEF StepFails, ReturnWith, MayFail, open, env, qmi, block, DsInv,
        BlockInv, DsiInv, BeforeBlock, BeforeDsi
  <2>3. CbInv'
    BY <1>10
    DEF StepFails, ReturnWith, MayFail, open, env, qmi, block, DsInv, DsiInv,
        CbInv, BeforeBlock, BeforeDsi
  <2>4. SearchInv'
    BY <1>10
    DEF StepFails, ReturnWith, MayFail, open, env, qmi, block, DsInv,
        SearchInv, DsiInv, BeforeBlock, BeforeDsi, RightCall
  <2> QED BY <2>1, <2>2, <2>3, <2>4 DEF DsInv
<1>11. CASE GetProfileList
  <2>1. BlockInv'
    BY <1>11
    DEF GetProfileList, open, env, qmi, block, DsInv, BlockInv, BeforeBlock
  <2>2. DsiInv'
    BY <1>11
    DEF GetProfileList, open, env, qmi, block, DsInv, BlockInv, DsiInv,
        BeforeBlock, BeforeDsi
  <2>3. CbInv'
    BY <1>11
    DEF GetProfileList, open, env, qmi, block, DsInv, DsiInv, CbInv,
        BeforeBlock, BeforeDsi
  <2>4. SearchInv'
    <3>1. list'.i = 1 /\ list'.all \in Seq(ProfileType)
      <4>1. PICK ps \in ProfileLists \cup {<<>>} : list' = [all |-> ps, i |-> 1]
        BY <1>11 DEF GetProfileList
      <4>2. list'.i = 1 /\ list'.all = ps
        BY <4>1
      <4> QED BY <4>2, EmptyOrListed
    <3>2. DOMAIN list'.all = 1 .. Len(list'.all) /\ Len(list'.all) \in Nat
      BY <3>1
    <3>3. /\ pc = "list" /\ pc' = "settings"
          /\ settings' = settings /\ call' = call
      BY <1>11 DEF GetProfileList
    <3>4. settings = Unset /\ ~call.found
      BY <3>3 DEF DsInv, SearchInv, BeforeBlock
    <3> QED BY <3>1, <3>2, <3>3, <3>4 DEF SearchInv
  <2> QED BY <2>1, <2>2, <2>3, <2>4 DEF DsInv
<1>12. CASE GetProfileSettings
  <2>1. BlockInv'
    BY <1>12
    DEF GetProfileSettings, open, env, qmi, block, DsInv, BlockInv, BeforeBlock
  <2>2. DsiInv'
    BY <1>12
    DEF GetProfileSettings, open, env, qmi, block, DsInv, BlockInv, DsiInv,
        BeforeBlock, BeforeDsi
  <2>3. CbInv'
    BY <1>12
    DEF GetProfileSettings, open, env, qmi, block, DsInv, DsiInv, CbInv,
        BeforeBlock, BeforeDsi
  <2>4. SearchInv'
    <3>1. /\ pc = "settings" /\ pc' = "next" /\ list' = list /\ call' = call
          /\ list.i <= Len(list.all)
          /\ settings' = Decoded(settings, list.all[list.i])
      BY <1>12 DEF GetProfileSettings
    <3>2. settings = Unset /\ ~call.found /\ list.i \in Nat \ {0}
      BY <3>1 DEF DsInv, SearchInv, BeforeBlock
    <3>3. list.i \in DOMAIN list.all
      <4>1. list.all \in Seq(ProfileType)
        BY EmptyOrListed DEF DsInv, TypeOK
      <4> QED BY <4>1, <3>1, <3>2
    <3>4. settings' = list.all[list.i]
      BY <3>1, <3>2, <3>3, ListedProfile, DecodedIs DEF DsInv
    <3> QED BY <3>1, <3>2, <3>3, <3>4 DEF DsInv, SearchInv, BeforeBlock
  <2> QED BY <2>1, <2>2, <2>3, <2>4 DEF DsInv
<1>13. CASE Found
  <2>1. BlockInv'
    BY <1>13
    DEF Found, open, env, qmi, block, DsInv, BlockInv, BeforeBlock
  <2>2. DsiInv'
    BY <1>13
    DEF Found, open, env, qmi, block, DsInv, BlockInv, DsiInv, BeforeBlock,
        BeforeDsi
  <2>3. CbInv'
    BY <1>13
    DEF Found, open, env, qmi, block, DsInv, DsiInv, CbInv, BeforeBlock,
        BeforeDsi
  <2>4. SearchInv'
    <3>1. /\ pc = "next" /\ settings.emergency = "yes" /\ pc' = "release"
          /\ list' = list /\ settings' = settings
          /\ call' = [found |-> TRUE, index |-> list.i, ip |-> IpVersion(settings.pdp)]
      BY <1>13 DEF Found
    <3>2. /\ list.i \in DOMAIN list.all /\ settings = list.all[list.i]
          /\ \A j \in DOMAIN list.all :
               j < list.i => list.all[j].emergency # "yes"
      BY <3>1 DEF DsInv, SearchInv
    <3>3. \A j \in DOMAIN list.all : j \in Nat
      BY DsAssumption
    <3>4. settings.pdp \in DOMAIN Version =>
            IpVersion(settings.pdp) = Version[settings.pdp]
      BY IpVersionIs
    <3>5. RightCall(list.i, IpVersion(settings.pdp))
      BY <3>1, <3>2, <3>3, <3>4 DEF RightCall
    <3>6. RightCall(call.index, call.ip)'
      BY <3>1, <3>5 DEF RightCall
    <3> QED BY <3>1, <3>6 DEF SearchInv, BeforeBlock
  <2> QED BY <2>1, <2>2, <2>3, <2>4 DEF DsInv
<1>14. CASE NextProfile
  <2>1. BlockInv'
    BY <1>14
    DEF NextProfile, Cleared, Unset, open, env, qmi, block, DsInv, BlockInv,
        BeforeBlock
  <2>2. DsiInv'
    BY <1>14
    DEF NextProfile, Cleared, Unset, open, env, qmi, block, DsInv, BlockInv,
        DsiInv, BeforeBlock, BeforeDsi
  <2>3. CbInv'
    BY <1>14
    DEF NextProfile, Cleared, Unset, open, env, qmi, block, DsInv, DsiInv,
        CbInv, BeforeBlock, BeforeDsi
  <2>4. SearchInv'
    <3>1. /\ pc = "next" /\ settings.emergency # "yes" /\ pc' = "settings"
          /\ list'.all = list.all /\ list'.i = list.i + 1
          /\ settings' = Unset /\ call' = call
      BY <1>14 DEF NextProfile, Cleared
    <3>2. /\ list.i \in Nat \ {0} /\ settings = list.all[list.i] /\ ~call.found
          /\ \A j \in DOMAIN list.all :
               j < list.i => list.all[j].emergency # "yes"
      BY <3>1 DEF DsInv, SearchInv, BeforeBlock
    <3>3. \A j \in DOMAIN list.all : j \in Nat
      BY DsAssumption
    <3>4. \A j \in DOMAIN list'.all :
            j < list'.i => list'.all[j].emergency # "yes"
      BY <3>1, <3>2, <3>3
    <3> QED BY <3>1, <3>2, <3>4 DEF SearchInv, BeforeBlock
  <2> QED BY <2>1, <2>2, <2>3, <2>4 DEF DsInv
<1>15. CASE NoneLeft
  <2>1. BlockInv'
    BY <1>15
    DEF NoneLeft, open, env, qmi, block, DsInv, BlockInv, BeforeBlock
  <2>2. DsiInv'
    BY <1>15
    DEF NoneLeft, open, env, qmi, block, DsInv, BlockInv, DsiInv, BeforeBlock,
        BeforeDsi
  <2>3. CbInv'
    BY <1>15
    DEF NoneLeft, open, env, qmi, block, DsInv, DsiInv, CbInv, BeforeBlock,
        BeforeDsi
  <2>4. SearchInv'
    <3>1. pc = "settings" /\ pc' = "release" /\ list' = list /\ call' = call
      BY <1>15 DEF NoneLeft, open
    <3>2. ~call.found
      BY <3>1 DEF DsInv, SearchInv, BeforeBlock
    <3> QED BY <3>1, <3>2 DEF SearchInv, BeforeBlock
  <2> QED BY <2>1, <2>2, <2>3, <2>4 DEF DsInv
<1>16. CASE ClientRelease
  <2>1. BlockInv'
    BY <1>16
    DEF ClientRelease, ReturnWith, open, env, qmi, block, DsInv, BlockInv,
        BeforeBlock
  <2>2. DsiInv'
    BY <1>16
    DEF ClientRelease, ReturnWith, open, env, qmi, block, DsInv, BlockInv,
        DsiInv, BeforeBlock, BeforeDsi
  <2>3. CbInv'
    BY <1>16
    DEF ClientRelease, ReturnWith, open, env, qmi, block, DsInv, DsiInv,
        CbInv, BeforeBlock, BeforeDsi
  <2>4. SearchInv'
    BY <1>16
    DEF ClientRelease, ReturnWith, open, env, qmi, block, DsInv, SearchInv,
        DsiInv, BeforeBlock, BeforeDsi, RightCall
  <2> QED BY <2>1, <2>2, <2>3, <2>4 DEF DsInv
<1>17. CASE Calloc
  <2>1. BlockInv'
    BY <1>17
    DEF Calloc, Zeroed, open, env, qmi, block, DsInv, BlockInv, BeforeBlock
  <2>2. DsiInv'
    BY <1>17
    DEF Calloc, Zeroed, open, env, qmi, block, DsInv, BlockInv, DsiInv,
        BeforeBlock, BeforeDsi
  <2>3. CbInv'
    BY <1>17
    DEF Calloc, Zeroed, open, env, qmi, block, DsInv, DsiInv, CbInv,
        BeforeBlock, BeforeDsi
  <2>4. SearchInv'
    BY <1>17
    DEF Calloc, Zeroed, open, env, qmi, block, DsInv, SearchInv, DsiInv,
        BeforeBlock, BeforeDsi, RightCall
  <2> QED BY <2>1, <2>2, <2>3, <2>4 DEF DsInv
<1>18. CASE CallocFails
  <2>1. BlockInv'
    BY <1>18
    DEF CallocFails, ReturnWith, open, env, qmi, block, DsInv, BlockInv,
        BeforeBlock
  <2>2. DsiInv'
    BY <1>18
    DEF CallocFails, ReturnWith, open, env, qmi, block, DsInv, BlockInv,
        DsiInv, BeforeBlock, BeforeDsi
  <2>3. CbInv'
    BY <1>18
    DEF CallocFails, ReturnWith, open, env, qmi, block, DsInv, DsiInv, CbInv,
        BeforeBlock, BeforeDsi
  <2>4. SearchInv'
    BY <1>18
    DEF CallocFails, ReturnWith, open, env, qmi, block, DsInv, SearchInv,
        DsiInv, BeforeBlock, BeforeDsi, RightCall
  <2> QED BY <2>1, <2>2, <2>3, <2>4 DEF DsInv
<1>19. CASE FillCaller
  <2>1. BlockInv'
    BY <1>19
    DEF FillCaller, open, env, qmi, block, DsInv, BlockInv, BeforeBlock
  <2>2. DsiInv'
    BY <1>19
    DEF FillCaller, open, env, qmi, block, DsInv, BlockInv, DsiInv,
        BeforeBlock, BeforeDsi
  <2>3. CbInv'
    BY <1>19
    DEF FillCaller, open, env, qmi, block, DsInv, DsiInv, CbInv, BeforeBlock,
        BeforeDsi
  <2>4. SearchInv'
    BY <1>19
    DEF FillCaller, open, env, qmi, block, DsInv, SearchInv, DsiInv,
        BeforeBlock, BeforeDsi, RightCall
  <2> QED BY <2>1, <2>2, <2>3, <2>4 DEF DsInv
<1>20. CASE GetDsiHandle
  <2>1. BlockInv'
    BY <1>20
    DEF GetDsiHandle, ReturnWith, open, env, qmi, block, DsInv, BlockInv,
        BeforeBlock
  <2>2. DsiInv'
    BY <1>20
    DEF GetDsiHandle, ReturnWith, open, env, qmi, block, DsInv, BlockInv,
        DsiInv, BeforeBlock, BeforeDsi
  <2>3. CbInv'
    BY <1>20
    DEF GetDsiHandle, ReturnWith, open, env, qmi, block, DsInv, DsiInv, CbInv,
        BeforeBlock, BeforeDsi
  <2>4. SearchInv'
    BY <1>20
    DEF GetDsiHandle, ReturnWith, open, env, qmi, block, DsInv, SearchInv,
        DsiInv, BeforeBlock, BeforeDsi, RightCall
  <2> QED BY <2>1, <2>2, <2>3, <2>4 DEF DsInv
<1>21. CASE GetDsiHandleFails
  <2>1. BlockInv'
    BY <1>21
    DEF GetDsiHandleFails, ReturnWith, open, env, qmi, block, DsInv, BlockInv,
        BeforeBlock
  <2>2. DsiInv'
    BY <1>21
    DEF GetDsiHandleFails, ReturnWith, open, env, qmi, block, DsInv, BlockInv,
        DsiInv, BeforeBlock, BeforeDsi
  <2>3. CbInv'
    BY <1>21
    DEF GetDsiHandleFails, ReturnWith, open, env, qmi, block, DsInv, DsiInv,
        CbInv, BeforeBlock, BeforeDsi
  <2>4. SearchInv'
    BY <1>21
    DEF GetDsiHandleFails, ReturnWith, open, env, qmi, block, DsInv,
        SearchInv, DsiInv, BeforeBlock, BeforeDsi, RightCall
  <2> QED BY <2>1, <2>2, <2>3, <2>4 DEF DsInv
<1>22. CASE StartCall
  <2> DEFINE D(d, v) == [d EXCEPT !.state = v, !.index = call.index, !.ip = call.ip]
  <2>5. Own = dsi
    BY <1>22 DEF StartCall, Own, DsInv, DsiInv, BlockInv
  <2>6. PICK s \in {"starting", "none"} : dsi' = {D(d, s) : d \in dsi}
    <3>1. PICK ok \in BOOLEAN :
            dsi' = (dsi \ Own) \cup
                   {[d EXCEPT !.state = IF ok THEN "starting" ELSE "none",
                              !.index = call.index, !.ip = call.ip] : d \in Own}
      BY <1>22 DEF StartCall
    <3>2. CASE ok
      <4>1. dsi' = {D(d, "starting") : d \in dsi}
        BY <3>1, <3>2, <2>5
      <4> QED BY <4>1
    <3>3. CASE ~ok
      <4>1. dsi' = {D(d, "none") : d \in dsi}
        BY <3>1, <3>3, <2>5
      <4> QED BY <4>1
    <3> QED BY <3>2, <3>3
  <2>7. \A d \in dsi, w \in {"starting", "none"} :
          /\ D(d, w).id = d.id /\ D(d, w).user = d.user
          /\ D(d, w).index = call.index /\ D(d, w).ip = call.ip
    OBVIOUS
  <2>8. /\ pc = "start" /\ pc' = "idle" /\ handle' = handle /\ heap' = heap
        /\ cb' = cb /\ call' = call /\ list' = list
    BY <1>22 DEF StartCall, open
  <2> HIDE DEF D
  <2>1. BlockInv'
    BY <1>22
    DEF StartCall, Own, open, env, qmi, block, DsInv, BlockInv, BeforeBlock
  <2>2. DsiInv'
    BY <2>6, <2>7, <2>8 DEF DsInv, DsiInv, BeforeBlock, BeforeDsi
  <2>3. CbInv'
    BY <2>6, <2>7, <2>8 DEF DsInv, CbInv
  <2>4. SearchInv'
    <3>1. RightCall(call.index, call.ip)
      BY <2>8 DEF DsInv, SearchInv
    <3>2. \A d \in dsi' : d.index = call.index /\ d.ip = call.ip
      BY <2>6, <2>7
    <3>3. \A d \in dsi' : RightCall(d.index, d.ip)'
      BY <3>1, <3>2, <2>8 DEF RightCall
    <3> QED BY <2>8, <3>3 DEF SearchInv, BeforeBlock
  <2> QED BY <2>1, <2>2, <2>3, <2>4 DEF DsInv
<1>23. CASE stopDataCall
  <2>1. BlockInv'
    BY <1>23
    DEF stopDataCall, Own, open, env, qmi, block, DsInv, BlockInv, BeforeBlock
  <2>2. DsiInv'
    BY <1>23
    DEF stopDataCall, Own, open, env, qmi, block, DsInv, BlockInv, DsiInv,
        BeforeBlock, BeforeDsi
  <2>3. CbInv'
    <3> DEFINE D(d) == [d EXCEPT !.state = IF d.state = "none" THEN @ ELSE "stopping"]
    <3>1. \A d \in dsi : D(d).id = d.id /\ D(d).user = d.user
      OBVIOUS
    <3>2. \A d \in dsi : d \in dsi' \/ D(d) \in dsi'
      BY <1>23 DEF stopDataCall
    <3>3. cb' = cb
      BY <1>23 DEF stopDataCall
    <3> HIDE DEF D
    <3> SUFFICES ASSUME ReleaseWaits = TRUE, cb.at = "run"
                 PROVE  \E d \in dsi' : d.id = cb.id /\ d.user = cb.block
      BY <3>3 DEF CbInv
    <3>4. PICK d \in dsi : d.id = cb.id /\ d.user = cb.block
      BY DEF DsInv, CbInv
    <3> QED BY <3>1, <3>2, <3>4
  <2>4. SearchInv'
    <3> DEFINE D(d) == [d EXCEPT !.state = IF d.state = "none" THEN @ ELSE "stopping"]
    <3>1. \A d \in dsi : D(d).index = d.index /\ D(d).ip = d.ip
      OBVIOUS
    <3>2. \A e \in dsi' : \E d \in dsi : e = d \/ e = D(d)
      BY <1>23 DEF stopDataCall, Own
    <3>3. UNCHANGED <<pc, list, settings, call, result>>
      BY <1>23 DEF stopDataCall, open
    <3> HIDE DEF D
    <3>4. \A e \in dsi' : \E d \in dsi : e.index = d.index /\ e.ip = d.ip
      BY <3>1, <3>2
    <3> QED BY <3>3, <3>4 DEF DsInv, SearchInv, RightCall
  <2> QED BY <2>1, <2>2, <2>3, <2>4 DEF DsInv
<1>24. CASE closeDataCall
  <2>1. BlockInv'
    BY <1>24
    DEF closeDataCall, Own, open, env, qmi, block, DsInv, BlockInv, BeforeBlock
  <2>2. DsiInv'
    BY <1>24
    DEF closeDataCall, Own, open, env, qmi, block, DsInv, BlockInv, DsiInv,
        BeforeBlock, BeforeDsi
  <2>3. CbInv'
    BY <1>24
    DEF closeDataCall, Own, open, env, qmi, block, DsInv, DsiInv, CbInv,
        BeforeBlock, BeforeDsi
  <2>4. SearchInv'
    BY <1>24
    DEF closeDataCall, Own, open, env, qmi, block, DsInv, SearchInv, DsiInv,
        BeforeBlock, BeforeDsi, RightCall
  <2> QED BY <2>1, <2>2, <2>3, <2>4 DEF DsInv
<1>25. CASE FreeSession
  <2>1. BlockInv'
    BY <1>25
    DEF FreeSession, Freed, HandleAfterFree, open, env, qmi, block, DsInv,
        BlockInv, BeforeBlock
  <2>2. DsiInv'
    BY <1>25
    DEF FreeSession, Freed, HandleAfterFree, open, env, qmi, block, DsInv,
        BlockInv, DsiInv, BeforeBlock, BeforeDsi
  <2>3. CbInv'
    BY <1>25
    DEF FreeSession, Freed, HandleAfterFree, open, env, qmi, block, DsInv,
        DsiInv, CbInv, BeforeBlock, BeforeDsi
  <2>4. SearchInv'
    BY <1>25
    DEF FreeSession, Freed, HandleAfterFree, open, env, qmi, block, DsInv,
        SearchInv, DsiInv, BeforeBlock, BeforeDsi, RightCall
  <2> QED BY <2>1, <2>2, <2>3, <2>4 DEF DsInv
<1>26. CASE net_ev_cb
  <2>1. BlockInv'
    BY <1>26
    DEF net_ev_cb, open, env, qmi, block, DsInv, BlockInv, BeforeBlock
  <2>2. DsiInv'
    BY <1>26
    DEF net_ev_cb, open, env, qmi, block, DsInv, BlockInv, DsiInv,
        BeforeBlock, BeforeDsi
  <2>3. CbInv'
    BY <1>26
    DEF net_ev_cb, open, env, qmi, block, DsInv, DsiInv, CbInv, BeforeBlock,
        BeforeDsi
  <2>4. SearchInv'
    BY <1>26
    DEF net_ev_cb, open, env, qmi, block, DsInv, SearchInv, DsiInv,
        BeforeBlock, BeforeDsi, RightCall
  <2> QED BY <2>1, <2>2, <2>3, <2>4 DEF DsInv
<1>27. CASE ServiceUp
  <2>1. BlockInv'
    BY <1>27
    DEF ServiceUp, open, env, qmi, block, DsInv, BlockInv, BeforeBlock
  <2>2. DsiInv'
    BY <1>27
    DEF ServiceUp, open, env, qmi, block, DsInv, BlockInv, DsiInv,
        BeforeBlock, BeforeDsi
  <2>3. CbInv'
    BY <1>27
    DEF ServiceUp, open, env, qmi, block, DsInv, DsiInv, CbInv, BeforeBlock,
        BeforeDsi
  <2>4. SearchInv'
    BY <1>27
    DEF ServiceUp, open, env, qmi, block, DsInv, SearchInv, DsiInv,
        BeforeBlock, BeforeDsi, RightCall
  <2> QED BY <2>1, <2>2, <2>3, <2>4 DEF DsInv
<1>28. CASE ServiceDown
  <2>1. BlockInv'
    BY <1>28
    DEF ServiceDown, open, env, qmi, block, DsInv, BlockInv, BeforeBlock
  <2>2. DsiInv'
    BY <1>28
    DEF ServiceDown, open, env, qmi, block, DsInv, BlockInv, DsiInv,
        BeforeBlock, BeforeDsi
  <2>3. CbInv'
    BY <1>28
    DEF ServiceDown, open, env, qmi, block, DsInv, DsiInv, CbInv, BeforeBlock,
        BeforeDsi
  <2>4. SearchInv'
    BY <1>28
    DEF ServiceDown, open, env, qmi, block, DsInv, SearchInv, DsiInv,
        BeforeBlock, BeforeDsi, RightCall
  <2> QED BY <2>1, <2>2, <2>3, <2>4 DEF DsInv
<1>29. ASSUME NEW d \in dsi, NEW report \in {"opened", "closed"},
              NetEvent(d, report)
       PROVE  DsInv'
  <2> DEFINE moved == [d EXCEPT !.state = IF report = "opened" THEN "up" ELSE "none"]
  <2>5. /\ moved.id = d.id /\ moved.user = d.user
        /\ moved.index = d.index /\ moved.ip = d.ip
    OBVIOUS
  <2>6. /\ dsi' = (dsi \ {d}) \cup {moved}
        /\ cb'.block = d.user /\ cb'.id = d.id
        /\ UNCHANGED <<pc, opens, waits, ret, list, settings, call, result, handle,
                       heap>>
    BY <1>29 DEF NetEvent, open
  <2> HIDE DEF moved
  <2>1. BlockInv'
    BY <1>29
    DEF NetEvent, open, env, qmi, block, DsInv, BlockInv, BeforeBlock
  <2>2. DsiInv'
    BY <1>29
    DEF NetEvent, open, env, qmi, block, DsInv, BlockInv, DsiInv, BeforeBlock,
        BeforeDsi
  <2>3. CbInv'
    BY <2>5, <2>6 DEF CbInv
  <2>4. SearchInv'
    BY <2>5, <2>6 DEF DsInv, SearchInv, RightCall
  <2> QED BY <2>1, <2>2, <2>3, <2>4 DEF DsInv
<1>90. CASE UNCHANGED vars
  BY <1>90
  DEF vars, open, env, qmi, block, DsInv, BlockInv, DsiInv, CbInv, SearchInv,
               RightCall
<1> QED BY <1>1, <1>2, <1>3, <1>4, <1>5, <1>6, <1>7, <1>8, <1>9, <1>10, <1>11,
           <1>12, <1>13, <1>14, <1>15, <1>16, <1>17, <1>18, <1>19, <1>20,
           <1>21, <1>22, <1>23, <1>24, <1>25, <1>26, <1>27, <1>28, <1>29,
           <1>90
        DEF Next, Opening

\* The invariant holds initially.
LEMMA DsStart ==
  ASSUME Init
  PROVE  DsInv
<1>1. /\ list = [all |-> <<>>, i |-> 0] /\ settings = Unset /\ call = NoCall
      /\ cb = [at |-> "idle", block |-> NULL, id |-> 0, report |-> "closed"]
  BY DEF Init
<1>2. list \in [all : ProfileLists \cup {<<>>}, i : Nat]
  BY <1>1
<1>3. settings \in ProfileType
  BY <1>1 DEF Unset, ProfileType
<1>4. call \in [found : BOOLEAN, index : Nat, ip : IpVersions]
  BY <1>1 DEF NoCall, IpVersions
<1>5. cb \in [at : {"idle", "run"}, block : Blocks \cup {NULL}, id : 0 .. MaxOpens,
             report : {"opened", "closed"}]
  BY <1>1, DsAssumption
<1>6. heap \in [Blocks -> [alloc : BOOLEAN, caller : BOOLEAN, dsi : 0 .. MaxOpens]]
  BY DsAssumption DEF Init, Freed
<1>7. service \in [up : BOOLEAN, downs : 0 .. MaxDowns]
  BY DsAssumption DEF Init
<1>8. sig \in BOOLEAN
  BY Zenon DEF Init
<1>9. /\ pc = "idle" /\ opens = 0 /\ waits = 0 /\ ret = "FAILURE" /\ result = "none"
      /\ handle = NULL /\ dsi = {} /\ wds = {} /\ notifiers = {}
  BY DEF Init
<1>10. opens \in 0 .. MaxOpens /\ waits \in 0 .. MaxWaits
  BY <1>9, DsAssumption
<1>11. TypeOK
  BY <1>2, <1>3, <1>4, <1>5, <1>6, <1>7, <1>8, <1>9, <1>10 DEF TypeOK
<1>12. BlockInv /\ DsiInv /\ CbInv /\ SearchInv
  BY DEF Init, BlockInv, DsiInv, CbInv, SearchInv, BeforeBlock, BeforeDsi, Freed
<1> QED BY <1>11, <1>12 DEF DsInv

\* The invariant of every behaviour.
LEMMA DsInvariant ==
  ASSUME Retries = FALSE
  PROVE  Spec => []DsInv
<1>1. Init => DsInv
  BY DsStart
<1>2. DsInv /\ [Next]_vars => DsInv'
  BY DsStep, TypeStep DEF DsInv
<1> QED BY <1>1, <1>2, PTL DEF Spec

-----------------------------------------------------------------------------
\* The variables keep their types.
THEOREM TypeCorrect ==
  ASSUME Retries = FALSE
  PROVE  Spec => []TypeOK
<1>1. DsInv => TypeOK
  BY DEF DsInv
<1> QED BY <1>1, DsInvariant, PTL

\* net_ev_cb finds an allocated session that knows whom to call, however calls
\* are opened, stopped and closed around it, if the release of the DSI handle
\* waits for it.
THEOREM CallerIsFound ==
  ASSUME Retries = FALSE, ReleaseWaits = TRUE
  PROVE  Spec => []EventFindsCaller
<1>1. ASSUME DsInv PROVE EventFindsCaller
  <2>1. \A d \in dsi : heap[d.user].alloc /\ heap[d.user].caller
    <3>1. \A d \in dsi : d.user \in Blocks
      BY <1>1 DEF DsInv, TypeOK, DsiHandle
    <3>2. NULL \notin Blocks
      BY DsAssumption
    <3> QED BY <1>1, <3>1, <3>2 DEF DsInv, BlockInv, DsiInv
  <2> QED BY <1>1, <2>1 DEF DsInv, CbInv, EventFindsCaller
<1> QED BY <1>1, DsInvariant, PTL

\* An adapter that closes before it opens again loses no session block and no
\* DSI handle, whatever fails.
THEOREM NothingUnreachable ==
  ASSUME Retries = FALSE
  PROVE  Spec => []SessionsReachable
<1>1. ASSUME DsInv PROVE SessionsReachable
  <2> SUFFICES ASSUME pc = "idle"
               PROVE  /\ {b \in Blocks : heap[b].alloc} = {handle} \ {NULL}
                      /\ dsi = Own
                      /\ \A d \in dsi : d.user = handle
    BY DEF SessionsReachable
  <2>1. handle \in Blocks \cup {NULL} /\ NULL \notin Blocks
    BY <1>1, DsAssumption DEF DsInv, TypeOK
  <2>2. {b \in Blocks : heap[b].alloc} = {handle} \ {NULL}
    BY <1>1, <2>1 DEF DsInv, BlockInv
  <2>3. \A d \in dsi : d.user \in Blocks /\ d.user = handle /\ d.id = heap[handle].dsi
    BY <1>1 DEF DsInv, DsiInv, TypeOK, DsiHandle
  <2>4. dsi = Own
    BY <2>1, <2>3 DEF Own
  <2> QED BY <2>2, <2>3, <2>4
<1> QED BY <1>1, DsInvariant, PTL

\* A call that was started uses the first emergency profile of the modem's list
\* and its IP version, for every list.
THEOREM RightProfile ==
  ASSUME Retries = FALSE
  PROVE  Spec => []FirstEmergencyProfile
<1>1. ASSUME DsInv PROVE FirstEmergencyProfile
  <2>1. Own \subseteq dsi
    BY DEF Own
  <2>2. pc = "idle" /\ result = "SUCCESS" =>
          \A d \in dsi : RightCall(d.index, d.ip)
    BY <1>1 DEF DsInv, SearchInv
  <2> QED BY <2>1, <2>2 DEF FirstEmergencyProfile, RightCall
<1> QED BY <1>1, DsInvariant, PTL

-----------------------------------------------------------------------------
(* What an open holds of the WDS service *)

\* Where an open may hold a notifier, and where it has given it back.
NotifierDone == {"list", "settings", "next", "release", "session", "fill", "dsi",
                 "start"}

\* The number of an open names what it holds, so that no open finds anything of
\* its own before it made it.  The WDS client is given back before the session
\* is made; a release that failed is remembered in ret until the call is
\* started.  Nothing here depends on how the adapter uses the handle.
CleanInv ==
  /\ opens \in Nat
  /\ wds \cup notifiers \subseteq 0 .. opens
  /\ pc \in {"look", "notify"} => opens \notin wds \cup notifiers
  /\ pc \in {"clear", "lookup", "wait", "again", "info"} => opens \notin wds
  /\ pc \in NotifierDone => opens \notin notifiers
  /\ pc \in {"session", "fill", "dsi"} /\ ret = "SUCCESS" => opens \notin wds
  /\ pc = "start" => opens \notin wds
  /\ CleanAfterSuccess

\* A step keeps it.
LEMMA CleanStep ==
  ASSUME CleanInv, [Next]_vars
  PROVE  CleanInv'
<1> USE DEF CleanInv, CleanAfterSuccess, NotifierDone
\* A new open has a new number.
<1>1. CASE openAndStartDataCall
  <2>1. /\ opens' = opens + 1 /\ pc' = "look"
        /\ wds' = wds /\ notifiers' = notifiers
    BY <1>1 DEF openAndStartDataCall, qmi
  <2>2. opens' \in Nat /\ wds' \cup notifiers' \subseteq 0 .. opens'
    BY <2>1
  <2>3. opens' \notin wds' \cup notifiers'
    BY <2>1
  <2> QED BY <2>1, <2>2, <2>3
\* The steps that make or give back something.
<1>2. CASE NotifierInit
  BY <1>2 DEF NotifierInit, open
<1>3. CASE ClientInit
  BY <1>3 DEF ClientInit, open
<1>4. CASE ClientRelease
  BY <1>4 DEF ClientRelease, ReturnWith
\* The steps of the open that neither make nor give back anything.
<1>5. CASE LookFirst \/ SignalClear \/ LookUp \/ Signalled \/ TimedOut \/ LookAgain
           \/ StepFails
  <2>1. UNCHANGED <<opens, wds, notifiers>>
    BY <1>5 DEF LookFirst, SignalClear, LookUp, Signalled, TimedOut, LookAgain,
                StepFails, open, qmi
  <2>2. \/ pc \in {"look", "clear", "lookup", "wait", "again"}
           /\ pc' \in {"notify", "clear", "lookup", "wait", "again", "info"}
           /\ (pc' = "notify" => pc = "look")
        \/ pc' = "idle" /\ result' # "SUCCESS"
    BY <1>5 DEF LookFirst, SignalClear, LookUp, Signalled, TimedOut, LookAgain,
                StepFails, ReturnWith
  <2> QED BY <2>1, <2>2
<1>6. CASE GetProfileList \/ GetProfileSettings \/ Found \/ NextProfile \/ NoneLeft
  <2>1. UNCHANGED <<opens, wds, notifiers>>
    BY <1>6 DEF GetProfileList, GetProfileSettings, Found, NextProfile, NoneLeft,
                open, qmi
  <2>2. /\ pc \in {"list", "settings", "next"}
        /\ pc' \in {"settings", "next", "release"}
    BY <1>6 DEF GetProfileList, GetProfileSettings, Found, NextProfile, NoneLeft
  <2> QED BY <2>1, <2>2
<1>7. CASE Calloc \/ CallocFails \/ FillCaller \/ GetDsiHandle \/ GetDsiHandleFails
  <2>1. UNCHANGED <<opens, wds, notifiers>>
    BY <1>7 DEF Calloc, CallocFails, FillCaller, GetDsiHandle, GetDsiHandleFails,
                open, qmi
  <2>2. pc \in {"session", "fill", "dsi"}
    BY <1>7 DEF Calloc, CallocFails, FillCaller, GetDsiHandle, GetDsiHandleFails
  <2>3. \/ pc' \in {"fill", "dsi"} /\ ret' = ret
        \/ pc' = "start" /\ ret = "SUCCESS"
        \/ pc' = "idle" /\ result' # "SUCCESS"
    BY <1>7 DEF Calloc, CallocFails, FillCaller, GetDsiHandle, GetDsiHandleFails,
                ReturnWith, open
  <2> QED BY <2>1, <2>2, <2>3
<1>8. CASE StartCall
  BY <1>8 DEF StartCall, open, qmi
\* The steps between opens, and those of the other threads.
<1>9. CASE stopDataCall \/ closeDataCall \/ FreeSession
  <2>1. UNCHANGED <<opens, wds, notifiers>>
    BY <1>9 DEF stopDataCall, closeDataCall, FreeSession, open, qmi
  <2>2. \/ pc' = pc /\ result' = result /\ pc = "idle"
        \/ pc' = "free"
        \/ pc' = "idle" /\ result' = "none"
    BY <1>9 DEF stopDataCall, closeDataCall, FreeSession
  <2> QED BY <2>1, <2>2
<1>10. CASE \/ \E d \in dsi, report \in {"opened", "closed"} : NetEvent(d, report)
            \/ net_ev_cb \/ ServiceUp \/ ServiceDown \/ UNCHANGED vars
  <2>1. UNCHANGED <<pc, opens, ret, result, wds, notifiers>>
    BY <1>10 DEF NetEvent, net_ev_cb, ServiceUp, ServiceDown, vars, open, qmi
  <2> QED BY <2>1
<1> QED BY <1>1, <1>2, <1>3, <1>4, <1>5, <1>6, <1>7, <1>8, <1>9, <1>10
        DEF Next, Opening

\* An open that succeeds has given back its notifier and its WDS client, for any
\* faults, and also when the adapter opens again without a close.
THEOREM SuccessIsClean == Spec => []CleanAfterSuccess
<1>1. Init => CleanInv
  BY DEF Init, CleanInv, CleanAfterSuccess, NotifierDone
<1>2. CleanInv /\ [Next]_vars => CleanInv'
  BY CleanStep
<1>3. CleanInv => CleanAfterSuccess
  BY DEF CleanInv
<1> QED BY <1>1, <1>2, <1>3, PTL DEF Spec
=============================================================================
