------------------------ MODULE XtraInjectionProofs ------------------------
(***************************************************************************)
(* Theorems about XtraInjection, for files of any size, parts of any       *)
(* length and counters of any width.                                       *)
(***************************************************************************)
EXTENDS XtraInjectionRefinement, FiniteSetTheorems, SequenceTheorems, TLAPS

-----------------------------------------------------------------------------
(* Arithmetic *)

\* Counting modulo n never exceeds the exact sum.
LEMMA ModBounds ==
  ASSUME NEW a \in Nat, NEW n \in Nat \ {0}
  PROVE  a % n \in 0 .. n - 1 /\ a % n <= a
OBVIOUS

\* A number below the modulus is left alone.
LEMMA ModSmall ==
  ASSUME NEW a \in Nat, NEW n \in Nat, a < n
  PROVE  a % n = a
OBVIOUS

\* The number of parts is the least that covers the file.
LEMMA PartsCover ==
  ASSUME NEW l \in Nat
  PROVE  /\ TotalParts(l) \in Nat \ {0}
         /\ (TotalParts(l) - 1) * PartLen <= l
         /\ l <= TotalParts(l) * PartLen
         /\ l # 0 => (TotalParts(l) - 1) * PartLen < l
<1>1. CASE l = 0
  BY <1>1, XtraAssumption DEF TotalParts
<1>2. CASE l # 0
  <2> DEFINE q == (l - 1) \div PartLen
  <2>1. q \in Nat /\ q * PartLen <= l - 1 /\ l - 1 < q * PartLen + PartLen
    BY <1>2, XtraAssumption
  <2>2. TotalParts(l) = q + 1
    BY <1>2 DEF TotalParts
  <2>3. (q + 1) * PartLen = q * PartLen + PartLen
    BY <2>1, XtraAssumption
  <2> HIDE DEF q
  <2> QED BY <2>1, <2>2, <2>3, XtraAssumption, SMT
<1> QED BY <1>1, <1>2

-----------------------------------------------------------------------------
(* Types *)

LEMMA TypeInit == Init => TypeOK
BY XtraAssumption DEF Init, TypeOK, Statuses, Message, NoMessage, Ind

\* The offset never passes the end of the file.
OffsetInFile == pc # "idle" => len_injected <= length

\* While the call waits, the message is the one the counters describe.
Waiting == pc = "wait" => inject_xtra = Filled

BaseInv == TypeOK /\ OffsetInFile /\ Waiting

LEMMA FilledIsMessage ==
  ASSUME TypeOK, OffsetInFile, pc # "idle"
  PROVE  /\ Filled \in Message
         /\ Filled.from + Filled.partData_len <= length
         /\ Filled.partData_len <= PartLen
BY XtraAssumption DEF TypeOK, OffsetInFile, Filled, Message, ChunkLen

LEMMA StepType ==
  ASSUME TypeOK, NEW s \in Statuses, Step(s)
  PROVE  part' \in 0 .. PartMod - 1 /\ status' \in Statuses /\ pc' = "send"
<1>1. part + 1 \in Nat
  BY XtraAssumption DEF TypeOK
<1> QED BY <1>1, ModBounds, XtraAssumption DEF Step, NextPart

LEMMA BaseInit == Init => BaseInv
BY TypeInit DEF Init, BaseInv, OffsetInFile, Waiting

LEMMA BaseStep ==
  ASSUME BaseInv, [Next]_vars
  PROVE  BaseInv'
<1> USE DEF BaseInv
<1>1. ASSUME NEW l \in Lengths, setXtraData(l)
      PROVE  BaseInv'
  <2>1. FirstPart \in 0 .. PartMod - 1
    BY ModBounds, XtraAssumption DEF FirstPart
  <2> QED BY <1>1, <2>1, XtraAssumption
          DEF setXtraData, TypeOK, OffsetInFile, Waiting
<1>2. CASE SendPart
  <2>1. Filled \in Message
    BY <1>2, FilledIsMessage DEF SendPart
  <2>2. Append(requests, Filled) \in Seq(Message)
    BY <2>1 DEF TypeOK
  <2>3. TypeOK'
    BY <1>2, <2>1, <2>2 DEF SendPart, TypeOK
  <2>4. Filled' = Filled
    BY <1>2 DEF SendPart, Filled
  <2> QED BY <1>2, <2>3, <2>4 DEF SendPart, OffsetInFile, Waiting
<1>3. CASE SendFails
  <2>1. Filled \in Message
    BY <1>3, FilledIsMessage DEF SendFails
  <2>2. part' \in 0 .. PartMod - 1 /\ status' \in Statuses /\ pc' = "send"
    BY <1>3, StepType DEF SendFails, Statuses
  <2> QED BY <1>3, <2>1, <2>2 DEF SendFails, TypeOK, OffsetInFile, Waiting
<1>4. CASE Answered
  <2>1. part' \in 0 .. PartMod - 1 /\ status' \in Statuses /\ pc' = "send"
    BY <1>4, StepType DEF Answered, Statuses
  <2>2. Tail(answers) \in Seq(Ind)
    BY <1>4 DEF Answered, TypeOK
  <2>3. /\ inject_xtra.partData_len \in Nat
        /\ len_injected + inject_xtra.partData_len <= length
    BY <1>4, FilledIsMessage
    DEF Answered, Waiting, TypeOK, Message, Filled
  <2>4. len_injected' \in 0 .. LenMod - 1 /\ len_injected' <= length
    <3>1. len_injected + inject_xtra.partData_len \in Nat
      BY <2>3 DEF TypeOK
    <3>2. CASE Counts(Head(answers))
      <4>1. len_injected' = (len_injected + inject_xtra.partData_len) % LenMod
        BY <1>4, <3>2 DEF Answered
      <4>2. /\ len_injected' \in 0 .. LenMod - 1
            /\ len_injected' <= len_injected + inject_xtra.partData_len
        BY <4>1, <3>1, ModBounds, XtraAssumption
      <4> QED BY <4>2, <2>3, XtraAssumption DEF TypeOK
    <3>3. CASE ~Counts(Head(answers))
      BY <1>4, <3>3 DEF Answered, TypeOK, OffsetInFile
    <3> QED BY <3>2, <3>3
  <2>5. counted' \subseteq Message
    BY <1>4 DEF Answered, TypeOK
  <2> QED BY <1>4, <2>1, <2>2, <2>4, <2>5
          DEF Answered, TypeOK, OffsetInFile, Waiting
<1>5. CASE TimedOut
  <2>1. part' \in 0 .. PartMod - 1 /\ status' \in Statuses /\ pc' = "send"
    BY <1>5, StepType DEF TimedOut, Statuses
  <2> QED BY <1>5, <2>1 DEF TimedOut, TypeOK, OffsetInFile, Waiting
<1>6. CASE Return
  BY <1>6 DEF Return, TypeOK, OffsetInFile, Waiting
<1>7. CASE Dropped
  <2>1. Tail(answers) \in Seq(Ind)
    BY <1>7 DEF Dropped, TypeOK
  <2> QED BY <1>7, <2>1
          DEF Dropped, clientVars, TypeOK, OffsetInFile, Waiting, Filled
<1>8. ASSUME NEW ok \in BOOLEAN, Serve(ok)
      PROVE  BaseInv'
  <2>1. Head(requests) \in Message /\ Tail(requests) \in Seq(Message)
    BY <1>8 DEF Serve, TypeOK
  <2>2. [partNum |-> Head(requests).partNum, ok |-> ok] \in Ind
    BY <2>1 DEF Ind, Message
  <2>3. answers' \in Seq(Ind)
    BY <1>8, <2>2 DEF Serve, TypeOK
  <2>4. received' \subseteq Message
    BY <1>8, <2>1 DEF Serve, TypeOK
  <2> QED BY <1>8, <2>1, <2>3, <2>4
          DEF Serve, clientVars, TypeOK, OffsetInFile, Waiting, Filled
<1>9. CASE UNCHANGED vars
  BY <1>9 DEF vars, clientVars, TypeOK, OffsetInFile, Waiting, Filled
<1> QED BY <1>1, <1>2, <1>3, <1>4, <1>5, <1>6, <1>7, <1>8, <1>9
        DEF Next, Call, Client, Service

LEMMA BaseHolds == Spec => []BaseInv
<1>1. Init => BaseInv
  BY BaseInit
<1>2. BaseInv /\ [Next]_vars => BaseInv'
  BY BaseStep
<1> QED BY <1>1, <1>2, PTL DEF Spec

\* The variables keep their types, the counters their widths.
THEOREM TypeCorrect == Spec => []TypeOK
<1>1. BaseInv => TypeOK
  BY DEF BaseInv
<1> QED BY <1>1, BaseHolds, PTL

\* setXtraData never copies from outside the file or past the end of
\* partData, whatever fails and however its counters overflow.
THEOREM CopiesInsideFile == Spec => []ReadsInsideFile
<1>1. BaseInv => ReadsInsideFile
  BY FilledIsMessage DEF BaseInv, ReadsInsideFile, Waiting, Filled
<1> QED BY <1>1, BaseHolds, PTL

-----------------------------------------------------------------------------
(* Late answers: what is counted was accepted *)

\* The part counter does not overflow.
PartsFit == \A l \in Lengths : TotalParts(l) + 1 < PartMod

\* The message of the part the call waits for is the only one with its number,
\* and every other message has a lower one.
Sent(m) == m.partNum < part \/ (pc = "wait" /\ m = inject_xtra)

SentInOrder ==
  /\ \A m \in received : Sent(m)
  /\ \A i \in DOMAIN requests : Sent(requests[i])

\* A good answer is about a part the service holds.
AnswersTrue ==
  \A i \in DOMAIN answers :
    answers[i].ok => \E m \in received : m.partNum = answers[i].partNum

CallInv ==
  /\ pc # "idle" => length \in Lengths
  /\ pc = "idle" => part = 0 /\ received = {} /\ requests = <<>>
  /\ pc = "wait" => part <= TotalParts(length)

LateInv == BaseInv /\ CallInv /\ SentInOrder /\ AnswersTrue /\ CountedPartsTaken

LEMMA LateInit == Init => LateInv
BY BaseInit DEF Init, LateInv, CallInv, SentInOrder, AnswersTrue, CountedPartsTaken

\* The loop counts upwards by one.
LEMMA PartAdvances ==
  ASSUME PartsFit, BaseInv, pc \in {"send", "wait"}, length \in Lengths,
         part <= TotalParts(length), NEW s \in Statuses, Step(s)
  PROVE  part' = part + 1
<1>1. TotalParts(length) \in Nat /\ TotalParts(length) + 1 < PartMod
  BY PartsCover, XtraAssumption DEF PartsFit
<1>2. part \in Nat /\ part + 1 \in Nat /\ part + 1 < PartMod
  BY <1>1, XtraAssumption DEF BaseInv, TypeOK
<1> QED BY <1>2, ModSmall, XtraAssumption DEF Step, NextPart

LEMMA LateStep ==
  ASSUME PartsFit, LateInv, [Next]_vars
  PROVE  LateInv'
<1>0. BaseInv'
  BY BaseStep DEF LateInv
<1>t. /\ requests \in Seq(Message) /\ answers \in Seq(Ind)
      /\ received \subseteq Message /\ part \in Nat
      /\ inject_xtra \in Message
  BY XtraAssumption DEF LateInv, BaseInv, TypeOK
<1> USE DEF LateInv
<1>1. ASSUME NEW l \in Lengths, setXtraData(l)
      PROVE  LateInv'
  BY <1>0, <1>1 DEF setXtraData, CallInv, SentInOrder, AnswersTrue,
                    CountedPartsTaken, Sent
<1>2. CASE SendPart
  <2>1. Filled \in Message /\ Filled.partNum = part
    BY <1>2, FilledIsMessage DEF SendPart, BaseInv, Filled
  <2>2. \A m \in Message : Sent(m) => Sent(m)'
    BY <1>2 DEF SendPart, Sent
  <2>3. \A i \in DOMAIN requests' :
          \/ i \in DOMAIN requests /\ requests'[i] = requests[i]
          \/ requests'[i] = Filled
    BY <1>2, <1>t, <2>1 DEF SendPart
  <2>4. SentInOrder'
    <3>1. \A m : m = Filled => Sent(m)'
      BY <1>2 DEF SendPart, Sent
    <3>2. \A i \in DOMAIN requests : requests[i] \in Message
      BY <1>t
    <3>3. \A m \in received' : Sent(m)'
      BY <1>2, <1>t, <2>2 DEF SendPart, SentInOrder
    <3>4. \A i \in DOMAIN requests' : \A m : m = requests'[i] => Sent(m)'
      BY <2>2, <2>3, <3>1, <3>2 DEF SentInOrder
    <3> QED BY <3>3, <3>4 DEF SentInOrder, Sent
  <2> QED BY <1>0, <1>2, <2>4
          DEF SendPart, MoreParts, CallInv, AnswersTrue, CountedPartsTaken
<1>3. CASE SendFails
  <2>1. part' = part + 1
    BY <1>3, PartAdvances DEF SendFails, MoreParts, CallInv, Statuses
  <2>2. SentInOrder'
    <3>1. \A m \in Message : Sent(m) => Sent(m)'
      BY <1>3, <1>t, <2>1 DEF SendFails, Step, Sent, Message
    <3> QED BY <1>3, <1>t, <3>1 DEF SendFails, SentInOrder
  <2> QED BY <1>0, <1>3, <2>2
          DEF SendFails, Step, CallInv, AnswersTrue, CountedPartsTaken
<1>4. CASE Answered
  <2>1. part' = part + 1
    BY <1>4, PartAdvances DEF Answered, CallInv, Statuses
  <2>2. inject_xtra.partNum = part
    BY <1>4 DEF Answered, BaseInv, Waiting, Filled
  <2>3. SentInOrder'
    <3>1. \A m \in Message : Sent(m) => Sent(m)'
      BY <1>4, <1>t, <2>1, <2>2 DEF Answered, Step, Sent, Message
    <3> QED BY <1>4, <1>t, <3>1 DEF Answered, SentInOrder
  <2>4. Head(answers) = answers[1] /\ 1 \in DOMAIN answers
    BY <1>4, <1>t DEF Answered
  <2>5. \A i \in DOMAIN Tail(answers) :
          i + 1 \in DOMAIN answers /\ Tail(answers)[i] = answers[i + 1]
    BY <1>4, <1>t DEF Answered
  <2>6. AnswersTrue'
    BY <1>4, <2>5 DEF Answered, AnswersTrue
  <2>7. Counts(Head(answers)) => inject_xtra \in received
    <3>1. SUFFICES ASSUME Counts(Head(answers)) PROVE inject_xtra \in received
      OBVIOUS
    <3>2. PICK m \in received : m.partNum = inject_xtra.partNum
      BY <3>1, <2>4 DEF Counts, AnswersTrue
    <3>3. m = inject_xtra
      BY <1>t, <2>2, <3>2 DEF SentInOrder, Sent, Message
    <3> QED BY <3>3
  <2>8. CountedPartsTaken'
    BY <1>4, <2>7 DEF Answered, CountedPartsTaken
  <2> QED BY <1>0, <1>4, <2>3, <2>6, <2>8 DEF Answered, Step, CallInv
<1>5. CASE TimedOut
  <2>1. part' = part + 1
    BY <1>5, PartAdvances DEF TimedOut, CallInv, Statuses
  <2>2. inject_xtra.partNum = part
    BY <1>5 DEF TimedOut, BaseInv, Waiting, Filled
  <2>3. SentInOrder'
    <3>1. \A m \in Message : Sent(m) => Sent(m)'
      BY <1>5, <1>t, <2>1, <2>2 DEF TimedOut, Step, Sent, Message
    <3> QED BY <1>5, <1>t, <3>1 DEF TimedOut, SentInOrder
  <2> QED BY <1>0, <1>5, <2>3
          DEF TimedOut, Step, CallInv, AnswersTrue, CountedPartsTaken
<1>6. CASE Return
  BY <1>0, <1>6 DEF Return, CallInv, SentInOrder, Sent, AnswersTrue,
                    CountedPartsTaken
<1>7. CASE Dropped
  <2>1. \A i \in DOMAIN Tail(answers) :
          i + 1 \in DOMAIN answers /\ Tail(answers)[i] = answers[i + 1]
    BY <1>7, <1>t DEF Dropped
  <2> QED BY <1>0, <1>7, <2>1
          DEF Dropped, clientVars, CallInv, SentInOrder, Sent, AnswersTrue,
              CountedPartsTaken
<1>8. ASSUME NEW ok \in BOOLEAN, Serve(ok)
      PROVE  LateInv'
  <2>1. Head(requests) = requests[1] /\ 1 \in DOMAIN requests
    BY <1>8, <1>t DEF Serve
  <2>2. \A i \in DOMAIN Tail(requests) :
          i + 1 \in DOMAIN requests /\ Tail(requests)[i] = requests[i + 1]
    BY <1>8, <1>t DEF Serve
  <2>3. SentInOrder'
    BY <1>8, <2>1, <2>2 DEF Serve, clientVars, SentInOrder, Sent
  <2>4. \A i \in DOMAIN answers' :
          \/ i \in DOMAIN answers /\ answers'[i] = answers[i]
          \/ answers'[i] = [partNum |-> Head(requests).partNum, ok |-> ok]
    BY <1>8, <1>t DEF Serve
  <2>5. AnswersTrue'
    <3>1. \A i \in DOMAIN answers' :
            answers'[i].ok => \E m \in received' : m.partNum = answers'[i].partNum
      BY <1>8, <2>4 DEF Serve, AnswersTrue
    <3> QED BY <3>1 DEF AnswersTrue
  <2>6. CallInv'
    BY <1>8 DEF Serve, clientVars, CallInv
  <2> QED BY <1>0, <1>8, <2>3, <2>5, <2>6
          DEF Serve, clientVars, CountedPartsTaken
<1>9. CASE UNCHANGED vars
  BY <1>0, <1>9 DEF vars, clientVars, CallInv, SentInOrder, Sent, AnswersTrue,
                    CountedPartsTaken
<1> QED BY <1>1, <1>2, <1>3, <1>4, <1>5, <1>6, <1>7, <1>8, <1>9
        DEF Next, Call, Client, Service

\* While the part counter does not overflow, every part setXtraData counts as
\* injected was accepted by the service: an answer that comes late, to an
\* earlier part, is never taken for the answer to this one.
THEOREM CountedWereTaken ==
  ASSUME PartsFit
  PROVE  Spec => []CountedPartsTaken
<1>1. Init => LateInv
  BY LateInit
<1>2. LateInv /\ [Next]_vars => LateInv'
  BY LateStep
<1>3. LateInv => CountedPartsTaken
  BY DEF LateInv
<1> QED BY <1>1, <1>2, <1>3, PTL DEF Spec

-----------------------------------------------------------------------------
(* Up to the first loss the file arrives as it is *)

\* Where part p of a file begins.
Start(l, p) == IF p <= TotalParts(l) THEN (p - 1) * PartLen ELSE l

\* If every part so far was counted, the offset is where this part begins.
OffsetRight ==
  pc # "idle" /\ length < LenMod /\ CountedBefore(part) =>
    len_injected = Start(length, part)

\* A message that was sent carries the piece its number stands for, if every
\* part before it was counted.
GoodPiece(m) == length < LenMod /\ CountedBefore(m.partNum) => Right(m)

SentRight ==
  /\ \A i \in DOMAIN requests : GoodPiece(requests[i])
  /\ \A m \in received : GoodPiece(m)

\* No part after this one is counted, and this one is not while it waits.
CountedInOrder == \A m \in counted : m.partNum < part

PartIsPositive == pc # "idle" => part \in Nat \ {0}

RightInv ==
  /\ LateInv /\ OffsetRight /\ SentRight /\ CountedInOrder /\ PartIsPositive
  /\ pc = "idle" => counted = {}
  /\ pc = "wait" => GoodPiece(inject_xtra)

LEMMA TimesMonotone ==
  ASSUME NEW a \in Nat, NEW b \in Nat, NEW c \in Nat, a <= b
  PROVE  a * c <= b * c
OBVIOUS

\* The end of a part is the beginning of the next one, or of the file's end.
LEMMA NextOffset ==
  ASSUME NEW l \in Nat, NEW p \in 1 .. TotalParts(l)
  PROVE  LET off == (p - 1) * PartLen
         IN  /\ off \in Nat
             /\ off + ChunkLen(l, off) =
                  IF p + 1 <= TotalParts(l) THEN p * PartLen ELSE l
<1> DEFINE T == TotalParts(l)
           off == (p - 1) * PartLen
<1>1. T \in Nat \ {0} /\ (T - 1) * PartLen <= l /\ l <= T * PartLen
  BY PartsCover
<1>2. p \in Nat \ {0} /\ p <= T
  BY <1>1
<1>3. p * PartLen = off + PartLen /\ off \in Nat
  BY <1>2, XtraAssumption
<1> HIDE DEF T
<1>4. CASE p + 1 <= T
  <2>1. p * PartLen <= (T - 1) * PartLen
    BY <1>1, <1>2, <1>4, TimesMonotone, XtraAssumption
  <2>2. (T - 1) * PartLen \in Nat /\ p * PartLen \in Nat
    BY <1>1, <1>2, XtraAssumption
  <2> HIDE DEF off
  <2>3. PartLen <= l - off
    BY <1>1, <1>3, <2>1, <2>2, XtraAssumption
  <2>4. ChunkLen(l, off) = PartLen
    BY <1>3, <2>3, XtraAssumption DEF ChunkLen
  <2> QED BY <1>3, <1>4, <2>4 DEF T, off
<1>5. CASE ~(p + 1 <= T)
  <2>1. p = T
    BY <1>1, <1>2, <1>5
  <2> HIDE DEF off
  <2>2. l - off <= PartLen
    BY <1>1, <1>3, <2>1, XtraAssumption
  <2>3. ChunkLen(l, off) = l - off
    BY <1>3, <2>2, XtraAssumption DEF ChunkLen
  <2> QED BY <1>3, <1>5, <2>3 DEF T, off
<1> QED BY <1>4, <1>5

LEMMA RightInit == Init => RightInv
BY LateInit DEF Init, RightInv, OffsetRight, SentRight, CountedInOrder,
                PartIsPositive, GoodPiece

\* The message that is about to be sent is a good piece.
LEMMA FilledIsGood ==
  ASSUME RightInv, pc # "idle", part <= TotalParts(length)
  PROVE  GoodPiece(Filled)
<1>1. Filled.partNum = part /\ Filled.from = len_injected
      /\ Filled.partData_len = ChunkLen(length, len_injected)
  BY DEF Filled
<1>2. SUFFICES ASSUME length < LenMod, CountedBefore(part) PROVE Right(Filled)
  BY <1>1 DEF GoodPiece
<1>3. len_injected = (part - 1) * PartLen
  BY <1>2 DEF RightInv, OffsetRight, Start
<1> QED BY <1>1, <1>3 DEF Right

\* A part that was not counted breaks the row of counted parts for good.
LEMMA LostPart ==
  ASSUME RightInv, pc # "idle", part' = part + 1, counted' = counted
  PROVE  ~CountedBefore(part)'
<1>1. part \in Nat \ {0} /\ part \in 1 .. part' - 1
  BY DEF RightInv, PartIsPositive
<1>2. ~\E m \in counted : m.partNum = part
  BY <1>1 DEF RightInv, CountedInOrder
<1> QED BY <1>1, <1>2 DEF CountedBefore, Counted

\* What the loop does to the invariant when the part at hand is lost.
LEMMA LostStep ==
  ASSUME RightInv, pc # "idle", part' = part + 1, pc' = "send",
         UNCHANGED <<length, counted, requests, received>>
  PROVE  /\ OffsetRight' /\ SentRight' /\ CountedInOrder' /\ PartIsPositive'
<1>1. part \in Nat \ {0} /\ counted \subseteq Message
  BY DEF RightInv, PartIsPositive, LateInv, BaseInv, TypeOK
<1>2. OffsetRight'
  BY LostPart DEF OffsetRight
<1>3. SentRight'
  BY DEF RightInv, SentRight, GoodPiece, CountedBefore, Counted, Right
<1>4. CountedInOrder'
  BY <1>1 DEF RightInv, CountedInOrder, Message
<1> QED BY <1>1, <1>2, <1>3, <1>4 DEF PartIsPositive

LEMMA RightStep ==
  ASSUME PartsFit, RightInv, [Next]_vars
  PROVE  RightInv'
<1>0. LateInv'
  BY LateStep DEF RightInv
<1>t. /\ requests \in Seq(Message) /\ answers \in Seq(Ind)
      /\ received \subseteq Message /\ counted \subseteq Message
      /\ part \in Nat /\ length \in Nat /\ len_injected \in Nat
      /\ inject_xtra \in Message
  BY XtraAssumption DEF RightInv, LateInv, BaseInv, TypeOK
<1>T. TotalParts(length) \in Nat \ {0}
  BY <1>t, PartsCover
<1> USE DEF RightInv
<1>1. ASSUME NEW l \in Lengths, setXtraData(l)
      PROVE  RightInv'
  <2>1. l \in Nat /\ TotalParts(l) \in Nat \ {0} /\ TotalParts(l) + 1 < PartMod
    BY PartsCover, XtraAssumption DEF PartsFit
  <2>2. FirstPart = 1
    BY <2>1, ModSmall, XtraAssumption DEF FirstPart
  <2>3. counted = {} /\ received = {} /\ requests = <<>>
    BY <1>1 DEF setXtraData, LateInv, CallInv
  <2>4. Start(l, 1) = 0
    BY <2>1, XtraAssumption DEF Start
  <2> QED BY <1>0, <1>1, <2>2, <2>3, <2>4
          DEF setXtraData, OffsetRight, SentRight, CountedInOrder, PartIsPositive
<1>2. CASE SendPart
  <2>1. GoodPiece(Filled)
    BY <1>2, FilledIsGood DEF SendPart, MoreParts
  <2>2. \A i \in DOMAIN requests' :
          \/ i \in DOMAIN requests /\ requests'[i] = requests[i]
          \/ requests'[i] = Filled
    BY <1>2, <1>t DEF SendPart, LateInv, BaseInv
  <2>3. \A m : GoodPiece(m) <=> GoodPiece(m)'
    BY <1>2 DEF SendPart, GoodPiece, CountedBefore, Counted, Right
  <2>4. \A i \in DOMAIN requests' : GoodPiece(requests'[i])
    BY <2>1, <2>2 DEF SentRight
  <2>5. SentRight'
    BY <1>2, <2>3, <2>4 DEF SendPart, SentRight
  <2>6. GoodPiece(inject_xtra)'
    BY <1>2, <2>1, <2>3 DEF SendPart
  <2>7. OffsetRight' /\ CountedInOrder' /\ PartIsPositive' /\ pc' = "wait"
    BY <1>2 DEF SendPart, OffsetRight, CountedInOrder, PartIsPositive,
                CountedBefore, Counted, Start
  <2> QED BY <1>0, <2>5, <2>6, <2>7
<1>3. CASE SendFails
  <2>1. part' = part + 1
    BY <1>3, PartAdvances DEF SendFails, MoreParts, LateInv, CallInv, Statuses
  <2> QED BY <1>0, <1>3, <2>1, LostStep DEF SendFails, Step
<1>4. CASE Answered
  <2>1. part' = part + 1
    BY <1>4, PartAdvances DEF Answered, LateInv, CallInv, Statuses
  <2>2. CASE ~Counts(Head(answers))
    BY <1>0, <1>4, <2>1, <2>2, LostStep DEF Answered, Step
  <2>3. CASE Counts(Head(answers))
    <3>1. /\ inject_xtra.partNum = part
          /\ inject_xtra.partData_len = ChunkLen(length, len_injected)
      BY <1>4 DEF Answered, LateInv, BaseInv, Waiting, Filled
    <3>2. counted' = counted \cup {inject_xtra}
      BY <1>4, <2>3 DEF Answered
    <3>3. \A n \in Nat : n <= part /\ CountedBefore(n)' => CountedBefore(n)
      BY <1>t, <3>1, <3>2 DEF CountedBefore, Counted
    <3>4. \A m \in Message : m.partNum <= part /\ GoodPiece(m) => GoodPiece(m)'
      BY <1>4, <3>3 DEF Answered, GoodPiece, Right, Message
    <3>5. \A m \in Message : Sent(m) => m.partNum <= part
      BY <1>t, <3>1 DEF Sent, Message
    <3>6. SentRight'
      BY <1>4, <1>t, <3>4, <3>5 DEF Answered, SentRight, LateInv, SentInOrder
    <3>7. OffsetRight'
      <4>1. SUFFICES ASSUME length < LenMod, CountedBefore(part)'
                     PROVE  len_injected' = Start(length, part + 1)
        BY <1>4, <2>1 DEF Answered, OffsetRight, Start
      <4>2. CountedBefore(part)
        <5>1. \A k \in 1 .. part - 1 : k \in 1 .. part' - 1
          BY <1>t, <2>1
        <5> QED BY <1>t, <2>1, <3>1, <3>2, <4>1, <5>1 DEF CountedBefore, Counted
      <4>3. part \in 1 .. TotalParts(length) /\ len_injected = (part - 1) * PartLen
        BY <1>4, <1>t, <1>T, <4>1, <4>2
        DEF Answered, LateInv, CallInv, PartIsPositive, OffsetRight, Start
      <4>4. len_injected + inject_xtra.partData_len = Start(length, part + 1)
        <5>1. part + 1 - 1 = part
          BY <1>t
        <5> QED BY <3>1, <4>3, <5>1, <1>t, NextOffset DEF Start
      <4>5. /\ len_injected + inject_xtra.partData_len \in Nat
            /\ len_injected + inject_xtra.partData_len <= length
        BY <1>4, <1>t, FilledIsMessage
        DEF Answered, LateInv, BaseInv, Waiting, Message, Filled
      <4>6. len_injected + inject_xtra.partData_len < LenMod
        BY <4>1, <4>5, <1>t, XtraAssumption
      <4>7. len_injected' = len_injected + inject_xtra.partData_len
        BY <1>4, <2>3, <4>5, <4>6, ModSmall, XtraAssumption DEF Answered
      <4> QED BY <4>4, <4>7
    <3>8. CountedInOrder' /\ PartIsPositive'
      BY <1>t, <2>1, <3>1, <3>2 DEF CountedInOrder, PartIsPositive, Message
    <3> QED BY <1>0, <1>4, <3>6, <3>7, <3>8 DEF Answered, Step
  <2> QED BY <2>2, <2>3
<1>5. CASE TimedOut
  <2>1. part' = part + 1
    BY <1>5, PartAdvances DEF TimedOut, LateInv, CallInv, Statuses
  <2> QED BY <1>0, <1>5, <2>1, LostStep DEF TimedOut, Step
<1>6. CASE Return
  BY <1>0, <1>6 DEF Return, OffsetRight, SentRight, GoodPiece, Right,
     CountedBefore, Counted, CountedInOrder, PartIsPositive, Start
<1>7. CASE Dropped
  BY <1>0, <1>7 DEF Dropped, clientVars, OffsetRight, SentRight, GoodPiece,
     Right, CountedBefore, Counted, CountedInOrder, PartIsPositive, Start
<1>8. ASSUME NEW ok \in BOOLEAN, Serve(ok)
      PROVE  RightInv'
  <2>1. Head(requests) = requests[1] /\ 1 \in DOMAIN requests
    BY <1>8, <1>t DEF Serve
  <2>2. \A i \in DOMAIN Tail(requests) :
          i + 1 \in DOMAIN requests /\ Tail(requests)[i] = requests[i + 1]
    BY <1>8, <1>t DEF Serve
  <2>3. \A m : GoodPiece(m) <=> GoodPiece(m)'
    BY <1>8 DEF Serve, clientVars, GoodPiece, CountedBefore, Counted, Right
  <2>4. \A i \in DOMAIN requests' : GoodPiece(requests'[i])
    BY <1>8, <2>2 DEF Serve, SentRight
  <2>5. \A m \in received' : GoodPiece(m)
    BY <1>8, <2>1 DEF Serve, SentRight
  <2>6. SentRight'
    BY <2>3, <2>4, <2>5 DEF SentRight
  <2>7. OffsetRight' /\ CountedInOrder' /\ PartIsPositive'
    BY <1>8 DEF Serve, clientVars, OffsetRight, CountedInOrder, PartIsPositive,
                CountedBefore, Counted, Start
  <2> QED BY <1>0, <1>8, <2>3, <2>6, <2>7 DEF Serve, clientVars
<1>9. CASE UNCHANGED vars
  BY <1>0, <1>9 DEF vars, clientVars, OffsetRight, SentRight, GoodPiece,
     Right, CountedBefore, Counted, CountedInOrder, PartIsPositive, Start
<1> QED BY <1>1, <1>2, <1>3, <1>4, <1>5, <1>6, <1>7, <1>8, <1>9
        DEF Next, Call, Client, Service

LEMMA RightHolds ==
  ASSUME PartsFit
  PROVE  Spec => []RightInv
<1>1. Init => RightInv
  BY RightInit
<1>2. RightInv /\ [Next]_vars => RightInv'
  BY RightStep
<1> QED BY <1>1, <1>2, PTL DEF Spec

\* While the part counter does not overflow, and in a file whose size fits
\* len_injected: whatever fails, up to the first part that was lost every part
\* the service holds is the piece of the file its number stands for.
THEOREM PartsRight ==
  ASSUME PartsFit
  PROVE  Spec => []PartsAreRight
<1>1. RightInv => PartsAreRight
  BY DEF RightInv, SentRight, GoodPiece, PartsAreRight
<1> QED BY <1>1, RightHolds, PTL

\* The service has the whole file.
Whole ==
  \A n \in 1 .. TotalParts(length) :
    \E m \in received : m.partNum = n /\ Right(m)

\* Under the same conditions, a file all of whose parts were counted as injected
\* is with the service as a whole.
THEOREM WholeWhenCounted ==
  ASSUME PartsFit
  PROVE  Spec => [](length < LenMod /\ CountedBefore(TotalParts(length) + 1) => Whole)
<1> DEFINE All == length < LenMod /\ CountedBefore(TotalParts(length) + 1)
<1>1. RightInv => (All => Whole)
  <2>1. SUFFICES ASSUME RightInv, All, NEW n \in 1 .. TotalParts(length)
                 PROVE  \E m \in received : m.partNum = n /\ Right(m)
    BY DEF Whole
  <2>2. TotalParts(length) \in Nat
    BY <2>1, PartsCover DEF RightInv, LateInv, BaseInv, TypeOK
  <2>3. PICK m \in counted : m.partNum = n
    BY <2>1, <2>2 DEF CountedBefore, Counted
  <2>4. CountedBefore(n)
    BY <2>1, <2>2 DEF CountedBefore
  <2>5. m \in received
    BY <2>1, <2>3 DEF RightInv, LateInv, CountedPartsTaken
  <2> QED BY <2>1, <2>3, <2>4, <2>5 DEF RightInv, SentRight, GoodPiece
<1> HIDE DEF All
<1>2. Spec => [](All => Whole)
  BY <1>1, RightHolds, PTL
<1> QED BY <1>2 DEF All
-----------------------------------------------------------------------------
(* The file arrives in order *)

\* Where the bytes end that the service holds of a file no part of which is lost.
Reached ==
  IF pc = "wait" /\ inject_xtra \in received
  THEN inject_xtra.from + inject_xtra.partData_len ELSE len_injected

LEMMA InBytes ==
  ASSUME NEW S, NEW x
  PROVE  x \in Bytes(S)
           <=> \E m \in S : x \in m.from .. m.from + m.partData_len - 1
BY DEF Bytes

\* A byte of the file before the beginning of part p is in a part before p.
LEMMA PartOf ==
  ASSUME NEW l \in Nat, NEW p \in Nat \ {0}, NEW x \in Nat, x < Start(l, p)
  PROVE  \E n \in 1 .. p - 1 :
           /\ n <= TotalParts(l)
           /\ x \in (n - 1) * PartLen ..
                    (n - 1) * PartLen + ChunkLen(l, (n - 1) * PartLen) - 1
<1> DEFINE q == x \div PartLen
           n == q + 1
<1>1. q \in Nat /\ q * PartLen <= x /\ x < q * PartLen + PartLen
  BY XtraAssumption
<1>2. (q + 1) * PartLen = q * PartLen + PartLen
  BY <1>1, XtraAssumption
<1>3. TotalParts(l) \in Nat \ {0} /\ l <= TotalParts(l) * PartLen
  BY PartsCover
<1>4. x < l /\ q < TotalParts(l) /\ q < p - 1
  <2>1. CASE p <= TotalParts(l)
    <3>1. x < (p - 1) * PartLen
      BY <2>1 DEF Start
    <3>2. q < p - 1
      <4>1. ~(p - 1 <= q)
        <5>1. p - 1 <= q => (p - 1) * PartLen <= q * PartLen
          BY <1>1, TimesMonotone, XtraAssumption
        <5>2. (p - 1) * PartLen \in Nat /\ q * PartLen \in Nat
          BY <1>1, XtraAssumption
        <5> HIDE DEF q
        <5> QED BY <1>1, <3>1, <5>1, <5>2
      <4> HIDE DEF q
      <4> QED BY <1>1, <4>1
    <3>3. (p - 1) * PartLen <= (TotalParts(l) - 1) * PartLen
      BY <1>3, <2>1, TimesMonotone, XtraAssumption
    <3>4. (p - 1) * PartLen \in Nat /\ (TotalParts(l) - 1) * PartLen \in Nat
      BY <1>3, XtraAssumption
    <3>5. (TotalParts(l) - 1) * PartLen <= l
      BY PartsCover
    <3> HIDE DEF q
    <3> QED BY <1>1, <1>3, <2>1, <3>1, <3>2, <3>3, <3>4, <3>5
  <2>2. CASE ~(p <= TotalParts(l))
    <3>1. x < l
      BY <2>2 DEF Start
    <3>2. TotalParts(l) <= q => TotalParts(l) * PartLen <= q * PartLen
      BY <1>1, <1>3, TimesMonotone, XtraAssumption
    <3>3. TotalParts(l) * PartLen \in Nat /\ q * PartLen \in Nat
      BY <1>1, <1>3, XtraAssumption
    <3> HIDE DEF q
    <3> QED BY <1>1, <1>3, <2>2, <3>1, <3>2, <3>3
  <2> QED BY <2>1, <2>2
<1> HIDE DEF q
<1>5. q * PartLen \in Nat
  BY <1>1, XtraAssumption
<1>6. x < q * PartLen + ChunkLen(l, q * PartLen)
  BY <1>1, <1>4, <1>5, XtraAssumption DEF ChunkLen
<1>7. n \in 1 .. p - 1 /\ n <= TotalParts(l) /\ n - 1 = q
  BY <1>1, <1>3, <1>4
<1>8. x \in (n - 1) * PartLen ..
            (n - 1) * PartLen + ChunkLen(l, (n - 1) * PartLen) - 1
  <2>1. ChunkLen(l, q * PartLen) \in Int
    BY <1>5, XtraAssumption DEF ChunkLen
  <2> QED BY <1>1, <1>5, <1>6, <1>7, <2>1
<1> QED BY <1>7, <1>8

\* The parts before p end no later than p begins.
LEMMA PartBefore ==
  ASSUME NEW l \in Nat, NEW p \in Nat \ {0}, NEW n \in 1 .. p - 1
  PROVE  LET off == (n - 1) * PartLen
         IN  off \in Nat /\ off + ChunkLen(l, off) <= Start(l, p)
<1> DEFINE off == (n - 1) * PartLen
           T == TotalParts(l)
<1>1. /\ T \in Nat \ {0} /\ (T - 1) * PartLen <= l /\ l <= T * PartLen
      /\ off \in Nat /\ n * PartLen \in Nat
  BY PartsCover, XtraAssumption
<1>2. n <= T => off + ChunkLen(l, off) = IF n + 1 <= T THEN n * PartLen ELSE l
  BY <1>1, NextOffset
<1>3. CASE p <= T
  <2>1. n * PartLen <= (p - 1) * PartLen
    BY TimesMonotone, XtraAssumption
  <2> HIDE DEF off, T
  <2>2. n + 1 <= T /\ n <= T
    BY <1>1, <1>3
  <2> QED BY <1>1, <1>2, <1>3, <2>1, <2>2 DEF Start, off, T
<1>4. CASE ~(p <= T) /\ n <= T
  <2>1. n + 1 <= T => n * PartLen <= (T - 1) * PartLen
    BY <1>1, TimesMonotone, XtraAssumption
  <2>2. (T - 1) * PartLen \in Nat
    BY <1>1, XtraAssumption
  <2> HIDE DEF off, T
  <2>3. off + ChunkLen(l, off) <= l
    BY <1>1, <1>2, <1>4, <2>1, <2>2
  <2> QED BY <1>1, <1>4, <2>3 DEF Start, off, T
<1>5. CASE ~(p <= T) /\ ~(n <= T)
  <2>1. T * PartLen <= off
    BY <1>1, <1>5, TimesMonotone, XtraAssumption
  <2>2. T * PartLen \in Nat
    BY <1>1, XtraAssumption
  <2> HIDE DEF off, T
  <2>3. off + ChunkLen(l, off) = l
    BY <1>1, <2>1, <2>2, XtraAssumption DEF ChunkLen
  <2> QED BY <1>1, <1>5, <2>3 DEF Start, off, T
<1> QED BY <1>3, <1>4, <1>5

\* What the invariants say of a file no part of which is lost.
LEMMA NothingLost ==
  ASSUME RightInv, Fits, ~Lost
  PROVE  /\ part \in Nat \ {0} /\ length \in Nat
         /\ len_injected \in Nat /\ len_injected = Start(length, part)
         /\ received \subseteq Message /\ counted \subseteq received
         /\ \A m \in received : m.partNum < part => Right(m)
         /\ \A n \in 1 .. part - 1 : \E m \in received : m.partNum = n /\ Right(m)
         /\ \A m \in Message : m.partNum < part /\ Right(m) => m.partNum \in 1 .. part - 1
<1>1. /\ part \in Nat \ {0} /\ length \in Nat /\ len_injected \in Nat
      /\ received \subseteq Message /\ counted \subseteq received
  BY XtraAssumption DEF RightInv, PartIsPositive, Fits, LateInv, BaseInv, TypeOK,
    CountedPartsTaken
<1>2. len_injected = Start(length, part)
  BY DEF RightInv, OffsetRight, Fits, Lost
<1>3. \A n \in Nat : n < part => CountedBefore(n)
  BY <1>1 DEF Lost, CountedBefore
<1>4. \A m \in received : m.partNum < part => Right(m)
  BY <1>1, <1>3 DEF Message, RightInv, SentRight, GoodPiece, Fits
<1>5. \A n \in 1 .. part - 1 : \E m \in received : m.partNum = n /\ Right(m)
  <2> SUFFICES ASSUME NEW n \in 1 .. part - 1
               PROVE  \E m \in received : m.partNum = n /\ Right(m)
    OBVIOUS
  <2>1. PICK m \in counted : m.partNum = n
    BY DEF Lost, CountedBefore, Counted
  <2>2. n < part
    BY <1>1
  <2> QED BY <1>1, <1>4, <2>1, <2>2
<1>6. ASSUME NEW m \in Message, m.partNum < part, Right(m)
      PROVE  m.partNum \in 1 .. part - 1
  <2>1. m.partNum \in Nat /\ m.from \in Nat /\ m.from = (m.partNum - 1) * PartLen
    BY <1>6 DEF Message, Right
  <2>2. m.partNum # 0
    <3> SUFFICES ASSUME m.partNum = 0 PROVE FALSE
      OBVIOUS
    <3>1. m.from = -PartLen
      BY <2>1, XtraAssumption
    <3> QED BY <2>1, <3>1, XtraAssumption
  <2> QED BY <1>1, <1>6, <2>1, <2>2
<1> QED BY <1>1, <1>2, <1>4, <1>5, <1>6

\* They are the first ones, without a gap.
LEMMA BytesInOrder ==
  ASSUME RightInv, Fits, ~Lost
  PROVE  /\ Reached \in Nat /\ Reached <= length
         /\ Bytes(received) = 0 .. Reached - 1
<1>1. /\ part \in Nat \ {0} /\ length \in Nat /\ len_injected \in Nat
      /\ len_injected = Start(length, part) /\ len_injected <= length
      /\ received \subseteq Message
  BY NothingLost DEF RightInv, LateInv, BaseInv, OffsetInFile, Fits
<1>2. pc = "wait" =>
        /\ inject_xtra \in Message /\ inject_xtra.from = len_injected
        /\ inject_xtra.from + inject_xtra.partData_len <= length
  BY FilledIsMessage DEF RightInv, LateInv, BaseInv, Waiting, Filled
<1>3. /\ Reached \in Nat /\ Reached <= length /\ len_injected <= Reached
      /\ pc = "wait" /\ inject_xtra \in received =>
           Reached = inject_xtra.from + inject_xtra.partData_len
      /\ ~(pc = "wait" /\ inject_xtra \in received) => Reached = len_injected
  BY <1>1, <1>2 DEF Reached, Message
<1>4. ASSUME NEW m \in received, NEW x \in m.from .. m.from + m.partData_len - 1
      PROVE  x \in 0 .. Reached - 1
  <2>1. m \in Message /\ m.from \in Nat /\ m.partData_len \in Nat
    BY <1>1 DEF Message
  <2>2. x \in Int /\ 0 <= x /\ x < m.from + m.partData_len
    BY <2>1
  <2>3. CASE m.partNum < part
    <3>1. Right(m) /\ m.partNum \in 1 .. part - 1
      BY <2>1, <2>3, NothingLost
    <3>2. m.from + m.partData_len <= len_injected
      BY <1>1, <3>1, PartBefore DEF Right
    <3> QED BY <1>1, <1>3, <2>1, <2>2, <3>2
  <2>4. CASE pc = "wait" /\ m = inject_xtra
    BY <1>3, <2>1, <2>2, <2>4
  <2> QED BY <2>3, <2>4 DEF RightInv, LateInv, SentInOrder, Sent
<1>5. ASSUME NEW x \in 0 .. Reached - 1
      PROVE  \E m \in received : x \in m.from .. m.from + m.partData_len - 1
  <2>1. x \in Nat /\ x < Reached
    BY <1>3
  <2>2. CASE x < len_injected
    <3>1. PICK n \in 1 .. part - 1 :
            x \in (n - 1) * PartLen ..
                  (n - 1) * PartLen + ChunkLen(length, (n - 1) * PartLen) - 1
      BY <1>1, <2>1, <2>2, PartOf
    <3>2. PICK m \in received : m.partNum = n /\ Right(m)
      BY NothingLost
    <3> QED BY <3>1, <3>2 DEF Right
  <2>3. CASE ~(x < len_injected)
    <3>1. pc = "wait" /\ inject_xtra \in received
      BY <1>1, <1>3, <2>1, <2>3
    <3>2. x \in inject_xtra.from .. inject_xtra.from + inject_xtra.partData_len - 1
      BY <1>1, <1>2, <1>3, <2>1, <2>3, <3>1 DEF Message
    <3> QED BY <3>1, <3>2
  <2> QED BY <2>2, <2>3
<1>6. Bytes(received) = 0 .. Reached - 1
  <2>1. \A x : x \in Bytes(received) <=> x \in 0 .. Reached - 1
    BY <1>4, <1>5, InBytes
  <2> QED BY <2>1
<1> QED BY <1>3, <1>6

\* What the service holds of a file no part of which is lost.
GotOK == Fits /\ ~Lost => Got = Reached /\ Reached \in Nat /\ Reached <= length

LEMMA GotIsReached ==
  ASSUME RightInv
  PROVE  GotOK
<1> SUFFICES ASSUME Fits, ~Lost
             PROVE  Got = Reached /\ Reached \in Nat /\ Reached <= length
  BY DEF GotOK
<1>1. /\ Reached \in Nat /\ Reached <= length
      /\ Bytes(received) = 0 .. Reached - 1
  BY BytesInOrder
<1>2. Cardinality(0 .. Reached - 1) = Reached
  <2>1. Cardinality(0 .. Reached - 1) =
          IF 0 > Reached - 1 THEN 0 ELSE (Reached - 1) - 0 + 1
    BY <1>1, FS_Interval
  <2> QED BY <1>1, <2>1
<1> QED BY <1>1, <1>2 DEF Got

-----------------------------------------------------------------------------
(* setXtraData implements FileTransfer *)

LEMMA TransferInit == Init => Transfer!Init
BY DEF Init, Transfer!Init, Fits

\* A step that sends or receives nothing, and loses nothing, is none of the
\* transfer.
LEMMA TransferStutter ==
  ASSUME UNCHANGED <<length, received>>, pc # "idle", pc' # "idle",
         pc = "done" <=> pc' = "done", Fits => (Lost' <=> Lost)
  PROVE  UNCHANGED Transfer!vars
<1>1. Got' = Got /\ Fits' = Fits
  BY DEF Got, Fits
<1> QED BY <1>1 DEF Transfer!vars, Fits

\* Giving up a part loses it, or changes nothing when one was lost before.
LEMMA TransferLoses ==
  ASSUME RightInv, pc \in {"send", "wait"}, pc' = "send",
         part' = part + 1, UNCHANGED <<length, counted, received>>
  PROVE  [Transfer!Lose]_(Transfer!vars)
<1>1. Lost'
  BY LostPart DEF Lost
<1>2. CASE Fits
  <2>1. Fits' /\ length # -1
    BY <1>2, XtraAssumption DEF Fits, RightInv, LateInv, BaseInv, TypeOK
  <2> QED BY <1>1, <1>2, <2>1 DEF Transfer!Lose
<1>3. CASE ~Fits
  BY <1>3 DEF Fits, Transfer!vars
<1> QED BY <1>2, <1>3

\* What the service takes in is the next piece, when no part is lost; it has
\* every other message already.
LEMMA TransferTakes ==
  ASSUME RightInv, GotOK, GotOK', NEW ok \in BOOLEAN, Serve(ok)
  PROVE  [Transfer!Take]_(Transfer!vars)
<1> DEFINE m == Head(requests)
<1>1. /\ requests # <<>> /\ requests \in Seq(Message)
      /\ UNCHANGED clientVars
      /\ received' = received \/ received' = received \cup {m}
  BY DEF Serve, RightInv, LateInv, BaseInv, TypeOK
<1>2. /\ Fits' = Fits /\ Lost' = Lost /\ pc # "idle"
  BY <1>1 DEF clientVars, Fits, Lost, CountedBefore, Counted, RightInv, LateInv,
    CallInv
<1>3. m \in Message /\ 1 \in DOMAIN requests /\ m = requests[1]
  BY <1>1
<1> HIDE DEF m
<1>4. CASE received' = received \/ ~Fits \/ Lost
  BY <1>1, <1>2, <1>4 DEF Transfer!vars, clientVars, Got, Fits
<1>5. CASE received' # received /\ Fits /\ ~Lost
  <2>1. m \notin received /\ received' = received \cup {m}
    BY <1>1, <1>5
  <2>2. Sent(m) /\ GoodPiece(m)
    BY <1>3 DEF RightInv, LateInv, SentInOrder, SentRight
  <2>3. ~(m.partNum < part)
    <3> SUFFICES ASSUME m.partNum < part PROVE m \in received
      BY <2>1
    <3>1. m.partNum \in Nat /\ part \in Nat
      BY <1>3, <1>5, NothingLost DEF Message
    <3>2. Right(m)
      BY <1>5, <2>2, <3>1 DEF GoodPiece, Fits, Lost, CountedBefore
    <3>3. m.partNum \in 1 .. part - 1
      BY <1>3, <1>5, <3>2, NothingLost
    <3>4. PICK h \in received : h.partNum = m.partNum /\ Right(h)
      BY <1>5, <3>3, NothingLost
    <3>5. h \in Message
      BY <1>5, NothingLost
    <3>6. h = m
      BY <1>3, <3>2, <3>4, <3>5 DEF Right, Message
    <3> QED BY <3>6
  <2>4. pc = "wait" /\ m = inject_xtra
    BY <2>2, <2>3 DEF Sent
  <2>5. /\ m.from = len_injected /\ m.partData_len \in 0 .. PartLen
        /\ len_injected \in Nat
    <3>1. BaseInv
      BY DEF RightInv, LateInv
    <3>2. m = Filled
      BY <2>4, <3>1 DEF BaseInv, Waiting
    <3>3. m.partData_len \in Nat /\ m.partData_len <= PartLen
      BY <1>2, <1>3, <3>1, <3>2, FilledIsMessage DEF BaseInv, Message
    <3>4. m.from = len_injected /\ len_injected \in Nat
      BY <1>5, <3>2, NothingLost DEF Filled
    <3> QED BY <3>3, <3>4, XtraAssumption
  <2>6. Reached = len_injected /\ Reached' = len_injected + m.partData_len
    BY <1>1, <2>1, <2>4, <2>5 DEF Reached, clientVars
  <2>7. Got = Reached
    BY <1>5 DEF GotOK
  <2>8. Got' = Reached' /\ Reached' <= length'
    BY <1>2, <1>5 DEF GotOK
  <2>9. length' = length /\ pc' = pc /\ length \in Nat
    BY <1>1 DEF clientVars, RightInv, LateInv, BaseInv, TypeOK
  <2>10. CASE m.partData_len = 0
    <3>1. Got' = Got
      BY <2>5, <2>6, <2>7, <2>8, <2>10
    <3> QED BY <1>2, <2>9, <3>1 DEF Transfer!vars, Fits
  <2>11. CASE m.partData_len # 0
    <3>1. m.partData_len \in 1 .. PartLen
      BY <2>5, <2>11, XtraAssumption
    <3>2. Got' = Got + m.partData_len /\ Got + m.partData_len <= length
      BY <2>6, <2>7, <2>8, <2>9
    <3>3. length # -1 /\ Got # -1
      BY <2>5, <2>6, <2>7, <2>9
    <3> QED BY <1>2, <1>5, <2>9, <3>1, <3>2, <3>3 DEF Transfer!Take, Fits
  <2> QED BY <2>10, <2>11
<1> QED BY <1>4, <1>5

\* The call ends behind the last part: the whole file is there, or a part is lost.
LEMMA TransferFinishes ==
  ASSUME RightInv, GotOK, Return
  PROVE  [Transfer!Finish]_(Transfer!vars)
<1>1. /\ pc = "send" /\ pc' = "done" /\ ~MoreParts
      /\ UNCHANGED <<length, part, counted, received>>
  BY DEF Return
<1>2. Got' = Got /\ Fits' = Fits /\ Lost' = Lost
  BY <1>1 DEF Got, Fits, Lost, CountedBefore, Counted
<1>3. CASE ~Fits
  BY <1>2, <1>3 DEF Transfer!vars
<1>4. CASE Fits
  <2>1. length \in Nat
    BY DEF RightInv, LateInv, BaseInv, TypeOK
  <2>2. ~Lost => Got = length
    <3> SUFFICES ASSUME ~Lost PROVE Got = length
      OBVIOUS
    <3>1. Got = Reached /\ Reached = len_injected
      BY <1>1, <1>4 DEF GotOK, Reached
    <3>2. len_injected = Start(length, part)
      BY <1>4, NothingLost
    <3> QED BY <1>1, <3>1, <3>2 DEF MoreParts, Start
  <2> QED BY <1>1, <1>2, <1>4, <2>1, <2>2 DEF Transfer!Finish, Fits
<1> QED BY <1>3, <1>4

LEMMA TransferStep ==
  ASSUME PartsFit, RightInv, GotOK, GotOK', [Next]_vars
  PROVE  [Transfer!Next]_(Transfer!vars)
<1>t. part \in Nat /\ length \in Nat /\ LenMod \in Nat /\ Lengths \subseteq Nat
  BY XtraAssumption DEF RightInv, LateInv, BaseInv, TypeOK
<1>1. ASSUME NEW l \in Lengths, setXtraData(l)
      PROVE  [Transfer!Next]_(Transfer!vars)
  <2>1. received = {} /\ pc = "idle" /\ pc' = "send" /\ length' = l /\ received' = {}
    BY <1>1 DEF setXtraData, RightInv, LateInv, CallInv
  <2>2. FirstPart = 1
    <3>1. TotalParts(l) \in Nat \ {0} /\ TotalParts(l) + 1 < PartMod
      BY <1>t, PartsCover DEF PartsFit
    <3> QED BY <3>1, ModSmall, XtraAssumption DEF FirstPart
  <2>3. ~Lost'
    BY <1>1, <2>2 DEF setXtraData, Lost, CountedBefore
  <2>4. Got' = 0
    <3>1. Bytes({}) = {}
      BY DEF Bytes
    <3>2. Cardinality({}) = 0
      BY FS_EmptySet
    <3>3. {} = 0 .. 0 - 1
      OBVIOUS
    <3> QED BY <2>1, <3>1, <3>2, <3>3 DEF Got
  <2>5. CASE l < LenMod
    BY <2>1, <2>3, <2>4, <2>5, <1>t DEF Transfer!Next, Transfer!Begin, Fits
  <2>6. CASE ~(l < LenMod)
    BY <2>1, <2>6 DEF Transfer!vars, Fits
  <2> QED BY <2>5, <2>6
<1>2. CASE SendPart
  <2>1. pc = "send" /\ pc' = "wait" /\ UNCHANGED <<length, part, counted, received>>
    BY <1>2 DEF SendPart
  <2>2. Lost' = Lost
    BY <2>1 DEF Lost, CountedBefore, Counted
  <2> QED BY <2>1, <2>2, TransferStutter
<1>3. CASE SendFails
  <2>1. part' = part + 1
    BY <1>3, PartAdvances DEF SendFails, MoreParts, RightInv, LateInv, CallInv,
      Statuses
  <2> QED BY <1>3, <2>1, TransferLoses DEF SendFails, Step, Transfer!Next
<1>4. CASE Answered
  <2>1. part' = part + 1
    BY <1>4, PartAdvances DEF Answered, RightInv, LateInv, CallInv, Statuses
  <2>2. CASE ~Counts(Head(answers))
    BY <1>4, <2>1, <2>2, TransferLoses DEF Answered, Step, Transfer!Next
  <2>3. CASE Counts(Head(answers))
    <3>1. /\ pc = "wait" /\ pc' = "send" /\ UNCHANGED <<length, received>>
          /\ counted' = counted \cup {inject_xtra}
      BY <1>4, <2>3 DEF Answered, Step
    <3>2. inject_xtra.partNum = part
      BY <3>1 DEF RightInv, LateInv, BaseInv, Waiting, Filled
    <3>3. \A k \in 1 .. part - 1 :
            (\E m \in counted' : m.partNum = k) <=> Counted(k)
      BY <1>t, <3>1, <3>2 DEF Counted
    <3>4. \E m \in counted' : m.partNum = part
      BY <3>1, <3>2
    <3>5. part \in Nat \ {0}
      BY <3>1 DEF RightInv, PartIsPositive
    <3>6. Lost' = Lost
      <4>1. CountedBefore(part)' <=> CountedBefore(part)
        <5>1. \A k : k \in 1 .. part' - 1 <=> k \in 1 .. part - 1 \/ k = part
          BY <2>1, <3>5
        <5>2. CountedBefore(part)' <=>
                \A k \in 1 .. part' - 1 : \E m \in counted' : m.partNum = k
          BY DEF CountedBefore, Counted
        <5> QED BY <2>1, <3>3, <3>4, <5>1, <5>2 DEF CountedBefore
      <4> QED BY <4>1 DEF Lost
    <3> QED BY <3>1, <3>6, TransferStutter
  <2> QED BY <2>2, <2>3
<1>5. CASE TimedOut
  <2>1. part' = part + 1
    BY <1>5, PartAdvances DEF TimedOut, RightInv, LateInv, CallInv, Statuses
  <2> QED BY <1>5, <2>1, TransferLoses DEF TimedOut, Step, Transfer!Next
<1>6. CASE Return
  BY <1>6, TransferFinishes DEF Transfer!Next
<1>7. CASE Dropped \/ UNCHANGED vars
  BY <1>7 DEF Dropped, vars, clientVars, Transfer!vars, Fits, Lost, Got,
    CountedBefore, Counted
<1>8. ASSUME NEW ok \in BOOLEAN, Serve(ok)
      PROVE  [Transfer!Next]_(Transfer!vars)
  BY <1>8, TransferTakes DEF Transfer!Next
<1> QED BY <1>1, <1>2, <1>3, <1>4, <1>5, <1>6, <1>7, <1>8
        DEF Next, Call, Client, Service

\* setXtraData, whatever fails and however late the answers come, is a file
\* transfer: seen from the service, the bytes arrive in order and once each until
\* a part is lost, and without a loss the call returns only when the whole file
\* is there.  The counter of parts must not overflow.
THEOREM InjectionIsTransfer ==
  ASSUME PartsFit
  PROVE  Spec => ImplementsTransfer
<1>1. RightInv => GotOK
  BY GotIsReached
<1>2. RightInv /\ GotOK /\ GotOK' /\ [Next]_vars
        => [Transfer!Next]_(Transfer!vars)
  BY TransferStep
<1> QED BY <1>1, <1>2, TransferInit, RightHolds, PTL
        DEF Spec, ImplementsTransfer, Transfer!Spec
=============================================================================
