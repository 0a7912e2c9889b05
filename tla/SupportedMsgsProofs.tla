------------------------ MODULE SupportedMsgsProofs ------------------------
(***************************************************************************)
(* Theorems about SupportedMsgs, for any widths, any list of messages that *)
(* is as the one of LocApiV02::open, and any array a service may send.     *)
(***************************************************************************)
EXTENDS SupportedMsgs, TLAPS

\* The list is shorter than an int is wide, and the byte of every id is so far
\* behind in the array that the limit of the loop in bytes does not matter.
FewLargeIds ==
  /\ Len(MsgArray) < IntBits
  /\ \A i \in 1 .. Len(MsgArray) :
       MsgArray[i] \div ByteBits >= Len(MsgArray) - 1

-----------------------------------------------------------------------------
(* Bits and bytes *)

\* A number has one quotient and one remainder.
LEMMA DivisionUnique ==
  ASSUME NEW B \in Nat \ {0}, NEW q \in Nat, NEW r \in 0 .. B - 1
  PROVE  (q * B + r) \div B = q /\ (q * B + r) % B = r
BY SMTT(30)

\* Every number is made of its quotient and its remainder.
LEMMA Division ==
  ASSUME NEW B \in Nat \ {0}, NEW n \in Nat
  PROVE  /\ n \div B \in Nat /\ n % B \in 0 .. B - 1
         /\ n = (n \div B) * B + (n % B)
<1>1. PICK q \in Nat, r \in 0 .. B - 1 : n = q * B + r
  <2> DEFINE q == n \div B
  <2>1. q \in Nat /\ q * B <= n /\ n < q * B + B
    OBVIOUS
  <2> HIDE DEF q
  <2>2. q * B \in Nat
    BY <2>1
  <2>3. n - q * B \in 0 .. B - 1 /\ n = q * B + (n - q * B)
    BY <2>1, <2>2
  <2> QED BY <2>1, <2>3
<1>2. n \div B = q /\ n % B = r
  BY <1>1, DivisionUnique
<1> QED BY <1>1, <1>2

\* The test of the loop finds exactly the messages that are in the array.
LEMMA BitIsThere ==
  ASSUME NEW array \in Seq(Bytes), NEW id \in Nat
  PROVE  HasBit(array, id) <=> Supports(array, id)
<1> DEFINE q == id \div ByteBits
           r == id % ByteBits
<1>1. q \in Nat /\ r \in 0 .. ByteBits - 1 /\ id = q * ByteBits + r
  BY Division, SupportedAssumption
<1>2. Len(array) \in Nat
  OBVIOUS
<1>3. ASSUME HasBit(array, id) PROVE Supports(array, id)
  <2>1. Len(array) > q /\ r \in array[q + 1]
    BY <1>3 DEF HasBit
  <2> HIDE DEF q, r
  <2>2. q + 1 \in 1 .. Len(array) /\ (q + 1) - 1 = q
    BY <1>1, <1>2, <2>1
  <2> QED BY <1>1, <2>1, <2>2 DEF Supports
<1>4. ASSUME Supports(array, id) PROVE HasBit(array, id)
  <2>1. PICK n \in 1 .. Len(array), bit \in 0 .. ByteBits - 1 :
          id = (n - 1) * ByteBits + bit /\ bit \in array[n]
    BY <1>4 DEF Supports
  <2>2. n - 1 \in Nat /\ (n - 1) + 1 = n /\ Len(array) > n - 1
    BY <1>2, <2>1
  <2>3. q = n - 1 /\ r = bit
    BY <2>1, <2>2, DivisionUnique, SupportedAssumption
  <2>4. Len(array) > q /\ r \in array[q + 1]
    BY <2>1, <2>2, <2>3
  <2> QED BY <2>4 DEF HasBit
<1> QED BY <1>3, <1>4

\* When the limit in bytes cuts the loop short, nothing is missed.
LEMMA LoopIsLongEnough ==
  ASSUME FewLargeIds, NEW array \in Seq(Bytes)
  PROVE  HitBits(array) = Wanted(array)
<1> DEFINE N == Len(MsgArray)
<1>1. N \in Nat /\ Len(array) \in Nat /\ N < IntBits /\ IntBits <= WordBits
      /\ IntBits \in Nat /\ WordBits \in Nat
  BY SupportedAssumption DEF FewLargeIds
<1>2. \A idx \in 0 .. N - 1 : MsgArray[idx + 1] \in Nat
  BY SupportedAssumption
<1>3. LoopSize(array) = IF N < Len(array) THEN N ELSE Len(array)
  BY <1>1 DEF LoopSize, Minimum
<1>4. ASSUME NEW idx \in 0 .. N - 1, HasBit(array, MsgArray[idx + 1])
      PROVE  idx \in 0 .. LoopSize(array) - 1
  <2>1. idx + 1 \in 1 .. N
    BY <1>1
  <2>2. MsgArray[idx + 1] \div ByteBits >= N - 1
    BY <2>1 DEF FewLargeIds
  <2>3. MsgArray[idx + 1] \div ByteBits \in Nat
    BY <1>2, Division, SupportedAssumption
  <2>4. Len(array) > MsgArray[idx + 1] \div ByteBits
    BY <1>4 DEF HasBit
  <2>5. Len(array) >= N
    BY <1>1, <2>2, <2>3, <2>4
  <2> QED BY <1>1, <1>3, <2>5
<1>5. \A idx \in 0 .. LoopSize(array) - 1 : idx \in 0 .. N - 1
  BY <1>1, <1>3
<1>6. \A idx \in 0 .. N - 1 :
        HasBit(array, MsgArray[idx + 1]) <=> Supports(array, MsgArray[idx + 1])
  BY <1>2, BitIsThere
<1> QED BY <1>4, <1>5, <1>6 DEF HitBits, Wanted

\* The shifts do what they are for.
LEMMA ResultIsHits ==
  ASSUME FewLargeIds, NEW array \in Seq(Bytes)
  PROVE  Results(array) = {HitBits(array)} /\ HitBits(array) \in Word
<1>1. \A idx \in HitBits(array) : idx \in Nat /\ idx < Len(MsgArray)
  BY LoopIsLongEnough, SupportedAssumption DEF Wanted
<1>2. \A idx \in HitBits(array) : Shifted(idx) = {{idx}}
  BY <1>1, SupportedAssumption DEF Shifted, FewLargeIds
<1>3. HitBits(array) \in Word
  BY <1>1, SupportedAssumption DEF Word, FewLargeIds
<1> DEFINE H == HitBits(array)
           F == {g \in [H -> UNION {Shifted(idx) : idx \in H}] :
                   \A idx \in H : g[idx] \in Shifted(idx)}
           g0 == [idx \in H |-> {idx}]
           U(f) == UNION {f[idx] : idx \in H}
<1>4. \A f \in F : \A idx \in H : f[idx] = {idx}
  BY <1>2
<1>5. \A f \in F : U(f) = H
  BY <1>4
<1>6. g0 \in F
  <2>1. \A idx \in H : {idx} \in Shifted(idx)
    BY <1>2
  <2> HIDE DEF H
  <2>2. \A idx \in H : {idx} \in UNION {Shifted(i) : i \in H}
    BY <2>1
  <2>3. g0 \in [H -> UNION {Shifted(idx) : idx \in H}]
    BY <2>2
  <2> QED BY <2>1, <2>3
<1>7. Results(array) = {U(f) : f \in F}
  BY DEF Results
<1> HIDE DEF F, H, U, g0
<1>8. Results(array) = {H}
  BY <1>5, <1>6, <1>7
<1> QED BY <1>3, <1>8 DEF H

-----------------------------------------------------------------------------
(* The invariant *)

\* The invariant: the property is inductive with the types.
SupportedInv ==
  /\ TypeOK
  /\ isCheckedAlready /\ answer.valid =>
       supportedMsgChecked = Wanted(answer.array)

\* The invariant holds initially.
LEMMA SupportedStart ==
  ASSUME Init
  PROVE  SupportedInv
<1>1. TypeOK
  BY SupportedAssumption DEF Init, TypeOK, Word, Response
<1> QED BY <1>1 DEF Init, SupportedInv

\* Every step keeps it.
LEMMA SupportedStep ==
  ASSUME FewLargeIds, SupportedInv, [Next]_vars
  PROVE  SupportedInv'
<1> USE DEF SupportedInv, TypeOK
<1>1. CASE Open
  BY <1>1 DEF Open
<1>2. CASE AlreadyChecked
  BY <1>2 DEF AlreadyChecked
<1>3. CASE Checked
  <2>1. supported \in Arrays /\ supported \in Seq(Bytes)
    BY SupportedAssumption
  <2>2. /\ answer' \in [valid : BOOLEAN, array : {supported}]
        /\ supportedMsgChecked' \in checkQmiMsgsSupported(answer')
        /\ saved' = supportedMsgChecked' /\ supported' = supported
        /\ isCheckedAlready' = TRUE /\ pc' = "open"
    BY <1>3 DEF Checked
  <2>3. answer' \in Response /\ answer'.array = supported
    BY <2>1, <2>2 DEF Response
  <2>4. CASE answer'.valid
    <3>1. supportedMsgChecked' = HitBits(supported) /\ HitBits(supported) \in Word
      BY <2>1, <2>2, <2>3, <2>4, ResultIsHits DEF checkQmiMsgsSupported
    <3>2. HitBits(supported) = Wanted(supported)
      BY <2>1, LoopIsLongEnough
    <3>3. (isCheckedAlready /\ answer.valid =>
             supportedMsgChecked = Wanted(answer.array))'
      BY <2>3, <3>1, <3>2 DEF Wanted
    <3> QED BY <2>1, <2>2, <2>3, <3>1, <3>3
  <2>5. CASE ~answer'.valid
    <3>1. supportedMsgChecked' = {} /\ {} \in Word
      BY <2>2, <2>5 DEF checkQmiMsgsSupported, Word
    <3> QED BY <2>1, <2>2, <2>3, <2>5, <3>1
  <2> QED BY <2>4, <2>5
<1>4. CASE CheckFails
  BY <1>4 DEF CheckFails, Word
<1>5. CASE Close
  BY <1>5 DEF Close
<1>6. CASE Restart
  BY <1>6 DEF Restart
<1>7. CASE UNCHANGED vars
  BY <1>7 DEF vars
<1> QED BY <1>1, <1>2, <1>3, <1>4, <1>5, <1>6, <1>7 DEF Next

\* For a list like the adapter's the word has exactly the bits of the messages
\* in the answer: neither the limit in bytes nor the shift of an int show.
THEOREM ExactForAdapter ==
  ASSUME FewLargeIds
  PROVE  Spec => []BitsAreExact
<1>1. Init => SupportedInv
  BY SupportedStart
<1>2. SupportedInv /\ [Next]_vars => SupportedInv'
  BY SupportedStep
<1>3. SupportedInv => BitsAreExact
  BY DEF SupportedInv, BitsAreExact
<1> QED BY <1>1, <1>2, <1>3, PTL DEF Spec

\* A service that grows supports what it supported before.
LEMMA WantedGrows ==
  ASSUME NEW a \in Seq(Bytes), NEW b \in Seq(Bytes), Grows(a, b)
  PROVE  Wanted(a) \subseteq Wanted(b)
<1>1. \A n \in 1 .. Len(a) : n \in 1 .. Len(b) /\ a[n] \subseteq b[n]
  BY DEF Grows
<1>2. \A id : Supports(a, id) => Supports(b, id)
  BY <1>1 DEF Supports
<1> QED BY <1>2 DEF Wanted

\* As long as the service loses no message, the adapter believes in no message
\* the service does not support, whatever fails and however often the service
\* and the client come and go.
THEOREM NothingUnsupported ==
  ASSUME FewLargeIds
  PROVE  Spec => []NothingInvented
<1> DEFINE Inv == /\ SupportedInv
                  /\ saved \subseteq Wanted(supported)
                  /\ supportedMsgChecked \subseteq Wanted(supported)
<1>1. Init => Inv
  BY SupportedStart DEF Init
<1>2. ASSUME Inv, [Next]_vars PROVE Inv'
  <2>1. SupportedInv'
    BY <1>2, SupportedStep
  <2>2. CASE Checked
    <3>1. supported \in Seq(Bytes) /\ answer'.array = supported
      BY <1>2, <2>2, SupportedAssumption DEF Checked, SupportedInv, TypeOK
    <3>2. supportedMsgChecked' \subseteq Wanted(supported)
      BY <2>2, <3>1, ResultIsHits, LoopIsLongEnough DEF Checked, checkQmiMsgsSupported
    <3>3. supported' = supported /\ saved' = supportedMsgChecked'
      BY <2>2 DEF Checked
    <3> QED BY <2>1, <3>2, <3>3 DEF Wanted
  <2>3. CASE Restart
    <3>1. /\ supported \in Seq(Bytes) /\ supported' \in Seq(Bytes)
          /\ Grows(supported, supported')
      BY <1>2, <2>3, SupportedAssumption DEF Restart, SupportedInv, TypeOK
    <3>2. Wanted(supported) \subseteq Wanted(supported')
      BY <3>1, WantedGrows
    <3>3. saved' = saved /\ supportedMsgChecked' = supportedMsgChecked
      BY <2>3 DEF Restart
    <3> QED BY <1>2, <2>1, <3>2, <3>3 DEF Wanted
  <2>4. CASE ~Checked /\ ~Restart
    <3>1. supported' = supported /\ supportedMsgChecked' = supportedMsgChecked
          /\ saved' \in {saved, supportedMsgChecked, {}}
      BY <1>2, <2>4 DEF Next, Open, AlreadyChecked, CheckFails, Close, vars
    <3> QED BY <1>2, <2>1, <3>1 DEF Wanted
  <2> QED BY <2>2, <2>3, <2>4
<1>3. Inv => NothingInvented
  BY DEF NothingInvented
<1> QED BY <1>1, <1>2, <1>3, PTL DEF Spec
=============================================================================
