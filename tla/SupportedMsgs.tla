--------------------------- MODULE SupportedMsgs ---------------------------
(***************************************************************************)
(* Which messages the location service supports: LocApiV02::open asks      *)
(* locClientSupportMsgCheck, which asks the service once, turns the bit    *)
(* array of the answer into a word with checkQmiMsgsSupported, and answers *)
(* from that word ever after.                                              *)
(*                                                                         *)
(* A byte of the array is the set of its bits that are set, and so is the  *)
(* word.  The widths are parameters: 8 bits in a byte, 32 in an int and 64 *)
(* in the word.                                                            *)
(***************************************************************************)
EXTENDS Naturals, Sequences

CONSTANTS
  ByteBits, IntBits, WordBits,
  MsgArray,    \* ids of the messages to check
  Arrays,      \* bit arrays a service may send
  Upgrades     \* the service may support more messages after a restart

Bytes == SUBSET (0 .. ByteBits - 1)

ASSUME SupportedAssumption ==
  /\ ByteBits \in Nat \ {0}
  /\ IntBits \in Nat \ {0} /\ WordBits \in Nat /\ IntBits <= WordBits
  /\ MsgArray \in Seq(Nat)
  /\ \A a \in Arrays : a \in Seq(Bytes)
  /\ Upgrades \in BOOLEAN

VARIABLES
  pc,                  \* "closed", "check" or "open"
  isCheckedAlready,
  supportedMsgChecked, \* the word
  saved,               \* what the adapter saved at its last open
  supported,           \* the bit array of the service
  answer               \* what the service answered when it was asked

vars == <<pc, isCheckedAlready, supportedMsgChecked, saved, supported, answer>>

Word == SUBSET (0 .. WordBits - 1)

Response == [valid : BOOLEAN, array : Arrays]

TypeOK ==
  /\ pc \in {"closed", "check", "open"}
  /\ isCheckedAlready \in BOOLEAN
  /\ supportedMsgChecked \in Word
  /\ saved \in Word
  /\ supported \in Arrays
  /\ answer \in Response

Init ==
  /\ pc = "closed"
  /\ isCheckedAlready = FALSE
  /\ supportedMsgChecked = {}
  /\ saved = {}
  /\ supported \in Arrays
  /\ answer = [valid |-> FALSE, array |-> supported]

-----------------------------------------------------------------------------
(* checkQmiMsgsSupported *)

Minimum(a, b) == IF a < b THEN a ELSE b

\* The number of messages looked at; a length in bytes is one of the limits.
LoopSize(array) == Minimum(Minimum(Len(MsgArray), Len(array)), WordBits)

HasBit_FirstByte(array, id) ==
  /\ Len(array) > id \div ByteBits
  /\ id % ByteBits \in array[1]

HasBit_Next(array, id) ==
  /\ Len(array) > id \div ByteBits
  /\ (id + 1) % ByteBits \in array[(id \div ByteBits) + 1]

HasBit(array, id) ==
  /\ Len(array) > id \div ByteBits
  /\ id % ByteBits \in array[(id \div ByteBits) + 1]

\* What 1 << idx, an int, is as a word: its sign is extended, and a shift by
\* its width or more is undefined: it may count modulo the width, or give 0.
Shifted(idx) ==
  CASE idx < IntBits - 1 -> {{idx}}
    [] idx = IntBits - 1 -> {idx .. WordBits - 1}
    [] OTHER -> {{}, {idx % IntBits}}

HitBits(array) ==
  {idx \in 0 .. LoopSize(array) - 1 : HasBit(array, MsgArray[idx + 1])}

\* The values result may have after the loop: one outcome for each shift.
Results(array) ==
  {UNION {f[idx] : idx \in HitBits(array)} :
     f \in {g \in [HitBits(array) -> UNION {Shifted(idx) : idx \in HitBits(array)}] :
              \A idx \in HitBits(array) : g[idx] \in Shifted(idx)}}

checkQmiMsgsSupported(response) ==
  IF response.valid THEN Results(response.array) ELSE {{}}

-----------------------------------------------------------------------------
(* locClientSupportMsgCheck, called by open *)

Open ==
  /\ pc = "closed"
  /\ pc' = "check"
  /\ UNCHANGED <<isCheckedAlready, supportedMsgChecked, saved, supported, answer>>

AlreadyChecked ==
  /\ pc = "check" /\ isCheckedAlready
  /\ saved' = supportedMsgChecked
  /\ pc' = "open"
  /\ UNCHANGED <<isCheckedAlready, supportedMsgChecked, supported, answer>>

Checked ==
  /\ pc = "check" /\ ~isCheckedAlready
  /\ answer' \in [valid : BOOLEAN, array : {supported}]
  /\ supportedMsgChecked' \in checkQmiMsgsSupported(answer')
  /\ saved' = supportedMsgChecked'
  /\ isCheckedAlready' = TRUE
  /\ pc' = "open"
  /\ UNCHANGED supported

\* The request is not answered, or with an error: the adapter saves 0.
CheckFails ==
  /\ pc = "check" /\ ~isCheckedAlready
  /\ saved' = {}
  /\ pc' = "open"
  /\ UNCHANGED <<isCheckedAlready, supportedMsgChecked, supported, answer>>

Close ==
  /\ pc = "open"
  /\ pc' = "closed"
  /\ UNCHANGED <<isCheckedAlready, supportedMsgChecked, saved, supported, answer>>

\* More messages, never fewer.
Grows(a, b) ==
  /\ Len(a) <= Len(b)
  /\ \A n \in 1 .. Len(a) : a[n] \subseteq b[n]

\* The service goes away and comes back, while no request is under way.
Restart ==
  /\ Upgrades
  /\ pc # "check"
  /\ supported' \in {a \in Arrays : Grows(supported, a)}
  /\ pc' = "closed"
  /\ UNCHANGED <<isCheckedAlready, supportedMsgChecked, saved, answer>>

Next == Open \/ AlreadyChecked \/ Checked \/ CheckFails \/ Close \/ Restart

Spec == Init /\ [][Next]_vars

-----------------------------------------------------------------------------
\* The message is in the array: the reference for the loop.
Supports(array, id) ==
  \E n \in 1 .. Len(array), bit \in 0 .. ByteBits - 1 :
    id = (n - 1) * ByteBits + bit /\ bit \in array[n]

Wanted(array) ==
  {idx \in 0 .. Len(MsgArray) - 1 : Supports(array, MsgArray[idx + 1])}

\* The word has a bit for each message of MsgArray that the service supports,
\* and no other bits.
BitsAreExact ==
  isCheckedAlready /\ answer.valid => supportedMsgChecked = Wanted(answer.array)

\* The adapter never believes in a message the service does not support, though
\* the answer it got once is kept across restarts of the service and of the
\* client (it may miss messages that a later service supports).
NothingInvented == saved \subseteq Wanted(supported)
=============================================================================
