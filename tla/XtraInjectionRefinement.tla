----------------------- MODULE XtraInjectionRefinement -----------------------
(***************************************************************************)
(* setXtraData implements FileTransfer, as long as the file fits           *)
(* len_injected and the counter of parts does not overflow.                *)
(***************************************************************************)
EXTENDS XtraInjection, FiniteSets

\* The file fits len_injected; of larger ones nothing is promised.
Fits == pc # "idle" /\ length < LenMod

\* A part before the one at hand was lost.
Lost == ~CountedBefore(part)

\* The bytes of the file that are in the messages.
Bytes(messages) == UNION {m.from .. m.from + m.partData_len - 1 : m \in messages}

\* The bytes the service holds: as a count, and only when they are the first
\* ones, else no number at all.
Got ==
  IF Bytes(received) = 0 .. Cardinality(Bytes(received)) - 1
  THEN Cardinality(Bytes(received))
  ELSE -2

Transfer == INSTANCE FileTransfer WITH
  size <- IF Fits THEN length ELSE -1,
  got  <- IF ~Fits THEN 0 ELSE IF Lost THEN -1 ELSE Got,
  over <- Fits /\ pc = "done"

\* Until a part is lost the bytes arrive in order and once each, and without a
\* loss the call returns only when the whole file is there ...
ImplementsTransfer == Transfer!Spec

\* ... and the call always returns.
ImplementsFairTransfer == Transfer!FairSpec
=============================================================================
