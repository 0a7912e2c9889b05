----------------------------- MODULE MCDsClient -----------------------------
(***************************************************************************)
(* A small instance of DsClient for TLC.                                   *)
(***************************************************************************)
EXTENDS DsClient

CONSTANTS b1, b2, none

TwoBlocks == {b1, b2}

Profile(e, p) == [emergency |-> e, pdp |-> p]

\* No profile, none for emergencies, one behind others whose settings differ,
\* two of them, and one that leaves out the type of the PDP.
Lists ==
  { <<>>,
    <<Profile("no", "ipv4"), Profile("absent", "ipv6")>>,
    <<Profile("no", "ipv6"), Profile("absent", "ipv4v6"), Profile("yes", "absent")>>,
    <<Profile("absent", "ipv4"), Profile("yes", "ipv4v6"), Profile("yes", "ipv6")>>,
    <<Profile("yes", "ppp")>> }
=============================================================================
