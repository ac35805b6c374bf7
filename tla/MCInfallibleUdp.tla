--------------------------- MODULE MCInfallibleUdp ---------------------------
(***************************************************************************)
(* Small instances of InfallibleUdp for TLC.                               *)
(***************************************************************************)
EXTENDS InfallibleUdp

CONSTANTS c1, c2, s1, s2

MCClients  == {c1, c2}
MCSFibers  == {s1, s2}
MCOneSFiber == {s1}
MCNoneLong == {}
MCOneLong  == {c2}

=============================================================================
