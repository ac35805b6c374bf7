------------------------------- MODULE MCCli --------------------------------
(***************************************************************************)
(* Small instances of Cli for TLC.                                         *)
(***************************************************************************)
EXTENDS Cli

CONSTANTS t1, t2, s1, s2

MCClients == {Socket}
MCThreads == {t1, t2}
MCSFibers == {s1, s2}
MCNoneLong == {}

=============================================================================
