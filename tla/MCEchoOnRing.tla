---------------------------- MODULE MCEchoOnRing ----------------------------
(***************************************************************************)
(* Small instances of EchoOnRing for TLC.                                  *)
(***************************************************************************)
EXTENDS EchoOnRing

CONSTANTS f0, f1, f2, c1, c2, c3

MCFibers    == {f0, f1, f2}
MCOpErrors  == {"EINTR"}
MCNone      == {}
MCClients   == {c1, c2, c3}
MCLong      == {c3}
MCRequests  == {<<c1, 1>>, <<c2, 1>>, <<c3, 1>>}
MCUnwritten == {c1}

=============================================================================
