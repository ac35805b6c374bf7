---------------------------- MODULE MCTcpServer -----------------------------
(***************************************************************************)
(* Small instances of TcpServer for TLC: three connections, of which one   *)
(* sends two bytes and one sends nothing.                                  *)
(***************************************************************************)
EXTENDS TcpServer

CONSTANTS k1, k2, k3

ThreeConns == {k1, k2, k3}
MCMaxBytes == [c \in ThreeConns |-> IF c = k1 THEN 2 ELSE IF c = k2 THEN 1 ELSE 0]

=============================================================================
