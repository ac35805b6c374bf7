----------------------------- MODULE MCExecutor -----------------------------
(***************************************************************************)
(* Small instances of Executor for TLC: one peer sends requests of one     *)
(* unit, the other of three; a buffer has room for six.                    *)
(***************************************************************************)
EXTENDS Executor, TLC

CONSTANTS p1, p2

MCPeers == {p1, p2}
MCSize == p1 :> 1 @@ p2 :> 3
MCBufLen == 6

=============================================================================
