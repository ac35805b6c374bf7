----------------------------- MODULE EchoService ----------------------------
(***************************************************************************)
(* What the UDP mode of src/src/srv2.cc promises to whoever sends it       *)
(* requests: each is lost or taken by one fiber, which answers its sender  *)
(* with the body twice before it takes another one; or the process dies of *)
(* one of two messages.  Nothing here knows of a ring or a scheduler.      *)
(***************************************************************************)
EXTENDS EchoServer

CONSTANT Requests  (* The requests sent: pairs of a client and a number.   *)

VARIABLE asked     (* The requests that have been sent.                    *)

vars == <<net, inbox, bound, spc, sbuf, smsg, server, asked>>

Init == NetInit /\ ServerInit /\ asked = {}

(* Client c sends request n.                                               *)
Ask(c, n) ==
  /\ <<c, n>> \in Requests \ asked
  /\ asked' = asked \cup {<<c, n>>}
  /\ Transmit([to |-> Server, from |-> c, body |-> <<c>>, seq |-> n])
  /\ UNCHANGED <<inbox, bound, serverVars>>

Next ==
  \/ \E r \in Requests : Ask(r[1], r[2])
  \/ ServerOpens /\ UNCHANGED asked
  \/ NetStep /\ UNCHANGED <<serverVars, asked>>
  \/ \E s \in SFibers : ServerStep(s) /\ UNCHANGED asked

Spec == Init /\ [][Next]_vars

=============================================================================
