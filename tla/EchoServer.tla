----------------------------- MODULE EchoServer -----------------------------
(***************************************************************************)
(* The UDP mode of src/src/srv2.cc (104-134): fibers that share one        *)
(* socket, opened before they start.  Each receives into a buffer on its   *)
(* own stack, doubles what it has received and sends it back to where it   *)
(* came from.                                                              *)
(***************************************************************************)
EXTENDS Datagrams

CONSTANTS
  SFibers,          (* The server's fibers.                                *)
  LongPayloads,     (* The payloads of half a buffer (32500 bytes) or more. *)
  ServerMayFail     (* Whether the server's system calls may fail.         *)

ASSUME EchoServerAssumption ==
  /\ LongPayloads \subseteq Clients
  /\ ServerMayFail \in BOOLEAN

VARIABLES
  spc,        (* Each fiber is in "recv", has "got" a message or is in     *)
              (* "send".                                                   *)
  sbuf,       (* buf of each fiber.                                        *)
  smsg,       (* What its recvmsg reported: the length of msg.buf, the     *)
              (* address and, for the properties, the request's number.    *)
  server      (* "down" until the socket is bound, then "up", or the       *)
              (* message the process died of.                              *)

serverVars == <<spc, sbuf, smsg, server>>

ServerTypeOK ==
  /\ spc \in [SFibers -> {"recv", "got", "send"}]
  /\ sbuf \in [SFibers -> Seq(Clients)]
  /\ smsg \in [SFibers -> [len : Nat, peer : Addresses, seq : Nat]]
  /\ server \in {"down", "up", "socket", "bind", "bad sendmsg", "Too long message"}

NoMsg == [len |-> 0, peer |-> Server, seq |-> 0]

ServerInit ==
  /\ spc = [s \in SFibers |-> "recv"]
  /\ sbuf = [s \in SFibers |-> <<>>]
  /\ smsg = [s \in SFibers |-> NoMsg]
  /\ server = "down"

(* The program opens its socket, or an exception ends it.                  *)
ServerOpen ==
  /\ server = "down"
  /\ Bind(Server)
  /\ server' = "up"
  /\ UNCHANGED <<net, inbox, spc, sbuf, smsg>>

ServerOpenFails ==
  /\ server = "down"
  /\ ServerMayFail
  /\ server' \in {"socket", "bind"}
  /\ UNCHANGED <<netVars, spc, sbuf, smsg>>

ServerOpens == ServerOpen \/ ServerOpenFails

\* Mutant: one buffer, captured by reference, serves all the fibers.
BufOfFirst(s) == CHOOSE t \in SFibers : TRUE

(* The buffer fiber s receives into and sends from.                        *)
BufOf(s) == s

(* What is in a buffer after receiving body at its beginning.              *)
Overwrite(buf, body) ==
  body \o SubSeq(buf, Len(body) + 1, Len(buf))

(* The kernel completes the recvmsg of s: the message is in its buffer.    *)
ServerReceive(s) ==
  /\ server = "up"
  /\ spc[s] = "recv"
  /\ TakeFrom(Server)
  /\ LET d == Head(inbox[Server])
     IN  /\ sbuf' = [sbuf EXCEPT ![BufOf(s)] = Overwrite(@, d.body)]
         /\ smsg' = [smsg EXCEPT ![s] =
              [len |-> Len(d.body), peer |-> d.from, seq |-> d.seq]]
  /\ spc' = [spc EXCEPT ![s] = "got"]
  /\ UNCHANGED <<net, bound, server>>

\* Mutant: msg.buf is all of what the buffer holds, not what was received.
ServerReceiveFailsWhole(s) ==
  /\ server = "up"
  /\ ServerMayFail
  /\ spc[s] = "recv"
  /\ \E a \in Addresses :
       smsg' = [smsg EXCEPT ![s] = [len |-> Len(sbuf[s]), peer |-> a, seq |-> 0]]
  /\ spc' = [spc EXCEPT ![s] = "got"]
  /\ UNCHANGED <<netVars, sbuf, server>>

(* It fails: msg.buf is empty, and msg.addr holds what the stack held.     *)
ServerReceiveFails(s) ==
  /\ server = "up"
  /\ ServerMayFail
  /\ spc[s] = "recv"
  /\ \E a \in Addresses : smsg' = [smsg EXCEPT ![s] = [len |-> 0, peer |-> a, seq |-> 0]]
  /\ spc' = [spc EXCEPT ![s] = "got"]
  /\ UNCHANGED <<netVars, sbuf, server>>

(* The fiber runs: it copies the message behind itself and calls sendmsg,  *)
(* unless the message and its copy do not fit the buffer.                  *)
ServerDouble(s) ==
  /\ server = "up"
  /\ spc[s] = "got"
  /\ LET msg == SubSeq(sbuf[BufOf(s)], 1, smsg[s].len)
     IN  IF \E i \in 1 .. Len(msg) : msg[i] \in LongPayloads
         THEN server' = "Too long message" /\ UNCHANGED <<spc, sbuf>>
         ELSE /\ sbuf' = [sbuf EXCEPT ![BufOf(s)] = Overwrite(@, msg \o msg)]
              /\ spc' = [spc EXCEPT ![s] = "send"]
              /\ UNCHANGED server
  /\ UNCHANGED <<netVars, smsg>>

\* Mutant: a reply that was sent is sent again.
ServerSendAgain(s) ==
  /\ server = "up"
  /\ spc[s] = "send"
  /\ Transmit([to |-> smsg[s].peer, from |-> Server, seq |-> smsg[s].seq,
               body |-> SubSeq(sbuf[BufOf(s)], 1, 2 * smsg[s].len)])
  /\ \E p \in {"recv", "send"} : spc' = [spc EXCEPT ![s] = p]
  /\ UNCHANGED <<inbox, bound, sbuf, smsg, server>>

(* The kernel sends what is in the buffer now, and the fiber receives      *)
(* again.                                                                  *)
ServerSend(s) ==
  /\ server = "up"
  /\ spc[s] = "send"
  /\ Transmit([to |-> smsg[s].peer, from |-> Server, seq |-> smsg[s].seq,
               body |-> SubSeq(sbuf[BufOf(s)], 1, 2 * smsg[s].len)])
  /\ spc' = [spc EXCEPT ![s] = "recv"]
  /\ smsg' = [smsg EXCEPT ![s] = NoMsg]
  /\ UNCHANGED <<inbox, bound, sbuf, server>>

(* sendmsg throws, and the exception ends the process.                     *)
ServerSendFails(s) ==
  /\ server = "up"
  /\ ServerMayFail
  /\ spc[s] = "send"
  /\ server' = "bad sendmsg"
  /\ UNCHANGED <<netVars, spc, sbuf, smsg>>

ServerStep(s) ==
  \/ ServerReceive(s)
  \/ ServerReceiveFails(s)
  \/ ServerDouble(s)
  \/ ServerSend(s)
  \/ ServerSendFails(s)

=============================================================================
