----------------------------- MODULE Datagrams ------------------------------
(***************************************************************************)
(* UDP between the sockets of the echo programs: datagrams are lost,       *)
(* duplicated and reordered on the way, and dropped at a full receive      *)
(* buffer or where no socket is bound.  The network is not part of the     *)
(* repository; this module is the environment the programs of src/src run  *)
(* in.  Bind and Close are net::Socket's bind and destructor.              *)
(*                                                                         *)
(* A body is the sequence of the payloads it is made of.  seq is the       *)
(* number of the request a datagram belongs to; no program reads it, the   *)
(* properties do.                                                          *)
(***************************************************************************)
EXTENDS Naturals, Sequences, FiniteSets

CONSTANTS
  Clients,        (* The client's fibers; each has a payload of its own.   *)
  Server,         (* The address of the server's socket.                   *)
  InboxSize,      (* How many datagrams a receive buffer holds.            *)
  MayLose,        (* Whether a datagram may be lost on the way.            *)
  MayDuplicate    (* Whether it may be delivered more than once.           *)

ASSUME DatagramsAssumption ==
  /\ Server \notin Clients
  /\ InboxSize \in Nat \ {0}
  /\ MayLose \in BOOLEAN /\ MayDuplicate \in BOOLEAN

Addresses == Clients \cup {Server}

Datagram == [to : Addresses, from : Addresses, body : Seq(Clients), seq : Nat]

VARIABLES
  net,      (* The datagrams on their way.                                 *)
  inbox,    (* The receive buffer of the socket at each address.           *)
  bound     (* The addresses to which a socket is bound.                   *)

netVars == <<net, inbox, bound>>

NetTypeOK ==
  /\ net \in SUBSET Datagram
  /\ inbox \in [Addresses -> Seq(Datagram)]
  /\ bound \in SUBSET Addresses

NetInit ==
  /\ net = {}
  /\ inbox = [a \in Addresses |-> <<>>]
  /\ bound = {}

Bind(a) ==
  /\ a \notin bound
  /\ bound' = bound \cup {a}

(* What the socket has not given to anybody is lost with it.               *)
Close(a) ==
  /\ bound' = bound \ {a}
  /\ inbox' = [inbox EXCEPT ![a] = <<>>]

Transmit(d) == net' = net \cup {d}

(* d reaches its address; whether it is also still on its way is left      *)
(* open.                                                                   *)
Arrive(d) ==
  /\ inbox' = IF d.to \in bound /\ Len(inbox[d.to]) < InboxSize
              THEN [inbox EXCEPT ![d.to] = Append(@, d)] ELSE inbox
  /\ UNCHANGED bound

Deliver(d) ==
  /\ Arrive(d)
  /\ net' = net \ {d}

DeliverCopy(d) ==
  /\ MayDuplicate
  /\ Arrive(d)
  /\ UNCHANGED net

Lose(d) ==
  /\ MayLose
  /\ net' = net \ {d}
  /\ UNCHANGED <<inbox, bound>>

NetStep == \E d \in net : Deliver(d) \/ DeliverCopy(d) \/ Lose(d)

(* The kernel hands the oldest datagram at address a to a receive call.    *)
TakeFrom(a) ==
  /\ inbox[a] # <<>>
  /\ inbox' = [inbox EXCEPT ![a] = Tail(@)]

=============================================================================
