-------------------------------- MODULE Cli ---------------------------------
(***************************************************************************)
(* The client of src/src/cli.cc with the UDP echo server and the network   *)
(* between them.  Its fibers share one payload and one socket, which is    *)
(* never bound, and wait for a reply without a time limit: any reply does  *)
(* for any fiber.                                                          *)
(*                                                                         *)
(* The program compares a reply, 2048 times its text, with its text (96);  *)
(* they are never equal, so no fiber ends early.                           *)
(***************************************************************************)
EXTENDS EchoServer, Summary

CONSTANTS
  Socket,           (* The address of the client's socket.                 *)
  Threads,          (* Its fibers.                                         *)
  PerThread,        (* count: the requests of each.                        *)
  CliMayFail        (* Whether the client's system calls may fail.         *)

ASSUME CliAssumption ==
  /\ Clients = {Socket} /\ Threads # {} /\ IsFiniteSet(Threads)
  /\ PerThread \in Nat /\ CliMayFail \in BOOLEAN

VARIABLES
  tpc,              (* Each fiber is about to "send", in "recv" or         *)
                    (* "joined".                                           *)
  round,            (* i of each fiber.                                    *)
  requests,         (* How many requests were sent; numbers them.          *)
  records,          (* The size of timings.                                *)
  failures,         (* How many of them stand for a receive that failed.   *)
  cli               (* "starting", "running", "reported", or the message   *)
                    (* the process died of.                                *)

cliVars == <<tpc, round, requests, records, failures, cli>>

vars == <<net, inbox, bound, spc, sbuf, smsg, server, tpc, round, requests, records, failures, cli>>

TypeOK ==
  /\ NetTypeOK /\ ServerTypeOK
  /\ tpc \in [Threads -> {"send", "recv", "joined"}]
  /\ round \in [Threads -> 0 .. PerThread]
  /\ requests \in Nat /\ records \in Nat /\ failures \in Nat
  /\ cli \in {"starting", "running", "reported", "socket", "bad sendmsg", "bad summary"}

Init ==
  /\ NetInit /\ ServerInit
  /\ tpc = [t \in Threads |-> "send"]
  /\ round = [t \in Threads |-> 0]
  /\ requests = 0
  /\ records = 0
  /\ failures = 0
  /\ cli = "starting"

(* The program makes its socket, or an exception ends it.                  *)
Open ==
  /\ cli = "starting"
  /\ cli' = "running"
  /\ UNCHANGED <<netVars, serverVars, tpc, round, requests, records, failures>>

OpenFails ==
  /\ CliMayFail
  /\ cli = "starting"
  /\ cli' = "socket"
  /\ UNCHANGED <<netVars, serverVars, tpc, round, requests, records, failures>>

At(t, p) == cli = "running" /\ tpc[t] = p

(* The first sendmsg makes the kernel bind the socket.                     *)
Send(t) ==
  /\ At(t, "send")
  /\ round[t] < PerThread
  /\ Transmit([to |-> Server, from |-> Socket, body |-> <<Socket>>, seq |-> requests])
  /\ bound' = bound \cup {Socket}
  /\ requests' = requests + 1
  /\ tpc' = [tpc EXCEPT ![t] = "recv"]
  /\ UNCHANGED <<inbox, serverVars, round, records, failures, cli>>

(* A failed sendmsg throws, and the exception ends the process.            *)
SendFails(t) ==
  /\ CliMayFail
  /\ At(t, "send")
  /\ round[t] < PerThread
  /\ cli' = "bad sendmsg"
  /\ UNCHANGED <<netVars, serverVars, tpc, round, requests, records, failures>>

\* Mutant: the loop runs once more.
RecordLate(t) ==
  /\ records' = records + 1
  /\ round' = [round EXCEPT ![t] = IF records = 0 THEN @ ELSE @ + 1]
  /\ tpc' = [tpc EXCEPT ![t] = "send"]
  /\ UNCHANGED <<serverVars, requests, cli>>

(* What recvmsg has returned is recorded, whatever it is.                  *)
Record(t) ==
  /\ records' = records + 1
  /\ round' = [round EXCEPT ![t] = @ + 1]
  /\ tpc' = [tpc EXCEPT ![t] = "send"]
  /\ UNCHANGED <<serverVars, requests, cli>>

\* Mutant: a fiber waits for the reply to a request of its own number.
ReceiveOwn(t) ==
  /\ At(t, "recv")
  /\ TakeFrom(Socket)
  /\ Head(inbox[Socket]).seq = round[t]
  /\ Record(t)
  /\ UNCHANGED <<net, bound, failures>>

Receive(t) ==
  /\ At(t, "recv")
  /\ TakeFrom(Socket)
  /\ Record(t)
  /\ UNCHANGED <<net, bound, failures>>

ReceiveFails(t) ==
  /\ CliMayFail
  /\ At(t, "recv")
  /\ Record(t)
  /\ failures' = failures + 1
  /\ UNCHANGED netVars

StopThread(t) ==
  /\ At(t, "send")
  /\ round[t] >= PerThread
  /\ tpc' = [tpc EXCEPT ![t] = "joined"]
  /\ UNCHANGED <<netVars, serverVars, round, requests, records, failures, cli>>

(* Cuts the first timings off and reports on the others.                   *)
Summarise ==
  /\ cli = "running"
  /\ \A t \in Threads : tpc[t] = "joined"
  /\ records' = Remaining(records)
  /\ cli' = IF CanReport(Remaining(records)) THEN "reported" ELSE "bad summary"
  /\ UNCHANGED <<netVars, serverVars, tpc, round, requests, failures>>

CliStep(t) == Send(t) \/ SendFails(t) \/ Receive(t) \/ ReceiveFails(t) \/ StopThread(t)

ServerSteps(s) == ServerStep(s) /\ UNCHANGED cliVars

ServerStarts == ServerOpens /\ UNCHANGED cliVars

Network == NetStep /\ UNCHANGED serverVars /\ UNCHANGED cliVars

Next ==
  \/ Open \/ OpenFails
  \/ \E t \in Threads : CliStep(t)
  \/ Summarise
  \/ \E s \in SFibers : ServerSteps(s)
  \/ ServerStarts
  \/ Network

Spec == Init /\ [][Next]_vars

-----------------------------------------------------------------------------
(* What must never happen.                                                 *)

(* The requests whose reply has not been received.                         *)
InFlight ==
  Cardinality(net)
  + Cardinality({s \in SFibers : spc[s] # "recv"})
  + Len(inbox[Server]) + Len(inbox[Socket])

Waiting == {t \in Threads : tpc[t] = "recv"}

(* NobodysReply: any fiber may take any reply from the shared socket       *)
(* (cli.cc:87-93), and there are never more on their way than fibers wait  *)
(* for: only a receive that fails leaves one over.                         *)
NobodysReply == InFlight <= Cardinality(Waiting) + failures

(* SummaryComplete: the summary (cli.cc:107-133) is over as many records   *)
(* as there were requests, or over all but the first Cut (111-114) if      *)
(* there were more, whichever fiber took which reply and whichever receive *)
(* failed; its division and its indices (120-127) go wrong only if no      *)
(* request was asked for.                                                  *)
SummaryComplete ==
  /\ cli = "reported" =>
       /\ requests = PerThread * Cardinality(Threads)
       /\ records = requests - (IF requests > Cut THEN Cut ELSE 0)
  /\ cli = "bad summary" => PerThread = 0

-----------------------------------------------------------------------------
(* What happens eventually, if the network delivers what it does not lose. *)
(* No system call owes a failure.                                          *)

FairSpec ==
  /\ Spec
  /\ \A t \in Threads : WF_vars(Send(t) \/ Receive(t) \/ StopThread(t))
  /\ WF_vars(Open) /\ WF_vars(Summarise)
  /\ \A s \in SFibers : WF_vars(ServerSteps(s))
  /\ WF_vars(Network)

(* CliEnds: the client comes to its end (cli.cc:76-107), or its fibers     *)
(* wait for ever for replies that were lost: a single lost datagram is     *)
(* enough, since recvmsg has no time limit (93), and nothing else is.      *)
CliEnds == <>(cli \notin {"starting", "running"}) \/ <>[](InFlight < Cardinality(Waiting))

=============================================================================
