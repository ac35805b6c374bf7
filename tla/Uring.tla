-------------------------------- MODULE Uring -------------------------------
(***************************************************************************)
(* The ring of src/netring/netring/uring.cc, used with cookies, and the    *)
(* kernel's side of it: the SQPOLL thread takes what is in the submission  *)
(* queue as a batch, and releases the entries after the whole batch.       *)
(*                                                                         *)
(* Every call submits at once, so the queue has no unsubmitted entries.    *)
(***************************************************************************)
EXTENDS Integers, Sequences, FiniteSets

VARIABLES
  sq,           (* The entries of the submission queue.                    *)
  taken,        (* How many of them the kernel has taken, not released.    *)
  inflight,     (* The operations the kernel is working on.                *)
  cq            (* The completions not polled.                             *)

uringVars == <<sq, taken, inflight, cq>>

Entry == [op : {"recv", "send"}, cookie : Nat]
Cqe == [op : {"recv", "send"}, cookie : Nat, res : Nat]

UringTypeOK ==
  /\ sq \in Seq(Entry)
  /\ taken \in 0 .. Len(sq)
  /\ inflight \subseteq Entry
  /\ cq \in Seq(Cqe)

\* Mutant: a ring of four entries.
SqEntriesFour == 4

SqEntries == 8

(* io_uring_get_sqe returns null, which nobody checks.                     *)
NoSqe == Len(sq) = SqEntries

Submit(op, cookie) == sq' = Append(sq, [op |-> op, cookie |-> cookie])

Take ==
  /\ taken = 0
  /\ sq # <<>>
  /\ taken' = Len(sq)
  /\ inflight' = inflight \cup {sq[i] : i \in DOMAIN sq}
  /\ UNCHANGED <<sq, cq>>

Release ==
  /\ taken > 0
  /\ sq' = SubSeq(sq, taken + 1, Len(sq))
  /\ taken' = 0
  /\ UNCHANGED <<inflight, cq>>

Complete(e, res) ==
  /\ inflight' = inflight \ {e}
  /\ cq' = Append(cq, [op |-> e.op, cookie |-> e.cookie, res |-> res])
  /\ UNCHANGED <<sq, taken>>

(* poll_cookie returns the oldest completion, spinning or waiting for it.  *)
PollCookie == cq # <<>> /\ cq' = Tail(cq) /\ UNCHANGED <<taken, inflight>>

(* The operations that have not been polled.                               *)
Pending ==
  {sq[i] : i \in taken + 1 .. Len(sq)} \cup inflight
  \cup {[op |-> cq[i].op, cookie |-> cq[i].cookie] : i \in DOMAIN cq}

PendingCount == Len(sq) - taken + Cardinality(inflight) + Len(cq)

=============================================================================
