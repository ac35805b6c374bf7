# A verification development of hnet

hnet is a set of UDP and TCP echo programs written on `io_uring`.  Its current
stack is `src/ring2`: a ring shared by the fibers of one thread, scheduled
cooperatively by tinyfibers.  An older stack, `src/netring`, runs one handler
per datagram on stacks switched by hand.  `src/five` holds the utilities of
both, `src/src` the programs.  This directory models that code in TLA+,
model-checks it with TLC on small instances, and proves what matters most of
it with TLAPS for every instance.

## Inventory

| Component | State | Operations | Talks to |
|---|---|---|---|
| `ring2` `Ring` (`ring.cc`) | the submission queue's tail, `pending_count_` | `submit`, `poll`, `try_poll`, `try_poll_many`, `has_pending` | the kernel through shared queues; `tf::Yield` when the queue is full |
| `ring2` `RingPoller` (`poller.cc`) | `attempts_`, the setters in fibers' stack frames | `TryPoll`, `TryPollMany`, `HasPending`, `dispatch` | called by the scheduler; writes into frames, wakes fibers |
| `ring2` `Submitter` (`submitter.cc`) | each call's setters | `recvmsg` with and without a duration, `sendmsg`, `accept` | `Ring::submit`, `Scheduler::Suspend` |
| `ring2` `Socket`, `Addr` | a descriptor; an address | construction, `bind`, `listen`; conversions | system calls |
| `srv2.cc` (udp) | fibers that share one socket, a buffer each | receive, double, reply | `Submitter` |
| `srv2.cc` (tcp) | an accept loop, a fiber per connection | accept, receive, reply | `Submitter` |
| `infallible_udp.cc` | a socket per fiber, `timings`, `dead_packets` | send, receive with a duration, retry, summary | `Submitter`, the server over a lossy network |
| `cli.cc` | fibers that share one socket, `timings` | send, receive without a duration, summary | `Submitter`, the server |
| `netring` `Uring` (`uring.cc`) | a ring, a pool of callback contexts | `sendmsg`, `recvmsg`, `poll`, `poll_cookie` | the kernel |
| `netring` `Executor`, `BaseHandler` (`uf.h`, `uf.cc`) and `srv.cc`'s `Handler` | pools of stacks, of slots and of requests; handlers in slots | `dispatch_loop`, `handle`, `yield` | `Uring`, `ObjectPoolLite` |
| `five` `ObjectPoolLite` | a stack of pooled objects | construction, `get`, `put` | `netring` |
| `five` `Xrange`, `EitherPtr2`, time | ranges; tagged pointers; durations | loops; `construct`, `FromRaw`, `destroy`; `AsTimespec`, printing | the pools, `netring`, the timed `recvmsg` |
| `five` `ObjectPool`, `BitPointer`, `EitherPtr`, `RingBuffer` | containers without a user | | |
| `five` `Program`, config, affinity | a configuration | `config_load`, `config_save`, `SetupAndRun`, `set_affinity` | the programs of `src/src` |
| `five` type names, integer aliases | | | |
| `netring` `Socket`, `Addr`, stacks; `sure.h`, `driver.h`, `reh`, `proto` | | system calls; files that are not built | |

What is hard in this code: user_data that points into stack frames of
suspended fibers; a submission queue shared by every fiber, whose flush shows
the kernel whatever anybody has put there; calls with two completions in any
order; an answer racing its timer; retries over a lossy network with answers
that arrive late; pools whose objects the kernel may still be using.

What makes each component correct, in a sentence:

- the ring2 stack: a call blocks its fiber until it has one answer of its own,
  whatever the order of completions, and a timeout is only reported when there
  was no answer; the process dies of none of its own verifications;
- the UDP programs: no reply reaches the wrong fiber, the client comes to its
  end however bad the network, and its statistics cover what they claim;
- the TCP server: each receive is answered once, on its own connection, and one
  peer can neither stop nor kill the server for the others (it can: see below);
- `cli`: replies are shared out among the fibers without one being lost;
- `netring`: a completion finds the object its cookie points to, no buffer,
  slot or stack has two owners, none is lost;
- `five`: ranges stop where they should, tags and addresses stay apart, a
  duration reaches the kernel as it was meant.

## Modules

A module has the file's or the class's name, an action or operator the
function's; `PROJECT.json` maps each definition to the lines it stands for.
Modules compose by EXTENDS, from the environment inwards.

    Scheduler - IoUring - Ring - RingPoller - Submitter - SubmitterCalls - MCSubmitter
                                              (implements FiberCalls)
    Datagrams - EchoServer, Summary - InfallibleUdp - MCInfallibleUdp
                                    - Cli - MCCli
                           - EchoService
    Submitter, Datagrams - EchoOnRing - MCEchoOnRing
                           (implements EchoService)
    TcpServer - MCTcpServer
    Uring, ObjectPoolLite - Executor - MCExecutor
    CppInt - Xrange - MCXrange
           - Time           EitherPtr2, Addr, Startup

| Module | Models | State and actions |
|---|---|---|
| `Scheduler` (external) | tinyfibers, as `src/ring2` uses it | run queue and running fiber; `Yield`, `Suspend`, `Wake`, `Resume` |
| `IoUring` (external) | liburing, the SQPOLL thread, the kernel's workers | `sq`, `flushed`, `busy`, `inflight`, `cq`; `TakeBatch`, `ReleaseBatch`, `PostOp`, `Timer`, `PostTimeout` |
| `Ring` | `ring.cc` | `pending_count_`, the completions copied out; `submit`, `poll`, `try_poll`, `try_poll_many`, `has_pending` |
| `RingPoller` | `poller.cc` | `attempts_`, the setters in the fibers' frames; `TryPoll`, `TryPollMany`, `HasPending`, `dispatch` |
| `Submitter` | `submitter.cc`, composed with all of the above | where each fiber is and what its call returned; one action per step between two points at which something else can happen |
| `FiberCalls` | what `submitter.h` promises | a call begins and returns, atomically, with an allowed answer |
| `SubmitterCalls` | the refinement of `FiberCalls` by `Submitter` | `AnyRing` and `AmpleRing`, two strengths of the promise |
| `Datagrams` (external) | UDP, and the sockets bound to it | datagrams on the way, bounded receive buffers, bound addresses; loss, duplication, reordering, `Bind`, `Close` |
| `EchoServer` | `srv2.cc`, udp mode, on atomic calls | each fiber's buffer and message; open, receive, double, send, and their failures |
| `EchoService` | what that server promises | `EchoServer` and clients that send any of a set of requests |
| `EchoOnRing` | `srv2.cc`, udp mode, on `Submitter` | the same buffers, written and read by the kernel while fibers are suspended; opening, spawning, joining, every step of every call |
| `InfallibleUdp` | `infallible_udp.cc` with server and network | iterations, `timings`, `dead_packets`; open, send, timed receive, give up, stop, summarise |
| `Cli` | `cli.cc` with server and network | fibers on one socket; open, send, receive, summarise |
| `Summary` | the report at the end of both clients | operators only: what is left after the cut, the indices of the quantiles |
| `TcpServer` | `srv2.cc`, tcp mode, with the peers | descriptors, accepting fiber, handlers; listen, accept, spawn, receive, send |
| `Uring` | `uring.cc` and the kernel | the ring of eight entries, with cookies |
| `ObjectPoolLite` | `object_pool.h:50-88` | `get` and `put` as operators on a sequence |
| `Executor` | `uf.h`, `uf.cc` and the `Handler` of `srv.cc` | slots, buffers, stacks and their pools; start, run and finish a handler |
| `Xrange`, `EitherPtr2` | `xrange.h`, `bit_ptr.h` | a range-for loop; handles and the objects they point to |
| `Time`, `CppInt` | `time.h`, `time.cc`; C++ division | operators only |
| `Addr` | `ring2/addr.cc`, and the IPv6 half of it in `netring/net.cc` | operators only: the bytes an address has in memory |
| `Startup` | `config.h`, `program.h`, `linux.cc`, the payloads of the two clients | operators only |

### The ring2 stack

`Submitter` is the whole stack: any number of fibers making any sequence of
calls, the scheduler loop and the kernel.  Three things in it are worth
knowing before reading it.

*Addresses.*  `user_data` is the address of a `UringResSetter` in the frame of
the calling fiber.  A fiber is in one call at a time and its frames reuse the
same addresses, so an address is modelled as a fiber and a role, and a
completion that came late really would be written into the setter of a later
call.  `FrameLive` says that none does.

*Atomicity.*  Fibers of one thread only interleave where they yield or suspend;
the kernel interleaves everywhere.  So a step of a fiber ends where the code
reads or writes something the kernel shares: obtaining an entry, submitting it,
and reading how many were submitted are steps of their own, and between them
the kernel may take, release and complete.  `Ring::submit` on a full ring is
`Starve`: a yield, after which anybody may run.

*Batches.*  `io_uring_submit` shows the kernel every entry obtained so far,
whoever obtained it; the SQPOLL thread takes what it sees as one batch, ties a
linked entry to the next one of the batch, and moves the queue's head once the
whole batch was issued.

### The UDP programs

A body is the sequence of the payloads it is made of, and a buffer likewise, so
that a reply built from one request's bytes and another's address would be
seen.  `seq` numbers the requests; no program reads it, the properties do.  The
Submitter's calls are atomic here, which is what `PromiseKept` justifies, and
`GiveUp` is a timed receive that reports `ESQE_TIMEOUT`, whether or not a reply
is on its way.

Sockets are opened, bound and closed where the programs do it: the server's
before its fibers start, one per fiber of `infallible_udp` when the fiber first
runs, one for all the fibers of `cli`.  A datagram for an address nobody has
bound is dropped, so a client may start before its server, and each failing
system call is an exception that ends its process.  `cli` does not bind; its
first send does, and the model's `Send` with it.

Both clients end with the same report (`Summary`): when they have more than 1000
timings (`Cut`) they drop the first 1000, divide by the number of the others and
read them at the quantiles' indices.

### The UDP server on the ring

`EchoServer` has atomic calls.  `EchoOnRing` is the same server made of
`Submitter`'s steps: the kernel writes the buffer and the address in a suspended
fiber's frame when it performs the operation, and posts the completion then;
the poller, the scheduler and the other fibers come in between.  The mapping to
`EchoService` takes a fiber to have "got" a message once the kernel has written
it, and to be through with "send" once the kernel has sent it; so a fiber that
ran too early, a buffer used for two operations at once, or a reply sent twice
would be a step the service does not have.  The scheduler's stop is left out:
the handlers never return.

### The TCP server

A request is a number of bytes, of which a receive takes some; a reply is
`ReplySize` pieces, of which `sendmsg` takes as many as the connection has room
for, and at least one (`srv2.cc:100` does not look at how many).  `received`,
`replied` and `taken` count receives, replies and pieces per connection.  The
server never closes a descriptor, so `fds` only grows.  The kernel reserves the
descriptor of an accept before it waits for a connection, so that at the limit
accept fails at once, whether or not anybody connects (`HasFreeFd`, `Accept`).

The peers connect, send, read, shut their side down, close and reset as they
like.  A reply to a peer that has closed is accepted by the kernel and answered
by a reset (`peer` becomes "refused").  The handler's next receive fails, which
ends that handler only, or still returns what that peer had sent before, which
is answered, and this reply is an exception: a peer that sends two requests and
closes can end the process, like one that resets its connection.

### The old stack

`Executor` composes the dispatch loop with the echo handler of `srv.cc`.  A
slot's index is its address, hence its cookie.  The pools are `ObjectPoolLite`s,
which start empty: their constructors fill them in a loop over an `xrange`, and
no such loop ever runs (see `Xrange`).

## What is checked

| Run | Instance | Shows |
|---|---|---|
| `core` | 2 fibers, 8 entries, TryPollMany | with four entries per fiber a timed pair reaches the kernel intact (`PairIntact`), the race of answer and timer is reported correctly (`TimeoutMeansNoAnswer`), the stack implements the strict promise (`KeepsStrictPromise`), and timed receives and sends return (`CallsReturn`) |
| `starved` | 2 fibers, 4 entries, TryPollMany | in a ring that does fill up: `FrameLive`, `NoLostWakeup`, `AwaitedResults`, `PendingExact`, `StopsOnlyWhenDone`, the weaker promise (`KeepsPromise`), the ring is never full of operations that all wait for the entry of their timeout (`NoGridlock`), and every fiber that waits for an entry gets one (`SqeGranted`) |
| `trypoll` | 2 fibers, 8 entries, TryPoll, limit 3 | the only completion ever lost is the one overwritten at the busy-poll limit (`DeliveredOrDropped`); the ring is never full (`NeverStarved`) |
| `broken_pair` | as `starved` | a verification of `submitter.cc` that does fail (see Findings) |
| `echo_ring` | 2 handlers and the fiber that spawns them, 2 entries, 3 requests, one of them too long, lost requests, failing operations, a receive buffer of 1 | the server on the ring implements the echo service (`KeepsService`), and whatever request a handler has taken is answered unless the process dies (`TakenIsAnswered`) |
| `udp` | 2 client fibers, 2 server fibers, 4 requests, loss and reordering, a summary that cuts off 1 | `NoBadResponse`, `BacklogBound`, `EachReplyOnce`, `LateOnlyAfterDead`, `ClientEnds` |
| `udp_faults` | 2 client fibers, 1 server fiber, 2 requests, buffers of 1, duplication, failing calls on both sides, a payload too long | `NoBadResponse` again, here with receives of the server that fail; `BadSummaryMeansAllDead`; and `ClientEnds` again, with a server that may die of a long datagram or a failed call, or never open its socket |
| `tcp` | 3 connections, 3 descriptors for them, a queue of 2, peers that send 2, 1 and 0 bytes, replies of 2 pieces with room for 3 | `OneReplyPerReceive`, `CutOnlyIfUnread`, `DeathsExplained`, `Served` |
| `cli` | 2 fibers, 2 requests each, 2 server fibers, loss, failing calls, a summary that cuts off 3 | `NobodysReply`, `SummaryComplete`, `CliEnds` |
| `executor` | 4 requests of 1 and 3 units, buffers of 6 | `CookiesLive`, `BuffersExclusive`, `PoolsExact`, `SqeNeverNull`, `OwnReply`, `ShortOnlyAfterShort`, `AllAnswered` |
| `xrange` | bounds -4 .. 4, steps -3 .. 3 | what a test and the pools' loops are written for, and does not happen (see Findings) |
| `eitherptr` | 2 types, 2 handles | a test's expectation that fails (see Findings) |

Each property is stated in a comment above its definition, with the lines it is
about.  `PROJECT.json` has, for each that holds, a mutation of a modelled operation (an
operator marked `Mutant` beside the one it replaces) under which it fails.

### Bounds, and why they are enough

- *Fibers of ring2: two.*  A frame, a setter and a wake-up belong to one fiber;
  the interference between calls is through the shared ring, and takes one
  other fiber.  What is proved is proved for any number.
- *Entries: four or eight*, powers of two as `io_uring` makes them.  Eight is
  four per fiber, with which the ring is never full (proved: `RingSuffices`);
  four is the smallest with two fibers in which a fiber can be starved between
  an operation and its timeout without everyone being stuck.
- *`echo_ring`: two entries*, one per handler.  Untimed calls need one entry
  each, so the ring fills up when a batch is not yet released, and `Starve`
  happens.  With one entry and two handlers one of them may be overtaken for
  ever (see Findings).  Each client asks once and the third is too long to
  double; `InboxSize` 1 makes the receive buffer overflow, and requests may be
  lost on the way.  A request that arrives twice is, to this server, a second
  request, so duplication is left to `udp_faults` and to the proofs, which allow
  it.  `Unwritten` bounds
  the addresses an unwritten `msg.addr` may hold to one, and `Polls` is
  `TryPollMany`, what the scheduler calls.
- *`BatchSize`: two* where the code asks for sixteen: batches that are full and
  batches that are not both happen, and a pair's completions come in one batch
  or in two.  `MaxAttempts` is the busy-poll limit, 10^6 in the code and 3 here.
- *UDP.*  Two client fibers for a reply that goes astray, two server fibers for
  one that is mixed up, two requests each for a late reply that meets the next
  request.  The server may come up late or not at all.  `InboxSize` bounds the
  receive buffers, which drop what does not fit; `Count` is the program's own bound.  Duplication is checked with one
  server fiber and one request per client fiber, since every copy multiplies
  the states; duplicates make a client fiber take one reply twice, so
  `EachReplyOnce` and `BacklogBound` are stated of a network without them.
- *Summaries.*  `Cut` is 1000 in the code, and 1 or 3 here so that it is exceeded
  (`udp_faults`: by two timings; `cli`: by four) and not exceeded.
- *TCP.*  As many descriptors as connections: the accept after the last of them
  fails.  Three handlers can wait, so that a reply could go to the wrong one and
  a third be unaffected.  `MaxBytes` bounds what
  each peer sends: two bytes may be answered by one reply or by two.  With
  `ReplySize` 2 and `ReplyRoom` 3 the first reply is taken whole and the second
  may be cut.
- *`executor`.*  `MaxRequests` 4: the first two requests make the pools' objects,
  the others are served from them, in either order of lengths.
- *`MaxHandles`* bounds a scope of `EitherPtr2`.

Deadlock is checked in `core`, `starved`, `udp` and `udp_faults`, where the end
of the process is a stuttering action and any other stop is an error.  It is
not checked where the program, or the model's bounded environment, may come to
rest: `trypoll` (the poller may wait for ever after it has dropped a
completion), `cli` (a lost reply is waited for without limit), `tcp` (all the
connections are done), `executor` (all the requests are answered) and `xrange`
(the loop is over).

### Fairness

- *ring2.*  The running fiber goes on (weak fairness of each fiber's step), the
  scheduler switches, dispatches and returns from a wait (weak fairness).
  `PollMany` is strongly fair: the scheduler calls its poller at every turn of
  its loop, so a completion that is available again and again is found, though
  fibers run in between.  The kernel takes and releases batches, fires timers
  and posts what is bound to complete; a send completes.  It owes *no data*: a
  receive or accept may stay active for ever, which is why `CallsReturn` is
  about timed receives and sends only.
- *The server on the ring.*  The same, for the steps of the handlers, and
  opening the socket; the kernel performs each send.  Clients, receives and the
  network owe nothing.
- *UDP.*  In `udp` and `udp_faults` the client's fibers go on, since a receive
  with a duration returns, but not by failing; network and server owe nothing:
  `ClientEnds` holds if every datagram is lost and if there is no server.  In
  `cli`, whose receives have no limit, the server's fibers go on, the network
  delivers what it does not lose, and no call of the client owes a failure.
- *TCP.*  Accept, spawn and each handler are weakly fair.  Peers owe nothing.
- *netring.*  The SQPOLL thread, the loop and the completions are weakly fair.

`core` and `starved` check liveness with the scheduler polling by
`TryPollMany`; by `TryPoll`, a dropped completion leaves its fiber suspended
for good, and no such property holds.

### What is assumed of the kernel and of tinyfibers

Neither is in the repository.  `IoUring` and `Scheduler` state what is assumed:

- the run queue is a FIFO, and fibers switch only where they yield, suspend or end;
- an `IOSQE_IO_LINK` entry is tied to the next entry of the same batch, or to
  nothing when it is the last; a link timeout with nothing to guard completes
  with `EINVAL`; an operation behind a failed link is cancelled;
- the queue's head is moved after the whole batch, and completions of its
  entries may come before that;
- every request completes once; the completion queue does not lose completions;
- waiting for a completion and peeking for one do not fail: `io_uring_wait_cqe`
  is not interrupted by a signal.  `ring.cc:60` and `73` end the process if they
  do (`SYSCALL_VERIFY`), which is left out;
- a receive or a send waits for data or room, also on the accepted sockets whose
  flags `srv2.cc:81` changes;
- a timer that fires too late to cancel reports `ENOENT` (`LostTimer`).  This one
  matters: if a kernel says `EALREADY` there, `TimeoutMeansNoAnswer` fails,
  because `submitter.cc:62-77` does not know it.

## What is proved

The theorems hold for every value of the constants; the only assumptions are
the named `ASSUME`s of the modules (that `NoFiber` is not a fiber, that no
operation fails with `ENOCQE`, which is larger than any errno, that a program
has finitely many fibers, and the like) and those a theorem states.

*ring2* (`SubmitterProofs`).  The safety
properties are not inductive: that no completion is written into a dead frame
depends on where the fiber is in its call, on which setters hold results, on
where each owed completion is, and on who is in the run queue.  `IInv` says all
of it at once:

- *one place*: at most one completion is owed per setter, and its entry is in
  the submission queue, with the kernel or in the completion queue, never in
  two of them (`OneCompletion`);
- *owed setters*: who is owed a completion is at the point of the call that
  submitted it or after it, and its setter holds no result (`OwedSetters`);
- *fresh setters*: before it suspends, a fiber's later setters are unset
  (`FreshSetters`);
- *ready fibers*: whoever is in the run queue has something to do, and after
  Suspend that is reading a complete set of results (`Ready`), nobody is in it
  twice (`QueuedOnce`);
- *the poller is alone*: nothing is dispatched while a fiber runs (`PollerAlone`).

The module's first sections show for each action of the ring that it moves entries without
duplicating them, and how many there are, and what each switch of the scheduler
does to the run queue; the others combine them, one lemma per action.
From `IInv` follow `TypeCorrect`, `FramesLive`, `CompletionsUnique`,
`WokenOnce`, `ResultsComplete` and `NeverEnocqe`.  Two further invariants rest
on it: `CountInv` (finitely many requests, counted by `pending_count_`:
`CountExact`) and `AwaitedInv` (whoever lacks a result is owed it), which needs
that the scheduler does not poll with `TryPoll` and gives `WakeupsKept` and
`NoneAbandoned`.  `CompletionsDelivered` is an action property that covers
`TryPoll` too.  `RingSuffices` bounds the entries of queue and batch by two each
per fiber.  `NeverGridlocked` is about rings that do fill up: if there are more
entries than fibers, the unflushed operations that wait for the entry of their
timeout never occupy all of them.  Each fiber has at most one such operation
(`NextLone` shows which steps make one), and entries are distinct, so there are
no more of them than fibers.

*An ample ring* (`PromiseProofs`).  `PairIntact`, `TimeoutMeansNoAnswer` and
the strict promise are false of a ring that fills up (`broken_pair`).  They are
proved for rings with four entries per fiber, of any number of fibers, with any
batch size: there `RingSuffices` says that `Ring::submit` never waits, so nothing
runs between the two entries of a timed call.  The invariant `AmpleInv` follows
the pair from there to the setters, in four parts that rest on `IInv`:

- *in the queue* (`SqPaired`): an operation of a timed call is linked, the next
  entry is its timeout or about to be pushed by the fiber that runs, and no batch
  is cut between the two;
- *in the kernel* (`FlightPaired`): a timer is armed exactly while the operation
  of its own call is active.  It holds because `Take` links neighbours;
- *the verdict* (`Verdict`): once a timer has expired its operation is not
  completed with an answer any more, once an operation is cancelled its timer has
  expired, and the results posted and written say the same, in whatever order they
  come;
- *no answer yet* (`Unanswered`): a call in progress has returned nothing.

`PairsKept` and `BothSubmitted` need the first two only, `TimeoutsTrue` all.  The
last also assumes `PlainErrors`: an operation does not itself report `ECANCELED`,
and a timer that comes too late reports `ENOENT` or `ECANCELED`.  Without the
second the verification of `submitter.cc:66` fails when a kernel reports
`EALREADY`, which is the hazard listed at that line.  TLC checked `AmpleInv`
on the instances of `core` and `trypoll` before it was proved.

*The promise* (`PromiseProofs`).  `PromiseKept`: every behaviour of the
stack, seen through `Control`, is one of `FiberCalls`, whatever the size of the
ring: initial states map to initial states, each step to a call's begin, return
or death, the scheduler's stop, or a stutter.  `StrictPromiseKept`: in an ample
ring the same holds with the strict answers, where a timed call returns an answer
or `ESQE_TIMEOUT`, and no verification ends the process.  Both suppose that the
scheduler polls with `TryPollMany` only, for `TryPoll` can lose a completion.

*The server on the ring* (`PromiseProofs`).  `ServiceKept`: the UDP server on the
whole stack is the echo service, for any number of handlers, any ring and a
network that loses, duplicates and reorders requests, including failing calls
and a process that dies.  A step of the kernel
that writes a message is the service's receive, one that sends is its send, and
everything the ring, the poller and the scheduler do in between is a stutter
(`StackServes`).  The invariant `ServiceInv` adds to `IInv` that a handler's call
is the one its program is at, that its message is in its buffer, with room for
the copy once it is to be sent, and that an operation nobody cancels reports
success or an error of its own.  What makes the refinement work is `IInv`: an
operation is performed once, for the call that submitted it (`PostPerforms`),
and its result is in exactly one of completion queue and setter, so what was
performed stays performed through dispatch (`DispatchReports`).  TLC checked
`ServiceInv` on the instance of `echo_ring` first.

`RepliesAnswer` is what its clients get from that: every datagram on its way to
a client answers a request this client has sent, with that request's payload
twice, or it is the empty one that follows a failed receive, and there is none
of those if no operation fails.  Nothing about the ring enters this proof.  It
is one about the service, `Genuine` with `Known` (what is on its way or with a
fiber belongs to a request that was sent), carried over by `ServiceKept`:
`Served` is `EchoServerProofs` for the state as the refinement maps it, so the
lemmas proved there for atomic calls (`ServerKeeps`, `ServerKnown`,
`NetworkKnown`, `RequestKeeps`) hold of the server on the ring.  It is not
among the properties of a run.

*UDP* (`EchoServerProofs`, `InfallibleUdpProofs`).  All five safety properties of
the client with its server.  `RepliesGenuine`: the panic "bad response" is
unreachable for any number of fibers on both sides, any buffer sizes, and a
network that loses, duplicates and reorders.  The invariant is `Genuine`: every
datagram carries its sender's payload once or its receiver's twice, and the
buffer of a server's fiber begins with the payload of the peer it will answer.
An empty datagram, the server's answer to a receive that failed, is the one
exception and is caught before the comparison.  `EchoServerProofs` shows that the
server and the network keep it, whoever the clients are.

`SummarySafe` needs no more than the client's books (`Accounted`): every
iteration a fiber is done with has left a timing or a dead packet.

The other three hold for a network that does not duplicate (`~MayDuplicate`: with
duplicates a reply is taken twice, which `udp_faults` allows).  They are
consequences of one invariant, `AllOnce`: a request or its reply is in one place
at a time, in one copy: on its way, in a receive buffer, with a fiber of the
server or among the timings; and it is a request its fiber has sent.  It is
proved place by place (`NetGrows`, `BoxTakes`, `MsgChanges` and so on say what a
step does to one place), for one request at a time.  From it:
`RepliesTakenOnce` at once; `LateRepliesExplained` by the pigeonhole principle
(if the iterations up to the m-th have all got a timing, they have used up the
replies to the requests up to the m-th); `DeadPacketsCovered` because the places
map one to one to the requests sent, which `Accounted` counts.

*cli* (`CliProofs`).  `SummaryOfAll`: before the report every request has a record
or a fiber that waits (`Accounted`), and a fiber has made all its rounds when it
joins; the report then keeps the records of all requests, or all but the first
`Cut` if there are more, and so none only if no request was asked for.
`RepliesAwaited` is a sum that each step keeps: a step that sends also waits, one
that receives takes a datagram, and server and network only move or lose
datagrams.  It supposes that the network does not duplicate and that the server's
calls do not fail, for a failed receive makes the server reply to nothing.

*TCP* (`TcpServerProofs`).  `AnsweredOnce`, `CutExplained`, `DeathsAccounted` and
`TypeCorrect`, for any number of connections, descriptors, bytes and pieces.
`OneReplyPerReceive` is about connections, the program only has descriptors and
handlers; `IInv` relates the three one to one: the handler spawned n-th has the
n-th descriptor (`AcceptInv`), a connection is queued or accepted once
(`ConnsInv`), so a handler is alone in changing what its connection has received
and replied (`RepliesInv`).  `BytesInv` and `PiecesInv` bound bytes and pieces by
these counts.  That accept fails at the limit only is a count too: the
descriptors are a bijection to the accepted connections (`AcceptedCount`).
`DeathsAccounted` needs to know when a reply meets a broken connection:
`RefusedInv` says that a peer is "refused" only after a reply to it, so that the
reply which fails is at least the second.

*netring* (`ExecutorProofs`).  All six safety properties of the dispatch loop, for
any number of peers and requests, any lengths, and a kernel as slow as it likes.
`IInv` has a part for each kind of thing the loop moves about:

- *completions*: a slot is owed at most one, which is in the submission queue,
  with the kernel or in the completion queue (`OneCompletion`), and only the
  first slot receives (`OpsInv`);
- *the ring*: the loop submits one receive and one reply per turn, so at most
  three entries are untaken, and the kernel takes at most three at once
  (`QueueInv`); hence the ring of eight is never full (`AlwaysAnSqe`);
- *slots*: a handler that has not ended has a reply unless it is about to run,
  one that has ended is in the pool, and whoever is owed a completion waits for
  it (`SlotInv`: `CookiesAlive`);
- *stacks and buffers*: each belongs to one handler or request, or is in its pool
  (`StackInv`, `BufferInv`: `PoolsAgree`, `NoSharedBuffer`);
- *payloads*: what a request holds is what the peer in its address sent
  (`DataInv`: `RightReply`).  This needs `BufferInv`: the kernel and the handlers
  write into buffers nobody else has;
- *lengths*: the length of a pooled request is that of a buffer or of a reply that
  has been sent (`LengthInv`: `ShortRepliesExplained`).

`FreshRequest`, `FreshSlot` and `FreshStack` say what a pool's `get` returns,
`TakeMoves` to `SubmitMoves` what each step of the ring moves, and one lemma per
action combines them.  That no stack or completion is lost is a count
(`PendingCounted`, and bijections as in the TCP server).

*five* (`FiveProofs`).  `TimespecExact` and `NegativeTimespecInvalid` say which
durations reach the kernel as timespecs it accepts, `PrintedPrecise` what a
printed duration loses, `TagsKeptApart` that the index and the address packed in
a word come back, and `RealStopExact` what `calc_real_stop` computes for ascending
ranges, although no loop reads it.

*Addresses* (`FiveProofs`).  `AddressPrinted`: what is printed of an address is
what it was made of.  It rests on `PortBytes` (`ntohs` undoes `htons` for every
port) and on `CutBy` (a 64-bit port loses a multiple of 65536).
`FibersAskApart`: the fibers of `infallible_udp` ask to bind different ports as long
as there are no more of them than ports.  One in 65536 asks for port 0, for which
the kernel takes any that is free, so what the fibers are given may still
collide: with this fiber's, which may have been given the port of a later one.
`LocalIsReversed`: `ip4_local` does not make the loopback address.

*Start-up* (`FiveProofs`).  `SavedIsLoaded`: a configuration that is printed and
read again is the same whatever the reader's defaults, provided that every field
has its type; if one has not, `config.h:22` dereferences an empty optional, and
`Loaded` allows any value.  `AffinityOfEight`, `PaddingEnds` and `CliPayloadFits`
give the exact conditions under which the affinity is the one asked for, the
padding of a payload ends, and what `cli` sends does not kill the server.

### What is only model-checked

Liveness, everywhere.  And the three claims that runs refute (see Findings), of
which `SubmitsBoth` is proved for the rings in which it is true.

## Findings

- *`SubmitsBoth`* (`broken_pair`).  `submitter.cc:58` verifies that the kernel
  has been shown both entries of a timed call, or has taken everything.  When
  the ring is full, `Ring::submit` yields between the two; another fiber's
  `io_uring_submit` then flushes the first alone, the count is 1, and the process
  dies of "should submit timeout and op".
  After the same yield the timeout may be in a later batch than its operation;
  it then guards nothing and completes with `EINVAL`, and if the operation fails
  the process dies of "bad LINK_TIMEOUT" (`BadLinkTimeout`).
- *`DestroyedWithScope`* (`eitherptr`).  `EitherPtr2::destroy` is empty, and the
  test `EitherPtr2.Destroy` expects an object to be destroyed with its handle.
- *`VisitsAll`* (`xrange`).  `Xrange::end` returns `start_` where it should return
  `stop_`, so that a loop over any range ends before its body.  The test
  `Xrange.Basic` compares the values of `xrange(10)` with 0, 1 and so on, and
  passes because it compares none; the pools' constructors loop over
  `xrange(initial)` to make objects, and make none, which costs an allocation
  later and no more.  Repairing `end` alone would let every loop die of the
  assertion in `operator++` (`xrange.h:17`), whose condition is the wrong way
  round.

The first needs more than one fiber per four entries.  The programs' defaults
are one fiber and eight entries, and nothing ties `fibers` to `ring_entries`.

Behaviour met on the way that contradicts nothing the repository says: as many
fibers in timed calls as there are entries wait for each other for ever (two
fibers and two entries violate `NoGridlock`; the defaults of `infallible_udp`
have eight entries, so eight fibers are enough); `Ring::submit` polls for an
entry without queueing for it, so with fewer entries than fibers one of them may
be overtaken for ever (`ring.cc:37`); `TryPoll` loses a completion at
its limit; the TCP server never closes a descriptor, never sends the rest of a
reply that was cut, and dies with a peer that resets its connection before it
is answered, or that sends two requests and closes without waiting; `cli` waits
for ever for a lost reply and its comparison of reply and request (`cli.cc:96`) is never true; a reply of the old
server leaves its doubled length in the pooled request, so the next long
datagram is cut to it; the stop of a descending `Xrange` may be wrong, and is not
read; `set_affinity` looks
at the first eight CPUs only (`linux.cc:13`); `Addr::ip4_local` is 1.0.0.127
(`addr.cc:55`, nobody calls it); an empty `data_to_send` makes the client append
nothing for ever (`infallible_udp.cc:73`).

## What is not modelled

- The calls of `Uring` with callbacks and their contexts: they have no caller.
- In `Executor`, requests longer than half a buffer and failing system calls,
  for which the code has no defined behaviour, and a handler that throws before
  it has yielded.
- The bytes of TCP requests and replies: they are counted, not kept.
- Fixed-width overflow in `Xrange`, whose arithmetic is that of the integers here.
- The toml parser, `inet_pton` and `inet_ntop`, type names, and log lines.
- The socket of `netring`, opened once before the dispatch loop starts, and the
  memory of its stacks.
- The clocks, and the operators `+` and `-` of `Instant` and `Duration`, which are
  those of integers.
- Code without a user that would not compile if it had one: `ObjectPool`,
  `BitPointer`, `EitherPtr`; and `RingBuffer`, which has neither user nor test.

## Plan

Written, in this order: the ring2 stack with its proofs and its abstract
specification; the UDP programs with their proofs; the TCP
server with its proofs; `cli` with its proofs; `netring` with its proofs; `five`; the UDP server on the ring2
stack, with the echo service it implements; the sockets' life; addresses and
start-up.  Next:

1. `infallible_udp` itself on the ring2 stack, against the server on the ring:
   `RepliesAnswer` says what its receives find, `PromiseKept` what they return.
2. The callback interface of `Uring`, and failing receives in `Executor`, if
   the code comes to use them.
