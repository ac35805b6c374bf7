----------------------------- MODULE FiveProofs -----------------------------
(***************************************************************************)
(* Facts about the parts of the code without concurrency: division,        *)
(* durations, ranges and tagged pointers of src/five, what a program is    *)
(* started with, and addresses.                                            *)
(***************************************************************************)
EXTENDS Time, Xrange, EitherPtr2, Startup, Addr, TLAPS

(* Division by a positive number: rounded down where nothing is negative.  *)
LEMMA QuotientPositive ==
  ASSUME NEW a \in Nat, NEW b \in Nat \ {0}
  PROVE  Quotient(a, b) = a \div b /\ Remainder(a, b) = a % b
<1>1. a \in Int /\ b \in Int /\ b > 0 /\ ~(a < 0) /\ ~(b < 0)
  OBVIOUS
<1>2. Quotient(a, b) = a \div b
  BY <1>1 DEF Quotient, Magnitude
<1>3. a - b * (a \div b) = a % b
  BY <1>1
<1> QED
  BY <1>2, <1>3 DEF Remainder

(* What the quotient and the remainder of natural numbers add up to.       *)
LEMMA DivModInt ==
  ASSUME NEW a \in Int, NEW b \in Nat \ {0}
  PROVE  /\ a \div b \in Int
         /\ a % b \in 0 .. b - 1
         /\ (a \div b) * b + (a % b) = a
OBVIOUS

LEMMA DivMod ==
  ASSUME NEW a \in Nat, NEW b \in Nat \ {0}
  PROVE  /\ a \div b \in Nat
         /\ a % b \in 0 .. b - 1
         /\ (a \div b) * b + (a % b) = a
OBVIOUS

(* A receive's duration that is not negative reaches the kernel as a       *)
(* timespec it accepts, and as the same duration (time.h:45-57,            *)
(* submitter.cc:52): the link timeout is never refused for its timespec.   *)
THEOREM TimespecExact ==
  ASSUME NEW nanos \in Nat
  PROVE  /\ ValidTimespec(AsTimespec(nanos))
         /\ FromTimespec(AsTimespec(nanos)) = nanos
<1>1. Nano \in Nat \ {0}
  BY SMT DEF Nano
<1>2. AsTimespec(nanos).tv_sec = nanos \div Nano
  BY <1>1, QuotientPositive DEF AsTimespec
<1>3. AsTimespec(nanos).tv_nsec = nanos % Nano
  BY <1>1, QuotientPositive DEF AsTimespec
<1>4. /\ nanos \div Nano \in Nat
      /\ nanos % Nano \in 0 .. Nano - 1
      /\ (nanos \div Nano) * Nano + (nanos % Nano) = nanos
  BY <1>1, DivMod
<1>5. ValidTimespec(AsTimespec(nanos))
  BY <1>2, <1>3, <1>4 DEF ValidTimespec
<1>6. FromTimespec(AsTimespec(nanos)) = nanos
  BY <1>2, <1>3, <1>4 DEF FromTimespec
<1> QED
  BY <1>5, <1>6

(* A duration below zero does not: the kernel refuses its timespec, and    *)
(* the verification of submitter.cc:66-71 fails.  Nothing checks the sign  *)
(* of dead_packet_us (infallible_udp.cc:123).                              *)
THEOREM NegativeTimespecInvalid ==
  ASSUME NEW nanos \in Nat \ {0}
  PROVE  ~ValidTimespec(AsTimespec(-nanos))
<1>1. -nanos < 0 /\ ~(Nano < 0) /\ Magnitude(-nanos) = nanos /\ Magnitude(Nano) = Nano
  BY SMT DEF Magnitude, Nano
<1>2. Quotient(-nanos, Nano) = -(nanos \div Nano)
  BY <1>1 DEF Quotient
<1>3. Remainder(-nanos, Nano) = -nanos + Nano * (nanos \div Nano)
  BY <1>2, SMT DEF Remainder, Nano
<1>4. /\ AsTimespec(-nanos).tv_sec = -(nanos \div Nano)
      /\ AsTimespec(-nanos).tv_nsec = -nanos + Nano * (nanos \div Nano)
  BY <1>2, <1>3 DEF AsTimespec
<1>5. /\ nanos \div Nano \in Nat
      /\ nanos \div Nano = 0 => -nanos + Nano * (nanos \div Nano) < 0
  BY SMT DEF Nano
<1>6. CASE nanos \div Nano = 0
  BY <1>4, <1>5, <1>6 DEF ValidTimespec
<1>7. CASE nanos \div Nano # 0
  BY <1>4, <1>5, <1>7 DEF ValidTimespec
<1> QED
  BY <1>6, <1>7

(* A printed duration (time.cc:57-65) loses less than the unit it is       *)
(* printed in, and is never printed as 0 or 1 of a unit above nanoseconds. *)
THEOREM PrintedPrecise ==
  ASSUME NEW nanos \in Nat
  PROVE  /\ Printed(nanos) * Scale(nanos) <= nanos
         /\ nanos < (Printed(nanos) + 1) * Scale(nanos)
         /\ Scale(nanos) > 1 => Printed(nanos) >= 2
<1>1. Scale(nanos) \in {1, 1000, 1000000, 1000000000}
  BY SMT DEF Scale, Nano
<1>2. Printed(nanos) = nanos \div Scale(nanos)
  BY <1>1, QuotientPositive, SMT DEF Printed
<1>3. Scale(nanos) > 1 => nanos > 2 * Scale(nanos)
  BY SMT DEF Scale, Nano
<1>4. CASE Scale(nanos) = 1
  BY <1>2, <1>4, SMT
<1>5. CASE Scale(nanos) = 1000
  BY <1>2, <1>3, <1>5, SMT
<1>6. CASE Scale(nanos) = 1000000
  BY <1>2, <1>3, <1>6, SMT
<1>7. CASE Scale(nanos) = 1000000000
  BY <1>2, <1>3, <1>7, SMT
<1> QED
  BY <1>1, <1>4, <1>5, <1>6, <1>7, SMT

(* Construct keeps apart what it stores in one word (bit_ptr.h:182-226):   *)
(* for up to 32 types the index and the address come back as they went in. *)
THEOREM TagsKeptApart ==
  ASSUME NEW n \in 1 .. 32, NEW addr \in Nat, addr % Alignment(n) = 0,
         NEW N \in 0 .. n - 1
  PROVE  /\ GetBits(SetBits(addr, N, n), n) = N
         /\ GetAligned(SetBits(addr, N, n), n) = addr
<1>1. N < Alignment(n) /\ Alignment(n) \in {1, 2, 4, 8, 16, 32}
  BY DEF Alignment
<1>2. PICK k \in {1, 2, 4, 8, 16, 32} : Alignment(n) = k
  BY <1>1
<1>3. N % k = N
  BY <1>1, <1>2
<1>4. (addr + N) % k = N
  BY <1>1, <1>2
<1> QED
  BY <1>2, <1>3, <1>4 DEF SetBits, GetAligned, GetBits

-----------------------------------------------------------------------------

(* The stop calc_real_stop computes for an ascending range that is not     *)
(* empty (xrange.h:39-41) is the first value the range must not reach: a   *)
(* multiple of step from start, at stop or less than a step beyond.        *)
THEOREM RealStopExact ==
  ASSUME NEW start \in Int, NEW stop \in Int, NEW step \in Nat \ {0}, start < stop
  PROVE  /\ calc_real_stop(start, stop, step) \in stop .. stop + step - 1
         /\ (calc_real_stop(start, stop, step) - start) % step = 0
<1> DEFINE d == stop - start - 1
           q == d \div step
           r == d % step
<1>1. d \in Nat
  OBVIOUS
<1>2. Quotient(stop - start - 1, step) = q
  BY <1>1, QuotientPositive
<1>3. q \in Nat /\ r \in 0 .. step - 1 /\ q * step + r = d
  BY <1>1, DivMod
<1>4. calc_real_stop(start, stop, step) = start + (q + 1) * step
  BY <1>2 DEF calc_real_stop
<1> HIDE DEF q, r
<1>5. PICK p \in Int : p = q * step
  BY <1>3
<1>6. (q + 1) * step = p + step
  BY <1>3, <1>5
<1>7. start + (p + step) = stop + step - 1 - r /\ start + (p + step) - start = p + step
  BY <1>3, <1>5
<1>8. ((q + 1) * step) % step = 0
  BY <1>3
<1> QED
  BY <1>3, <1>4, <1>6, <1>7, <1>8

-----------------------------------------------------------------------------
(* Addresses (addr.cc).                                                    *)

(* A port is a natural number below 65536.                                *)
LEMMA PortBounds ==
  ASSUME NEW n
  PROVE  n \in Port <=> n \in Nat /\ n < Ports
<1>1. Ports \in Nat \ {0}
  BY DEF Ports
<1> QED
  BY <1>1 DEF Port

(* A port comes back from the bytes it was put into.                       *)
LEMMA PortBytes ==
  ASSUME NEW port \in Port
  PROVE  /\ ntohs(htons(port)) = port
         /\ htons(port)[1] \in Byte /\ htons(port)[2] \in Byte
<1>1. port \in Nat /\ port < 65536
  BY PortBounds DEF Ports
<1>2. port = 256 * (port \div 256) + (port % 256)
  BY <1>1, DivMod
<1>3. (port \div 256) \in Byte /\ (port % 256) \in Byte
  BY <1>1, DivMod DEF Byte
<1>4. htons(port)[1] = port \div 256 /\ htons(port)[2] = port % 256
  BY DEF htons
<1> QED
  BY <1>2, <1>3, <1>4 DEF ntohs

(* An integer is cut to a port by leaving out a multiple of 65536.         *)
LEMMA CutBounds ==
  ASSUME NEW n \in Int
  PROVE  U16(n) \in Nat /\ U16(n) < 65536
BY DEF U16, Ports

LEMMA CutBy ==
  ASSUME NEW n \in Int
  PROVE  \E q \in Int : n = q * Ports + U16(n)
BY DEF U16, Ports

(* What is left of any integer is a port, and a port is left unchanged.    *)
LEMMA PortOfInt ==
  ASSUME NEW n \in Int
  PROVE  U16(n) \in Port /\ (n \in Port => U16(n) = n)
<1>1. U16(n) \in Nat /\ U16(n) < 65536
  BY CutBounds
<1>2. PICK q \in Int : q * 65536 + U16(n) = n
  BY CutBy DEF Ports
<1>3. U16(n) \in Port
  BY <1>1, PortBounds DEF Ports
<1>4. ASSUME n \in Port
      PROVE  U16(n) = n
  <2>1. n \in Nat /\ n < 65536
    BY <1>4, PortBounds DEF Ports
  <2> QED
    BY <1>1, <1>2, <2>1
<1> QED
  BY <1>3, <1>4

(* An address prints the bytes and the port it was made of (addr.cc:61-86, *)
(* 95-114), in both families.                                              *)
THEOREM AddressPrinted ==
  ASSUME NEW n \in Int, NEW family \in {"V4", "V6"}, NEW pton, pton # <<>>
  PROVE  to_string(from_parts(pton, n, family)) = [ip |-> pton, port |-> U16(n)]
<1> DEFINE af == IF family = "V4" THEN "AF_INET" ELSE "AF_INET6"
           addr == SockAddr(af, U16(n), pton)
<1>1. from_parts(pton, n, family) = addr
  BY DEF from_parts
<1>2. /\ addr.sa_family \in {"AF_INET", "AF_INET6"} /\ addr.sa_family # "AF_UNSPEC"
      /\ addr.ip = pton /\ addr.port = htons(U16(n))
  BY DEF SockAddr
<1>3. ntohs(addr.port) = U16(n)
  BY <1>2, PortBytes, PortOfInt
<1> HIDE DEF addr
<1>4. to_string(addr) = [ip |-> addr.ip, port |-> ntohs(addr.port)]
  BY <1>2 DEF to_string
<1> QED
  BY <1>1, <1>2, <1>3, <1>4

(* The fibers of infallible_udp ask to bind different addresses, as long   *)
(* as there are no more of them than ports: port + thr is cut to 16 bits   *)
(* (infallible_udp.cc:102), and the first one too many asks for that of    *)
(* the first fiber.  One of so many asks for port 0, which asks for no     *)
(* particular port: the kernel gives it any that is free, and what it is   *)
(* given may be the one another fiber asks for.                            *)
THEOREM FibersAskApart ==
  ASSUME NEW port \in Int
  PROVE  /\ \A s, t \in Port :
              FiberAddr(port, s) = FiberAddr(port, t) => s = t
         /\ FiberAddr(port, Ports) = FiberAddr(port, 0)
         /\ \A s \in Port :
              FiberAddr(port, s).port = htons(0) <=> s = U16(0 - port)
<1>1. ASSUME NEW s \in Port, NEW t \in Port,
             FiberAddr(port, s) = FiberAddr(port, t)
      PROVE  s = t
  <2>1. FiberAddr(port, s).port = htons(U16(port + s))
        /\ FiberAddr(port, t).port = htons(U16(port + t))
    BY DEF FiberAddr, ip4_any, SockAddr
  <2>2. /\ s \in Nat /\ s < 65536 /\ t \in Nat /\ t < 65536
    BY PortBounds DEF Ports
  <2>3. U16(port + s) = U16(port + t)
    <3>1. U16(port + s) \in Port /\ U16(port + t) \in Port
      BY <2>2, PortOfInt
    <3> QED
      BY <1>1, <2>1, <3>1, PortBytes
  <2>4. PICK p \in Int : p * 65536 + U16(port + s) = port + s
    BY <2>2, CutBy DEF Ports
  <2>5. PICK q \in Int : q * 65536 + U16(port + t) = port + t
    BY <2>2, CutBy DEF Ports
  <2>6. U16(port + s) \in Nat
    BY <2>2, CutBounds
  <2> QED
    BY <2>2, <2>3, <2>4, <2>5, <2>6
<1>2. U16(port + Ports) = U16(port + 0)
  BY DEF U16, Ports
<1>3. FiberAddr(port, Ports) = FiberAddr(port, 0)
  BY <1>2 DEF FiberAddr, ip4_any
<1>4. ASSUME NEW s \in Port
      PROVE  FiberAddr(port, s).port = htons(0) <=> s = U16(0 - port)
  <2>1. FiberAddr(port, s).port = htons(U16(port + s))
    BY DEF FiberAddr, ip4_any, SockAddr
  <2>2. s \in Nat /\ s < 65536
    BY PortBounds DEF Ports
  <2>3. U16(port + s) \in Port /\ 0 \in Port
    BY <2>2, PortOfInt, PortBounds DEF Ports
  <2>4. htons(U16(port + s)) = htons(0) <=> U16(port + s) = 0
    BY <2>3, PortBytes
  <2>5. PICK p \in Int : p * 65536 + U16(port + s) = port + s
    BY <2>2, CutBy DEF Ports
  <2>6. PICK q \in Int : q * 65536 + U16(0 - port) = 0 - port
    BY CutBy DEF Ports
  <2>7. PICK u \in Nat : u = U16(port + s) /\ u < 65536
    BY <2>2, CutBounds
  <2>8. PICK v \in Nat : v = U16(0 - port) /\ v < 65536
    BY CutBounds
  <2>9. (p + q) * 65536 + u + v = s
    <3>1. p * 65536 + u = port + s
      BY <2>5, <2>7
    <3>2. q * 65536 + v = 0 - port
      BY <2>6, <2>8
    <3> QED
      BY <2>2, <2>7, <2>8, <3>1, <3>2
  <2>10. u = 0 <=> s = v
    BY <2>2, <2>7, <2>8, <2>9
  <2>11. U16(port + s) = 0 <=> s = U16(0 - port)
    BY <2>7, <2>8, <2>10
  <2> QED
    BY <2>1, <2>4, <2>11
<1> QED
  BY <1>1, <1>3, <1>4

(* ip4_local stores INADDR_LOOPBACK without htonl (addr.cc:55): on a       *)
(* little-endian machine the address is 1.0.0.127.                         *)
THEOREM LocalIsReversed ==
  ASSUME NEW n \in Int
  PROVE  ip4_local(n).ip = <<1, 0, 0, 127>>
<1>1. Bytes32(INADDR_LOOPBACK) = <<1, 0, 0, 127>>
  BY DEF Bytes32, INADDR_LOOPBACK
<1> QED
  BY <1>1 DEF ip4_local, SockAddr

-----------------------------------------------------------------------------
(* Starting a program (config.h, linux.cc, infallible_udp.cc).             *)

(* Loading fields that have their types leaves exactly one outcome: the    *)
(* file's values, and the defaults of the fields it does not name.         *)
LEMMA FieldsDetermined ==
  ASSUME NEW F, NEW default \in [F -> Values], NEW tbl, WellTyped(tbl)
  PROVE  LoadFields(tbl, default)
           = {[name \in F |-> IF name \in DOMAIN tbl THEN tbl[name] ELSE default[name]]}
<1> DEFINE c == [name \in F |-> IF name \in DOMAIN tbl THEN tbl[name] ELSE default[name]]
<1>1. \A name \in F : Loaded(tbl, name, default[name]) = {c[name]}
  BY DEF Loaded, WellTyped
<1>2. c \in [F -> Values]
  BY DEF WellTyped
<1>3. \A d \in [F -> Values] :
        (\A name \in F : d[name] \in Loaded(tbl, name, default[name])) => d = c
  BY <1>1
<1> HIDE DEF c
<1>4. DOMAIN default = F
  OBVIOUS
<1>5. LoadFields(tbl, default) = {c}
  BY <1>1, <1>2, <1>3, <1>4 DEF LoadFields
<1> QED
  BY <1>5 DEF c

(* A config that is printed and read again is the same, whatever the       *)
(* defaults of the program that reads it (config.h:18-62).                 *)
THEOREM SavedIsLoaded ==
  ASSUME NEW c \in Config, NEW default \in Config, c.server \notin Mistyped
  PROVE  Load(Save(c), default) = {c}
<1>1. /\ c.fields \in [Fields -> Values] /\ c.server \in [AddressFields -> Values]
      /\ default.fields \in [Fields -> Values] /\ default.server \in [AddressFields -> Values]
      /\ c = [fields |-> c.fields, server |-> c.server]
  BY DEF Config
<1>2. LoadFields(c.fields, default.fields) = {c.fields}
  <2>1. WellTyped(c.fields)
    BY <1>1 DEF WellTyped
  <2>2. LoadFields(c.fields, default.fields)
          = {[name \in Fields |-> IF name \in DOMAIN c.fields THEN c.fields[name]
                                  ELSE default.fields[name]]}
    BY <1>1, <2>1, FieldsDetermined
  <2> QED
    BY <1>1, <2>2
<1>3. LoadFields(c.server, default.server) = {c.server}
  <2>1. WellTyped(c.server)
    BY <1>1 DEF WellTyped
  <2>2. LoadFields(c.server, default.server)
          = {[name \in AddressFields |-> IF name \in DOMAIN c.server THEN c.server[name]
                                         ELSE default.server[name]]}
    BY <1>1, <2>1, FieldsDetermined
  <2> QED
    BY <1>1, <2>2
<1>4. \A d \in Config : d.fields = c.fields /\ d.server = c.server => d = c
  BY <1>1 DEF Config
<1>5. Save(c).fields = c.fields /\ Save(c).server = c.server
  BY DEF Save
<1> QED
  BY <1>2, <1>3, <1>4, <1>5 DEF Load

(* The affinity a program is given is the one it asks for only if it asks  *)
(* for none but the first eight CPUs (linux.cc:13); for none of these, it  *)
(* keeps the one it had.                                                   *)
THEOREM AffinityOfEight ==
  ASSUME NEW mask, NEW cpus, NEW before, mask \cap cpus # {}
  PROVE  /\ mask \cap cpus \subseteq 0 .. 7 =>
              AffinityAfter(mask, cpus, before) = mask \cap cpus
         /\ mask \cap cpus \cap 0 .. 7 = {} =>
              AffinityAfter(mask, cpus, before) = before
<1>1. CpuSet(mask) = mask \cap 0 .. 7
  BY DEF CpuSet, SizeofMask
<1> QED
  BY <1>1 DEF AffinityAfter

(* The loop that pads a payload ends if and only if there is something to  *)
(* append or nothing to reach, and then exceeds data_len by less than what *)
(* it appends (infallible_udp.cc:72-75).                                   *)
THEOREM PaddingEnds ==
  ASSUME NEW n \in Nat, NEW data_len \in Nat
  PROVE  /\ n > 0 /\ data_len > 0 =>
              LET rounds == (data_len - 1) \div n
              IN  /\ PaddedAfter(n, data_len, rounds)
                  /\ SizeAfter(n, rounds) < data_len + n
         /\ n = 0 /\ data_len > 0 => \A rounds \in Nat : ~PaddedAfter(n, data_len, rounds)
<1>1. ASSUME n > 0, data_len > 0
      PROVE  LET rounds == (data_len - 1) \div n
             IN  /\ PaddedAfter(n, data_len, rounds)
                 /\ SizeAfter(n, rounds) < data_len + n
  <2> DEFINE q == (data_len - 1) \div n
             r == (data_len - 1) % n
  <2>1. q \in Nat /\ r \in 0 .. n - 1 /\ q * n + r = data_len - 1
    BY <1>1, DivMod
  <2> HIDE DEF q, r
  <2>2. SizeAfter(n, q) = q * n + n
    BY <2>1 DEF SizeAfter
  <2>3. q * n \in Nat
    BY <2>1
  <2>4. SizeAfter(n, q) >= data_len /\ SizeAfter(n, q) < data_len + n
    BY <2>1, <2>2, <2>3
  <2>5. ASSUME NEW k \in 0 .. q - 1 PROVE SizeAfter(n, k) < data_len
    <3>1. PICK d \in Nat : q = k + 1 + d
      BY <2>1
    <3>2. q * n = n * (k + 1) + d * n /\ d * n >= 0
      BY <3>1
    <3>3. n * (k + 1) \in Nat /\ d * n \in Nat
      BY <3>1
    <3> QED
      BY <2>1, <2>3, <3>2, <3>3 DEF SizeAfter
  <2> QED
    BY <2>4, <2>5 DEF PaddedAfter, q
<1>2. ASSUME n = 0, data_len > 0, NEW rounds \in Nat PROVE ~PaddedAfter(n, data_len, rounds)
  <2>1. SizeAfter(n, rounds) = 0
    BY <1>2 DEF SizeAfter
  <2> QED
    BY <1>2, <2>1 DEF PaddedAfter
<1> QED
  BY <1>1, <1>2

(* What cli sends fits the server if data_to_send has less than 32 bytes;  *)
(* a longer one ends the server's process (cli.cc:56-59, srv2.cc:118).     *)
THEOREM CliPayloadFits ==
  ASSUME NEW n \in Nat
  PROVE  FitsServer(DoubledTen(n)) <=> n < 32
BY DEF FitsServer, DoubledTen

=============================================================================
