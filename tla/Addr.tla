-------------------------------- MODULE Addr ---------------------------------
(***************************************************************************)
(* The addresses of src/ring2/ring2/addr.cc and, for IPv6 only, of         *)
(* src/netring/netring/net.cc: what the programs bind, send to and print.  *)
(*                                                                         *)
(* A word of several bytes is kept as the bytes it has in memory, in their *)
(* order, because that order is what these functions are about.            *)
(***************************************************************************)
EXTENDS Integers, Sequences

Byte == 0 .. 255

Ports == 65536

Port == 0 .. Ports - 1

(* A port is a uint16_t: what is left of the int64_t the programs pass.    *)
U16(n) == n % Ports

(* The bytes of a word on a little-endian machine.                         *)
Bytes32(n) == <<n % 256, (n \div 256) % 256, (n \div 65536) % 256, n \div 16777216>>

(* htons puts the high byte first; ntohs reads it from there.              *)
htons(port)  == <<port \div 256, port % 256>>
ntohs(bytes) == 256 * bytes[1] + bytes[2]

INADDR_ANY      == 0
INADDR_LOOPBACK == 127 * 16777216 + 1

Zeros(n) == [i \in 1 .. n |-> 0]

in6addr_any      == Zeros(16)
in6addr_loopback == [i \in 1 .. 16 |-> IF i = 16 THEN 1 ELSE 0]

(* sizeof sockaddr_in and of sockaddr_in6.                                 *)
Sizeof == [AF_INET |-> 16, AF_INET6 |-> 28]

(* Memory that is cleared and then given a family, a port and an address.  *)
SockAddr(family, port, ip) ==
  [sa_family |-> family, port |-> htons(port), ip |-> ip, addrlen |-> Sizeof[family]]

from_in6_addr(in6, port) == SockAddr("AF_INET6", port, in6)

ip6_any(n)   == from_in6_addr(in6addr_any, U16(n))
ip6_local(n) == from_in6_addr(in6addr_loopback, U16(n))
ip4_any(n)   == SockAddr("AF_INET", U16(n), Bytes32(INADDR_ANY))
ip4_local(n) == SockAddr("AF_INET", U16(n), Bytes32(INADDR_LOOPBACK))

(* from_parts, given what inet_pton has made of the text: the bytes of an  *)
(* address, or none, and then from_parts throws.                           *)
NoAddr == [sa_family |-> "inet_pton"]

from_parts(pton, n, family) ==
  IF pton = <<>> THEN NoAddr
  ELSE SockAddr(IF family = "V4" THEN "AF_INET" ELSE "AF_INET6", U16(n), pton)

(* The text of an address: its bytes and its port.  A family that is none  *)
(* of the three panics.                                                    *)
to_string(addr) ==
  CASE addr.sa_family = "AF_UNSPEC" -> "(null)"
    [] addr.sa_family \in {"AF_INET", "AF_INET6"} ->
         [ip |-> addr.ip, port |-> ntohs(addr.port)]
    [] OTHER -> "unreachable"

(* Where fiber thr of src/src/infallible_udp.cc binds its socket.          *)
FiberAddr(port, thr) == ip4_any(port + thr)

=============================================================================
