------------------------------- MODULE EndPoint -------------------------------
(***************************************************************************)
(* Addresses: EndPoint (src/EndPoint.cc), the conversions of               *)
(* src/SocketsUtil.cc and include/ByteOrder.h, on a little-endian machine. *)
(*                                                                         *)
(* An EndPoint is a union of sockaddr_in and sockaddr_in6: the family and  *)
(* the port (in network order) lie at the same place in both, sin_addr     *)
(* where sin6_flowinfo is, and sin6_addr behind it.                        *)
(***************************************************************************)
EXTENDS Integers

CONSTANTS Ips,          \* addresses, as text; the same set for both families
          Malformed     \* texts that are no address

AnyIp == "any"          \* 0.0.0.0 and ::, all zeros
Loopback == "loopback"
AF_INET == 2
AF_INET6 == 10

ASSUME EndPointAssumption == {AnyIp, Loopback} \subseteq Ips /\ Ips \cap Malformed = {}

\* ByteOrder.h: host_to_net16 and net_to_host16 both are byte_swap.
byte_swap(x) == (x % 256) * 256 + x \div 256
host_to_net16(x) == byte_swap(x)
net_to_host16(x) == byte_swap(x)

\* memset to 0 of the whole, then the fields of one of the two structures.
Cleared == [family |-> 0, port |-> 0, word |-> AnyIp, addr6 |-> AnyIp]

\* from_ip_port.  inet_pton gives 0 and leaves the address alone for a text that is none:
\* CHECK(ret >= 0) lets that pass.
ParsedIp(ip) == IF ip \in Malformed THEN AnyIp ELSE ip

from_ip_port(ip, port, ipv6) ==
    IF ipv6 THEN [Cleared EXCEPT !.family = AF_INET6, !.port = host_to_net16(port),
                                 !.addr6 = ParsedIp(ip)]
    ELSE [Cleared EXCEPT !.family = AF_INET, !.port = host_to_net16(port), !.word = ParsedIp(ip)]

\* The two constructors.
FromText(ip, port, ipv6) == from_ip_port(ip, port, ipv6)
FromPort(port, loopback_only, ipv6) ==
    from_ip_port(IF loopback_only THEN Loopback ELSE AnyIp, port, ipv6)

\* EndPoint::to_port reads the port of addr_, whatever the family is.
to_port(e) == net_to_host16(e.port)
to_ip(e) == IF e.family = AF_INET THEN e.word ELSE e.addr6
to_ip_port(e) == <<to_ip(e), net_to_host16(e.port)>>

\* EndPoint::resolve: the first address getaddrinfo gives is copied, in the length of its
\* family, over what dst holds; without an answer dst is left as it is.
resolve(answers, dst) ==
    IF answers = <<>> THEN dst
    ELSE LET a == answers[1]
         IN IF a.family = AF_INET6 THEN a ELSE [a EXCEPT !.addr6 = dst.addr6]

\* is_self_connect: the two ends of a connection are one.
is_self_connect(local, peer) ==
    /\ local.port = peer.port
    /\ IF local.family = AF_INET THEN local.word = peer.word ELSE local.addr6 = peer.addr6
===============================================================================
