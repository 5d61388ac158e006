--------------------------------- MODULE DNS ---------------------------------
(***************************************************************************)
(* The synthetic name resolution of src/page/public/linux64/               *)
(* linux-analyzer.js and the address conversions on the way from           *)
(* getaddrinfo to sendto.  The browser has no DNS: DNS.lookup_name gives   *)
(* the id-th new hostname the made-up address                              *)
(* "172.29." + (id & 255) + "." + (id & 65280) and records it in           *)
(* address_map both ways; getaddrinfo packs that string into a sockaddr   *)
(* with inetPton4, and sendto turns the sockaddr back into a string with   *)
(* inetNtop4 and asks lookup_addr for the hostname, which SOCKFS connects  *)
(* a WebSocket to.                                                         *)
(*                                                                         *)
(* An address string is kept as its four decimal fields: lookup_name       *)
(* formats numbers and inetPton4 parses them back with Number, and two     *)
(* strings are the same key of address_map exactly when their fields are   *)
(* equal.  One hostname, Host, is followed; every other hostname the guest *)
(* resolves is Other, since only its address matters to Host's lookups.    *)
(***************************************************************************)
EXTENDS Integers, Bitwise

CONSTANTS
  Host,    \* the hostname whose datagrams are followed
  Other,   \* any other hostname the guest resolves once
  MaxId,   \* bound on DNS.address_map.id
  NoAddr   \* null: no address, no sockaddr, nothing sent yet

VARIABLES
  id,        \* DNS.address_map.id, the next id to hand out
  hostAddr,  \* DNS.address_map.addrs[Host]: its id, or NoAddr
  sockaddr,  \* the sin_addr of the addrinfo getaddrinfo gave for Host
  dest       \* the name (or address) the last sendto to it was sent to

vars == <<id, hostAddr, sockaddr, dest>>

\* lookup_name's fields for an id: id & 255 and id & 65280.
Addr(i) == <<172, 29, i % 256, (i % 65536) - (i % 256)>>

(***************************************************************************)
(* A 32-bit address is kept as its four bytes, low byte first, as HEAP32   *)
(* holds it in the sockaddr.                                               *)
(***************************************************************************)

\* inetPton4: b[0] | b[1] << 8 | b[2] << 16 | b[3] << 24, then >>> 0.  A
\* shift keeps the low 32 bits, so field k lands in bytes k .. 4 and the
\* bits past byte 4 are lost; each byte is the OR of what lands in it.
InetPton4(f) ==
  LET Part(k, j) == IF k <= j THEN (f[k] \div 2^(8 * (j - k))) % 256 ELSE 0
  IN [j \in 1 .. 4 |-> (Part(1, j) | Part(2, j)) | (Part(3, j) | Part(4, j))]

\* inetNtop4: (addr & 255) + "." + ((addr >> 8) & 255) + ...: the bytes.
InetNtop4(w) == [j \in 1 .. 4 |-> w[j]]

\* writeSockaddr for AF_INET: sin_addr is inetPton4 of the string.
WriteSockaddr(s) == InetPton4(s)

\* getaddrinfo's allocaddrinfo: the address back to a string, then the
\* sockaddr written from it.
AllocAddrinfo(w) == WriteSockaddr(InetNtop4(w))

\* DNS.lookup_addr: the hostname address_map.names holds for the string,
\* or null.  Host's address is its own; every other id below `id` was
\* handed to some other hostname.
LookupAddr(s) ==
  IF hostAddr /= NoAddr /\ s = Addr(hostAddr) THEN Host
  ELSE IF \E i \in 1 .. id - 1 : s = Addr(i) THEN Other
  ELSE NoAddr

\* getSocketAddress: readSockaddr's inetNtop4, then lookup_addr(addr) || addr.
SocketDest(a) ==
  LET s == InetNtop4(a) IN IF LookupAddr(s) /= NoAddr THEN LookupAddr(s) ELSE s

Init ==
  /\ id = 1
  /\ hostAddr = NoAddr
  /\ sockaddr = NoAddr
  /\ dest = NoAddr

\* _getaddrinfo of a hostname seen for the first time: it is not an IPv4
\* or IPv6 literal, lookup_name hands it the next id.
GetaddrinfoOther ==
  /\ id <= MaxId
  /\ id' = id + 1
  /\ UNCHANGED <<hostAddr, sockaddr, dest>>

\* _getaddrinfo(Host): lookup_name returns the recorded address or hands
\* out the next id; getaddrinfo takes inetPton4 of it and allocaddrinfo
\* writes the sockaddr.
GetaddrinfoHost ==
  LET new == hostAddr = NoAddr
      i == IF new THEN id ELSE hostAddr
      a == AllocAddrinfo(InetPton4(Addr(i)))
  IN /\ new => id <= MaxId
     /\ id' = IF new THEN id + 1 ELSE id
     /\ hostAddr' = i
     /\ sockaddr' = a
     /\ UNCHANGED dest

\* ___syscall_sendto with the addrinfo's sockaddr: getSocketAddress names
\* the destination sendmsg connects to.
SendtoHost ==
  /\ sockaddr /= NoAddr
  /\ dest' = SocketDest(sockaddr)
  /\ UNCHANGED <<id, hostAddr, sockaddr>>

Next == GetaddrinfoOther \/ GetaddrinfoHost \/ SendtoHost

Spec == Init /\ [][Next]_vars

TypeOK ==
  /\ id \in 1 .. MaxId + 1
  /\ hostAddr \in (1 .. MaxId) \cup {NoAddr}
  /\ sockaddr \in [1 .. 4 -> 0 .. 255] \cup {NoAddr}

\* A datagram sent to the address getaddrinfo gave for a hostname goes to
\* that hostname (spec.md: names "round-trip through the same address
\* space"): lookup_name's fields, inetPton4 and inetNtop4 must give
\* lookup_addr back the string lookup_name recorded.
DestIsResolvedHost == dest \in {NoAddr, Host}

====
