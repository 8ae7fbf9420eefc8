---------------------------- MODULE HostAddress ----------------------------
(***************************************************************************)
(* Which address of its machine a node gives to others, and to which one   *)
(* it broadcasts: the C++ node (src/cpp/netUtils.cc), the C node           *)
(* (src/c/src/dzmq/impl/ip.c) and the Python node (src/python/disc_zmq.py) *)
(* started on one machine.  An IPv4 address is the sequence of its bytes.  *)
(***************************************************************************)
EXTENDS Integers, FiniteSets, SequencesExt

CONSTANTS Interfaces, \* what getifaddrs may list: sequences of addresses,
                      \* IPv6 for an IPv6 one, NoAddress for none
          IPv6, NoAddress,
          Names,      \* what name.local may resolve to, Unset for an error
          Environment, \* DZMQ_IP: an address, Empty or Unset
          BcastHosts,  \* DZMQ_BCAST_HOST: the same
          BcastPorts,  \* DZMQ_BCAST_PORT: a number, Unset, or Empty for no number
          Empty, Unset

VARIABLES ifaddrs, resolved, dzmq_ip, bcast_host, bcast_port, \* the machine
          chosen \* chosen[kind]: [address, broadcast, port], an error, or Unset

machine == <<ifaddrs, resolved, dzmq_ip, bcast_host, bcast_port>>
vars == <<machine, chosen>>

DZMQ_DISC_PORT == 11312
Choice(address, broadcast, port) ==
    [address |-> address, broadcast |-> broadcast, port |-> port]

Loopback == <<127, 0, 0, 1>>
IsIPv4(address) == address \notin {IPv6, NoAddress}

\* Mutant of isPrivateIP: 10.x.x.x is public.
isPrivateWithout10(ip) == SubSeq(ip, 1, 2) \in {<<192, 168>>, <<169, 254>>}

isPrivateIP(ip) == ip[1] = 10 \/ SubSeq(ip, 1, 2) \in {<<192, 168>>, <<169, 254>>}

\* One interface of the search: IPv6 addresses are skipped with the loopback.
Prefer(preferred_ip, ip) ==
    CASE ~IsIPv4(ip) \/ ip = Loopback -> preferred_ip
      [] IsIPv4(ip) /\ ip # Loopback /\ preferred_ip = Empty -> ip
      [] IsIPv4(ip) /\ ip # Loopback /\ preferred_ip # Empty ->
            IF ~isPrivateIP(ip) /\ isPrivateIP(preferred_ip) THEN ip ELSE preferred_ip

\* The preferred address after the first n interfaces.
Preferred[n \in 0..Len(ifaddrs)] ==
    IF n = 0 THEN Empty ELSE Prefer(Preferred[n - 1], ifaddrs[n])

InterfaceSearch ==
    LET preferred_ip == Preferred[Len(ifaddrs)] IN
    IF preferred_ip = Empty THEN Loopback ELSE preferred_ip

\* The environment, then the machine's own name, then the interfaces.
DetermineHost ==
    LET address ==
            CASE dzmq_ip \notin {Unset, Empty} -> dzmq_ip
              [] dzmq_ip \in {Unset, Empty} /\ resolved # Unset -> resolved
              [] OTHER -> InterfaceSearch
    IN  Choice(address, <<255, 255, 255, 255>>, DZMQ_DISC_PORT)

dzmq_broadcast_ip_from_address_ip(ip) == Append(Front(ip), 255)

\* strncmp with "127.0.0.1" as far as it goes: 127.0.0.17 is such an address.
BeginsAsLoopback(ip) ==
    SubSeq(ip, 1, 3) = <<127, 0, 0>> /\ (ip[4] = 1 \/ ip[4] \in 10..19 \/ ip[4] \in 100..199)

\* Mutant of Acceptable: any IPv4 address will do.
AcceptableAnyway(address) == IsIPv4(address)
Acceptable(address) == IsIPv4(address) /\ ~BeginsAsLoopback(address)

\* The first acceptable address; an interface without an address before it is
\* a null pointer that gets dereferenced.
dzmq_get_address_ipv4 ==
    LET at == SelectInSeq(ifaddrs, LAMBDA a : a = NoAddress \/ Acceptable(a)) IN
    CASE at = 0 -> "error"
      [] at # 0 /\ ifaddrs[at] = NoAddress -> "crash"
      [] OTHER -> Choice(ifaddrs[at], dzmq_broadcast_ip_from_address_ip(ifaddrs[at]),
                         DZMQ_DISC_PORT)

\* By their places in the list of interfaces.
get_local_addresses == {i \in DOMAIN ifaddrs : IsIPv4(ifaddrs[i])}

\* The environment, which an empty host leaves to the system, or the last byte of
\* the address replaced.
PythonHost(ip) ==
    IF bcast_host = Unset THEN Append(Front(ip), 255)
    ELSE IF bcast_host = Empty THEN <<0, 0, 0, 0>> ELSE bcast_host

PythonPort == IF bcast_port = Unset THEN DZMQ_DISC_PORT ELSE bcast_port

\* The environment, even if it is empty, or the first address that does not
\* begin with 127, or the first.
PythonAddress ==
    LET addrs == get_local_addresses
        non_local_addrs == {i \in addrs : ifaddrs[i][1] # 127}
        result(ip) == Choice(ip, PythonHost(ip), PythonPort) IN
    CASE dzmq_ip = Empty \/ bcast_port = Empty -> "error"  \* no number, or nothing to bind
      [] bcast_port # Empty /\ dzmq_ip \notin {Empty, Unset} -> result(dzmq_ip)
      [] bcast_port # Empty /\ dzmq_ip = Unset /\ addrs = {} -> "error"
      [] bcast_port # Empty /\ dzmq_ip = Unset /\ addrs # {} /\ non_local_addrs = {} ->
            result(ifaddrs[Min(addrs)])
      [] OTHER -> result(ifaddrs[Min(non_local_addrs)])

-----------------------------------------------------------------------------
Init ==
    /\ ifaddrs = Unset /\ resolved = Unset /\ dzmq_ip = Unset
    /\ bcast_host = Unset /\ bcast_port = Unset
    /\ chosen = [kind \in {"cpp", "c", "python"} |-> Unset]

\* The machine the nodes start on.
Machine ==
    /\ ifaddrs = Unset
    /\ ifaddrs' \in Interfaces /\ resolved' \in Names /\ dzmq_ip' \in Environment
    /\ bcast_host' \in BcastHosts /\ bcast_port' \in BcastPorts
    /\ UNCHANGED chosen

\* A node starts on it.
Chose(kind, result) ==
    /\ ifaddrs # Unset /\ chosen[kind] = Unset
    /\ chosen' = [chosen EXCEPT ![kind] = result]
    /\ UNCHANGED machine

Next ==
    \/ Machine
    \/ Chose("cpp", DetermineHost)
    \/ Chose("c", dzmq_get_address_ipv4)
    \/ Chose("python", PythonAddress)

Spec == Init /\ [][Next]_vars

\* What a theorem takes for granted: an address of four bytes is told from
\* what is none, and there is a machine.
IPv4 == [1..4 -> 0..255]
HostsAreIPv4 ==
    /\ \A list \in Interfaces : list \in Seq(IPv4 \cup {IPv6, NoAddress}) /\ list # Unset
    /\ {IPv6, NoAddress, Empty} \cap IPv4 = {} /\ Empty \notin {IPv6, NoAddress, Unset}
    /\ BcastHosts \subseteq IPv4 \cup {Empty, Unset}

-----------------------------------------------------------------------------
(* Properties                                                              *)

Outside == {a \in ToSet(ifaddrs) : IsIPv4(a) /\ a # Loopback}
Public  == {a \in Outside : a[1] # 10 /\ SubSeq(a, 1, 2) \notin {<<192, 168>>, <<169, 254>>}}

\* Left to the interfaces, the C++ node takes a public address if there is one,
\* in whatever order they are listed, and the loopback only if there is no
\* other; what the user or the name service says goes before them.
BestAddressIsChosen ==
    chosen["cpp"] # Unset =>
        LET address == chosen["cpp"].address IN
        IF dzmq_ip \notin {Unset, Empty} THEN address = dzmq_ip
        ELSE IF resolved # Unset THEN address = resolved
        ELSE /\ Public # {} => address \in Public
             /\ Public = {} /\ Outside # {} => address \in Outside
             /\ Outside = {} => address = Loopback

\* A C and a Python node give others the same address of a machine with a network,
\* unless DZMQ_IP is set, which the C node ignores, a second loopback address is
\* listed before, or an interface has no address.  They also broadcast to the same
\* network and port then, unless DZMQ_BCAST_HOST or DZMQ_BCAST_PORT, which the C
\* node ignores as well, says otherwise.
CAndPythonShareANetwork ==
    /\ \A kind \in {"c", "python"} : chosen[kind] # Unset
    /\ dzmq_ip = Unset /\ bcast_port # Empty /\ NoAddress \notin ToSet(ifaddrs)
    /\ \E a \in Outside : a[1] # 127
    /\ \A a \in Outside : a[1] = 127 => BeginsAsLoopback(a)
    => /\ chosen["c"].address = chosen["python"].address
       /\ chosen["c"] = chosen["python"] <=>
              /\ bcast_host \in {Unset, chosen["c"].broadcast}
              /\ bcast_port \in {Unset, chosen["c"].port}
=============================================================================
