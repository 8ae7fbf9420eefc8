------------------------------- MODULE MCData -------------------------------
(***************************************************************************)
(* The parts of the programs that work on data of one process, for TLC:    *)
(* one of them is picked at first, and only that one takes steps.          *)
(***************************************************************************)
EXTENDS TopicsInfoApi, CLists, WireParts, NetworkParts

CONSTANTS t1, t2, a1, a2

VARIABLE part

MCRequest == 1..MaxReq

codecs_vars == <<msg, wire, read>>
nnet_vars   == <<fqdn, ip, query, frame, passed, heard>>
zmsg_vars   == <<m_part_data, frames, sent, received>>
host_vars   == <<ifaddrs, resolved, dzmq_ip, bcast_host, bcast_port, chosen>>
all_vars == <<part, vars, list_vars, codecs_vars, nnet_vars, zmsg_vars, host_vars>>

-----------------------------------------------------------------------------
(* Values                                                                  *)

Letters(num) == [i \in 1..num |-> 97 + (i % 26)]
HasNull == <<97, 0, 98>>

\* Topics at the limits: one and two bytes of length, lengths whose low byte is
\* zero or more than a C node has room for, and those its datagrams have room for.
MCMessage ==
    {[from |-> from, type |-> type, topic |-> topic, address |-> address] :
        from \in {"cpp", "c", "python"}, type \in {1, 2},
        topic \in {Letters(1), Letters(2), Letters(192)},
        address \in {Letters(13), Letters(20), Letters(255), Letters(256), Letters(267)}}
    \cup
    {[from |-> "c", type |-> type, topic |-> Letters(193), address |-> Letters(267)] :
        type \in {1, 2}}
    \cup
    {[from |-> "cpp", type |-> type, topic |-> topic, address |-> Letters(20)] :
        type \in {1, 2},
        topic \in {HasNull} \cup {Letters(n) : n \in {200, 255, 256, 300, 512}}}
MCLeftover == {<<>>, Letters(3)}

Ascii(digits) == [i \in DOMAIN digits |-> 48 + digits[i]]
Uuid(c, d) == <<64>> \o [i \in 1..32 |-> IF i % 2 = 0 THEN c ELSE d]
MCPart ==
    {<<>>, <<64>>, Letters(17), <<64>> \o Letters(16), Letters(33), Uuid(65, 49), Uuid(102, 48),
     Uuid(48, 55), Uuid(122, 57)}

Machine == Letters(3) \o <<46>> \o Letters(2)
MCName == {Machine, Letters(3), Letters(4), Letters(3) \o <<46>>, <<46>> \o Letters(2),
           Letters(2) \o <<46, 46>> \o Letters(1), Machine \o <<46>> \o Letters(2),
           Letters(200), Letters(256), Letters(255) \o <<46>> \o Letters(197), <<>>}

GoodFrame ==
    [dest_mac |-> <<1, 0, 94, 0, 0, 251>>, ethertype |-> 8, len |-> 0, flag_frag |-> 0,
     proto |-> 17, checksum |-> 0, source_addr |-> <<0, 0>>, dest_addr |-> <<64256, 224>>,
     dest_port |-> 59668, udp_len |-> 0, flags |-> 0, qdcount |-> 256,
     data |-> <<3>> \o Letters(3) \o <<0, 0, 1, 0, 1>>]
MCForeign ==
    {GoodFrame,
     [GoodFrame EXCEPT !.dest_mac = [i \in 1..6 |-> 255], !.ethertype = 1544],
     [GoodFrame EXCEPT !.dest_mac = [i \in 1..6 |-> 9]],
     [GoodFrame EXCEPT !.dest_mac = [i \in 1..6 |-> 7], !.dest_port = 256],
     [GoodFrame EXCEPT !.ethertype = 1],
     [GoodFrame EXCEPT !.flags = 1],
     [GoodFrame EXCEPT !.qdcount = 0]}

\* The second makes the sum of the header carry twice.
MCIp == {<<2570, 258>>, <<65535, 65535>>} \cup {<<2570, x>> : x \in {0, 255, 30000, 45000, 65535}}

Address1 == {<<127, 0, 0, 1>>, <<127, 0, 1, 1>>, <<127, 0, 0, 17>>, <<10, 0, 0, 5>>,
             <<192, 168, 1, 2>>, <<8, 8, 4, 4>>, IPv6, NoAddress}
MCInterfaces == UNION {[1..n -> Address1] : n \in 0..3}
MCHostNames == {Unset, <<127, 0, 1, 1>>}
MCEnvironment == {Unset, Empty, <<172, 16, 0, 1>>}
MCBcastHosts == {Unset, Empty, <<10, 0, 0, 255>>}
MCBcastPorts == {Unset, Empty, 11313}
MCFqdn == {Machine, Letters(3)}
MCMac == [i \in 1..6 |-> 7]

-----------------------------------------------------------------------------
DataInit ==
    /\ part = None
    /\ Init /\ ListInit /\ Codec!Init /\ Net!Init /\ Msg!Init /\ Host!Init

Only(this) == part \in {None, this} /\ part' = this

DataNext ==
    \/ /\ Only("table") /\ Next
       /\ UNCHANGED <<list_vars, codecs_vars, nnet_vars, zmsg_vars, host_vars>>
    \/ /\ Only("lists") /\ ListNext
       /\ UNCHANGED <<vars, codecs_vars, nnet_vars, zmsg_vars, host_vars>>
    \/ /\ Only("codecs") /\ Codec!Next
       /\ UNCHANGED <<vars, list_vars, nnet_vars, zmsg_vars, host_vars>>
    \/ /\ Only("nnet") /\ Net!Next
       /\ UNCHANGED <<vars, list_vars, codecs_vars, zmsg_vars, host_vars>>
    \/ /\ Only("zmsg") /\ Msg!Next
       /\ UNCHANGED <<vars, list_vars, codecs_vars, nnet_vars, host_vars>>
    \/ /\ Only("host") /\ Host!Next
       /\ UNCHANGED <<vars, list_vars, codecs_vars, nnet_vars, zmsg_vars>>

DataSpec == DataInit /\ [][DataNext]_all_vars
=============================================================================
