-------------------------------- MODULE Nnet --------------------------------
(***************************************************************************)
(* libnnet (src/nnet/libnnet): one machine broadcasts an mDNS query, or    *)
(* some other frame is on the wire, and another machine receives it.  A    *)
(* 16-bit field holds what is in memory on the little-endian machine of    *)
(* the code; a 32-bit one is <<high half, low half>>.                      *)
(***************************************************************************)
EXTENDS Integers, SequencesExt

CONSTANTS Name,    \* names to query, sequences of ASCII codes
          Fqdn,    \* names machines have
          Ip,      \* the address of the sender
          Mac,     \* the hardware address of the receiver
          Foreign, \* frames that others send
          None

VARIABLES fqdn,  \* nnet_config_fqdn of the receiver
          ip,    \* nnet_config_ip_addr of the sender
          name,  \* what was queried, if the library sent the frame
          frame, \* the frame on the wire
          passed, \* what nnet_eth_rx does with it
          heard  \* what nnet_mdns_rx_eth_frame does: the query, or nothing

vars == <<fqdn, ip, name, frame, passed, heard>>

Dot == 46
TxSize == 512
IpType == 2048
ArpType == 2054
UDP == 17
MdnsMac == <<1, 0, 94, 0, 0, 251>>
BroadcastMac == [i \in 1..6 |-> 255]
MdnsIp == <<57344, 251>>
MdnsPort == 5353
UdpHeader == 42  \* bytes of a frame before the payload of UDP
MdnsHeader == 54 \* bytes before the name

\* How many values 16 bits have.
Word == 65536

nnet_swap16(x) == (x % 256) * 256 + ((x \div 256) % 256)
nnet_swap32(x) == <<nnet_swap16(x[2]), nnet_swap16(x[1])>>

\* nnet_htons and nnet_ntohs on a little-endian machine.
Net16(x) == nnet_swap16(x)

nnet_strlen(str, max_len) == IF Len(str) < max_len THEN Len(str) ELSE max_len

\* Stops at the end of the shorter string without telling which one ended.
nnet_streq(a, b) == \A i \in DOMAIN a \cap DOMAIN b : a[i] = b[i]

-----------------------------------------------------------------------------
(* The IP header and its checksum                                          *)

HeaderWords(f) ==
    <<(4 * 16 + 5) * 256, Net16(f.len), 0, Net16(f.flag_frag), 42 * 256 + f.proto,
      Net16(f.checksum),
      Net16(f.source_addr[2]), Net16(f.source_addr[1]),
      Net16(f.dest_addr[2]), Net16(f.dest_addr[1])>>

Total(words) == words[1] + words[2] + words[3] + words[4] + words[5]
                + words[6] + words[7] + words[8] + words[9] + words[10]

\* Mutant of nnet_ip_insert_checksum: the sum is cut before its carry is added.
insert_checksum_no_carry(f) ==
    [f EXCEPT !.checksum =
        Net16(Word - 1 - (Total(HeaderWords([f EXCEPT !.checksum = 0])) % Word))]

nnet_ip_insert_checksum(f) ==
    LET sum == Total(HeaderWords([f EXCEPT !.checksum = 0])) IN
    [f EXCEPT !.checksum = Net16(Word - 1 - ((sum + (sum \div Word)) % Word))]

nnet_udp_init_header(dest_mac, dest_ip, dest_port, payload_len) ==
    nnet_ip_insert_checksum(
        [dest_mac |-> dest_mac, ethertype |-> Net16(IpType),
         len |-> Net16(20 + 8 + payload_len), flag_frag |-> Net16(16384),
         proto |-> UDP, checksum |-> 0,
         source_addr |-> nnet_swap32(ip), dest_addr |-> nnet_swap32(dest_ip),
         dest_port |-> Net16(dest_port), udp_len |-> Net16(8 + payload_len),
         flags |-> 0, qdcount |-> 0, data |-> <<>>])

-----------------------------------------------------------------------------
(* Queries: a name travels as labels, each behind its length               *)

\* Mutant of Labels: the length of the last label is not written.
LabelsWithoutLast(str) ==
    LET from(i) == SelectInSubSeq(str \o <<Dot>>, i, Len(str) + 1, LAMBDA c : c = Dot) IN
    [i \in 1..Len(str) + 1 |->
        IF i = 1 \/ str[i - 1] = Dot
        THEN (IF from(i) = Len(str) + 1 THEN 0 ELSE (from(i) - i) % 256) ELSE str[i - 1]]

\* Each length goes where the dot before its label was; it has one byte.
Labels(str) ==
    LET ends(i) == SelectInSubSeq(str \o <<Dot>>, i, Len(str) + 1, LAMBDA c : c = Dot) IN
    [i \in 1..Len(str) + 1 |->
        IF i = 1 \/ str[i - 1] = Dot THEN (ends(i) - i) % 256 ELSE str[i - 1]]

nnet_mdns_send_query(query) ==
    LET name_len == nnet_strlen(query, TxSize - 40)
        header == nnet_udp_init_header(MdnsMac, MdnsIp, MdnsPort,
                      MdnsHeader - UdpHeader + name_len + 2 + 4) IN
    /\ fqdn # None /\ frame = None
    /\ name' = query
    /\ frame' = [header EXCEPT
                    !.qdcount = Net16(1),
                    !.data = Labels(SubSeq(query, 1, name_len)) \o <<0, 0, 1, 0, 1>>]
    /\ UNCHANGED <<fqdn, ip, passed, heard>>

SendForeign(f) ==
    /\ fqdn # None /\ frame = None
    /\ frame' = f
    /\ UNCHANGED <<fqdn, ip, name, passed, heard>>

\* The name from each place on: the labels up to the first that is empty, with
\* dots between them.  (A length that leads behind the data ends the name here:
\* what the code reads there is not modelled.)
NameFrom(data) ==
    LET text[at \in 1..Len(data)] ==
            LET after == at + 1 + data[at] IN
            IF data[at] = 0 \/ after > Len(data) THEN <<>>
            ELSE SubSeq(data, at + 1, at + data[at])
                 \o (IF data[after] = 0 THEN <<>> ELSE <<Dot>> \o text[after])
    IN  text
NameIn(data) == NameFrom(data)[1]

-----------------------------------------------------------------------------
(* Receiving                                                               *)

nnet_eth_mac_filter(f) == f.dest_mac \in {Mac, BroadcastMac, MdnsMac}

nnet_eth_rx ==
    /\ frame # None /\ passed = None
    /\ passed' = IF ~nnet_eth_mac_filter(frame) THEN "rejected"
                 ELSE IF Net16(frame.ethertype) = IpType THEN "ip"
                 ELSE IF Net16(frame.ethertype) = ArpType THEN "arp" ELSE "ignored"
    /\ UNCHANGED <<fqdn, ip, name, frame, heard>>

Dropped == [how |-> "dropped"]

nnet_mdns_rx_query(f) ==
    IF f.qdcount = 0 THEN Dropped
    ELSE [how |-> "query", name |-> NameIn(f.data), answered |-> nnet_streq(NameIn(f.data), fqdn)]

\* It is called with the frame itself, not by nnet_eth_rx.
nnet_mdns_rx_eth_frame ==
    /\ frame # None /\ heard = None
    /\ heard' =
        IF \/ frame.ethertype # Net16(IpType) \/ frame.proto # UDP
           \/ frame.dest_addr # nnet_swap32(MdnsIp) \/ frame.dest_port # Net16(MdnsPort)
           \/ frame.flags # 0
        THEN Dropped ELSE nnet_mdns_rx_query(frame)
    /\ UNCHANGED <<fqdn, ip, name, frame, passed>>

Init ==
    /\ fqdn = None /\ ip = None
    /\ name = None /\ frame = None /\ passed = None /\ heard = None

\* Both machines set their nnet_config variables before anything else.
Configure ==
    /\ fqdn = None
    /\ fqdn' \in Fqdn /\ ip' \in Ip
    /\ UNCHANGED <<name, frame, passed, heard>>

Next ==
    \/ Configure
    \/ \E query \in Name : nnet_mdns_send_query(query)
    \/ \E f \in Foreign : SendForeign(f)
    \/ nnet_eth_rx \/ nnet_mdns_rx_eth_frame

Spec == Init /\ [][Next]_vars

\* What a theorem takes for granted: strings are C strings, an address has 32
\* bits, and None is no value of a variable.
Frame ==
    [dest_mac : [1..6 -> 0..255], ethertype : 0..Word - 1, len : 0..Word - 1,
     flag_frag : 0..Word - 1, proto : 0..255, checksum : 0..Word - 1,
     source_addr : [1..2 -> 0..Word - 1], dest_addr : [1..2 -> 0..Word - 1],
     dest_port : 0..Word - 1, udp_len : 0..Word - 1, flags : 0..Word - 1,
     qdcount : 0..Word - 1, data : Seq(0..255)]
FieldsFit ==
    /\ Name \subseteq Seq(1..255) /\ Fqdn \subseteq Seq(1..255) /\ Ip \subseteq [1..2 -> 0..Word - 1]
    /\ None \notin Fqdn /\ None \notin Frame

-----------------------------------------------------------------------------
(* Properties                                                              *)

\* The sum a receiver makes of the header, with every carry added back.
Folded(sum) ==
    LET once == (sum % Word) + (sum \div Word) IN (once % Word) + (once \div Word)

\* A header the library sends passes the receiver's check of the checksum,
\* unless adding the carry once makes a carry again: only then is it wrong.
ChecksumFailsOnSecondCarryOnly ==
    name # None =>
        LET sum == Total(HeaderWords([frame EXCEPT !.checksum = 0])) IN
        (Folded(Total(HeaderWords(frame))) = Word - 1)
            <=> (sum % Word) + (sum \div Word) < Word

HasEmptyLabel(str) ==
    \E i \in 1..Len(str) + 1 : /\ i = 1 \/ str[i - 1] = Dot
                               /\ i = Len(str) + 1 \/ str[i] = Dot

\* Whether the length of each label fits into a byte.
LabelsFit(str) ==
    \A i \in 1..Len(str) - 255 : \E j \in i..i + 255 : str[j] = Dot

\* A query of the library gets through the receiver's filter and to the code
\* that answers, its lengths are those of its data, the sender's buffer holds it up
\* to 452 characters of a name, although 472 are taken, and no further, a name whose labels are not
\* empty and have at most 255 characters comes out as it went in, and a machine
\* answers to its own name: also to every name that begins with its own or that
\* its own begins with.
QueryIsUnderstood ==
    name # None =>
        /\ Net16(frame.udp_len) = 8 + MdnsHeader - UdpHeader + Len(frame.data)
        /\ Len(name) <= TxSize - MdnsHeader - 6 <=> MdnsHeader + Len(frame.data) <= TxSize
        /\ passed # None => passed = "ip"
        /\ heard # None =>
            /\ heard # Dropped
            /\ (~HasEmptyLabel(name) /\ LabelsFit(name) /\ Len(name) <= TxSize - 40) =>
                  heard.name = name
            /\ heard.answered <=> IsPrefix(heard.name, fqdn) \/ IsPrefix(fqdn, heard.name)
=============================================================================
