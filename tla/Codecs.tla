------------------------------- MODULE Codecs -------------------------------
(***************************************************************************)
(* Discovery datagrams on the wire, byte for byte.  Three programs write   *)
(* and read them: the C++ node (src/cpp/packet.cc), the C node             *)
(* (src/c/src/dzmq/impl/header.c and adv_msg.c) and the Python node        *)
(* (src/python/disc_zmq.py).  One of them broadcasts a message and a node  *)
(* of each kind reads it.                                                  *)
(***************************************************************************)
EXTENDS Integers, SequencesExt

CONSTANTS Message,  \* records of from, type, topic and address, see below
          Leftover, \* what memory may show behind a topic, up to a null byte
          Pending   \* no message yet; a node that has not read the datagram

VARIABLES msg,  \* what was sent; msg.from is "cpp", "c" or "python"
          wire, \* the datagram
          read  \* read[reader]: what the reader made of it

vars == <<msg, wire, read>>

Readers == {"cpp", "c", "python"}
ADV == 1
SUB == 2
Guid == [i \in 1..16 |-> 100 + i]

\* A 16-bit integer is sent with its low byte first, and read so.
Low(value) == value % 256
TwoBytes(value) == <<Low(value), (value \div 256) % 256>>
ValueAt(data, at) == data[at + 1] + 256 * data[at + 2]
Slice(data, at, len) == SubSeq(data, at + 1, at + len)
HasBytes(data, at, len) == at + len <= Len(data)

\* What a char pointer shows of bytes: those before the first null byte.
CString(data) == SubSeq(data, 1, SelectInSeq(data \o <<0>>, LAMBDA b : b = 0) - 1)

Understood(guid, topic, type, address) ==
    [guid |-> guid, topic |-> topic, type |-> type, address |-> address]
Failed(how) == [failure |-> how]
Failure(result) == "failure" \in DOMAIN result

MaxDatagram == 65507  \* a longer one is not sent at all
UDP_MAX_SIZE == 512   \* C and Python nodes take no more of one
Received(data) == SubSeq(data, 1, Min({UDP_MAX_SIZE, Len(data)}))

-----------------------------------------------------------------------------
(* The C++ node: two bytes of topic length, two of flags.                  *)

\* Mutant of CppHeader: the length goes out in one byte, as README.md says.
CppHeaderShort(m) ==
    TwoBytes(1) \o Guid \o <<Low(Len(m.topic))>> \o m.topic \o <<m.type>> \o TwoBytes(0)

CppHeader(m) ==
    TwoBytes(1) \o Guid \o TwoBytes(Len(m.topic))
    \o SubSeq(m.topic, 1, Len(m.topic) % (256 * 256)) \o <<m.type>> \o TwoBytes(0)

CppPack(m) ==
    CppHeader(m) \o
    (IF m.type = ADV THEN TwoBytes(Len(m.address)) \o m.address ELSE <<>>)

\* The length in the datagram says where type and flags are, but the length of
\* the topic as read, which a null byte shortens, says where the body is.
\* Nothing compares them with the size of the datagram: what lies behind it
\* in the buffer is read as well.
CppUnpack(data) ==
    LET topicLength == ValueAt(data, 18)
        topic  == CString(Slice(data, 20, topicLength))
        type   == data[20 + topicLength + 1]
        body   == 20 + Len(topic) + 3
        addressLength == ValueAt(data, body) IN
    IF ~HasBytes(data, 0, 20) \/ ~HasBytes(data, 20, topicLength + 3) THEN Failed("past_end")
    ELSE IF type # ADV THEN Understood(Slice(data, 2, 16), topic, type, <<>>)
    ELSE IF ~HasBytes(data, body, 2) \/ ~HasBytes(data, body + 2, addressLength)
    THEN Failed("past_end")
    ELSE Understood(Slice(data, 2, 16), topic, type,
                  CString(Slice(data, body + 2, addressLength)))

-----------------------------------------------------------------------------
(* The C node: one byte of topic length, 16 of flags.                      *)

DZMQ_MAX_TOPIC_LENGTH == 193 + 1
DZMQ_MAX_ADDR_LENGTH == 267 + 1

serialize_msg_header(m) ==
    TwoBytes(1) \o Guid \o <<Low(Len(m.topic))>>
    \o SubSeq(m.topic, 1, Low(Len(m.topic))) \o <<m.type>> \o [i \in 1..16 |-> 0]

\* Mutant of serialize_adv_msg: one byte of address length.
serialize_adv_msg_short(m) ==
    serialize_msg_header(m) \o
    (IF m.type = ADV THEN <<Low(Len(m.address))>> \o m.address ELSE <<>>)

serialize_adv_msg(m) ==
    serialize_msg_header(m) \o
    (IF m.type = ADV THEN TwoBytes(Len(m.address)) \o m.address ELSE <<>>)

\* The assertions of the code together.  The topic is copied into a buffer on the
\* stack without a null byte behind it: those who read it as a string go on with
\* the rest of what is there, or with type and flags where it fills the buffer.
deserialize_msg_header(data, rest) ==
    LET topic_len == data[19]
        size == 36 + topic_len
        behind == IF topic_len < DZMQ_MAX_TOPIC_LENGTH THEN rest
                  ELSE Slice(data, 19 + topic_len, 17) \o rest IN
    IF ~HasBytes(data, 0, 20) \/ ~HasBytes(data, 0, size) THEN Failed("abort")
    ELSE [guid |-> Slice(data, 2, 16),
          topic |-> CString(Slice(data, 19, Min({topic_len, DZMQ_MAX_TOPIC_LENGTH})) \o behind),
          type |-> data[20 + topic_len],
          size |-> size]

\* A body, which must not be empty, and its address, which gets a null byte.
deserialize_adv_msg(data, at) ==
    LET addr_len == ValueAt(data, at) IN
    IF ~HasBytes(data, at, 3) \/ ~HasBytes(data, at + 2, addr_len) THEN Failed("abort")
    ELSE [addr |-> CString(Slice(data, at + 2, addr_len))]

deserialize(data, rest) ==
    LET header == deserialize_msg_header(data, rest)
        adv_msg == deserialize_adv_msg(data, header.size) IN
    IF Failure(header) THEN header
    ELSE IF header.type # ADV
    THEN Understood(header.guid, header.topic, header.type, <<>>)
    ELSE IF Failure(adv_msg) THEN adv_msg
    ELSE Understood(header.guid, header.topic, header.type, adv_msg.addr)

\* A length in the datagram that is more than the buffer for the topic, or for
\* the address with its null byte, holds.
Overruns(data) ==
    LET topic_len == data[19]
        body == 36 + topic_len IN
    /\ HasBytes(data, 0, 20) /\ HasBytes(data, 0, 20 + topic_len)
    /\ \/ topic_len > DZMQ_MAX_TOPIC_LENGTH
       \/ /\ HasBytes(data, body, 3) /\ data[20 + topic_len] = ADV
          /\ HasBytes(data, body + 2, ValueAt(data, body))
          /\ ValueAt(data, body) >= DZMQ_MAX_ADDR_LENGTH

\* What a C node may make of a datagram: writing past a buffer may end the
\* process or not.
handle_bcast_msg(data) ==
    {deserialize(data, rest) : rest \in Leftover}
    \cup (IF Overruns(data) THEN {Failed("overrun")} ELSE {})

-----------------------------------------------------------------------------
(* The Python node: as the C node, but the GUID is an integer there, whose *)
(* low byte goes first.                                                    *)

PyPack(m) ==
    TwoBytes(1) \o Reverse(Guid) \o <<Low(Len(m.topic))>> \o m.topic \o <<m.type>>
    \o [i \in 1..16 |-> 0]
    \o (IF m.type = ADV THEN TwoBytes(Len(m.address)) \o m.address ELSE <<>>)

\* unpack_from raises an exception past the end, a slice is only cut short.
PyUnpack(data) ==
    LET topiclength == data[19]
        topic == SubSeq(data, 20, Min({19 + topiclength, Len(data)}))
        op    == data[20 + topiclength]
        body  == 36 + topiclength
        addresslength == ValueAt(data, body) IN
    IF ~HasBytes(data, 0, 19) \/ ~HasBytes(data, 0, body) THEN Failed("raise")
    ELSE IF op # ADV THEN Understood(Reverse(Slice(data, 2, 16)), topic, op, <<>>)
    ELSE IF ~HasBytes(data, body, 2) THEN Failed("raise")
    ELSE Understood(Reverse(Slice(data, 2, 16)), topic, op,
                  SubSeq(data, body + 3, Min({body + 2 + addresslength, Len(data)})))

-----------------------------------------------------------------------------
Written(m) ==
    IF m.from = "cpp" THEN CppPack(m)
    ELSE IF m.from = "c" THEN serialize_adv_msg(m) ELSE PyPack(m)

Readings(reader, data) ==
    IF reader = "cpp" THEN {CppUnpack(data)}
    ELSE IF reader = "c" THEN handle_bcast_msg(Received(data)) ELSE {PyUnpack(Received(data))}

Init ==
    /\ msg = Pending /\ wire = <<>>
    /\ read = [reader \in Readers |-> Pending]

Send(m) ==
    /\ msg = Pending
    /\ Len(Written(m)) <= MaxDatagram
    /\ msg' = m /\ wire' = Written(m)
    /\ UNCHANGED read

Read(reader) ==
    /\ wire # <<>> /\ read[reader] = Pending
    /\ \E result \in Readings(reader, wire) : read' = [read EXCEPT ![reader] = result]
    /\ UNCHANGED <<msg, wire>>

Next == (\E m \in Message : Send(m)) \/ (\E reader \in Readers : Read(reader))

Spec == Init /\ [][Next]_vars

-----------------------------------------------------------------------------
\* The messages the theorems are about: topics whose lengths can be written,
\* those of C and Python nodes as long as their buffer and their check let them be
\* and without the bytes 0 and 1, and addresses no longer than DZMQ_MAX_ADDR_LENGTH
\* and ADDRESS_MAXLENGTH let them be.
MessagesFit ==
    /\ Pending \notin Message
    /\ Leftover # {} /\ Leftover \subseteq Seq(1..255)
    /\ Message \subseteq [from : Readers, type : {ADV, SUB},
                         topic : Seq(0..255), address : Seq(1..255)]
    /\ \A m \in Message :
        /\ m.topic # <<>> /\ m.address # <<>> /\ Len(m.address) <= 267
        /\ IF m.from = "cpp" THEN Len(m.topic) < 256 * 256
           ELSE /\ m.topic \in Seq(2..255)
                /\ Len(m.topic) <= IF m.from = "c" THEN 193 ELSE 192

-----------------------------------------------------------------------------
(* Properties                                                              *)

Dialect(kind) == IF kind = "cpp" THEN "cpp" ELSE "readme"
Rests(reader) == IF reader = "c" THEN Leftover ELSE {<<>>}
Meant(rest) == [topic |-> msg.topic \o rest, type |-> msg.type,
                address |-> IF msg.type = ADV THEN msg.address ELSE <<>>]
Taken(result) == [topic |-> result.topic, type |-> result.type, address |-> result.address]
Done(reader) == read[reader] # Pending

\* Every reader of the writer's dialect gets the type and the address that were
\* sent, however long they are, and the topic, to which a C node adds what its
\* stack shows behind it; C and Python nodes read each other, but not each other's
\* GUID, which comes out byte-reversed.  A null byte in a topic, which std::string
\* allows, spoils the topic, and the address as well, unless a topic longer than it
\* has the same address behind the null.
DialectIsRead ==
    \A reader \in Readers :
        (Done(reader) /\ Dialect(reader) = Dialect(msg.from)) =>
            LET result == read[reader] IN
            IF 0 \in ToSet(msg.topic)
            THEN \/ Failure(result)
                 \/ /\ result.topic # msg.topic
                    /\ (msg.type = ADV /\ Len(msg.topic) <= Len(msg.address)) =>
                         result.address # msg.address
            ELSE /\ ~Failure(result)
                 /\ \E rest \in Rests(reader) : Taken(result) = Meant(rest)
                 /\ (result.guid = Guid) <=>
                        ("python" \in {reader, msg.from} => reader = msg.from)

\* A C++ node reads past the end of each datagram of the other dialect.  A C node
\* aborts and a Python node raises on each C++ subscription to a topic shorter than
\* 256; of other C++ datagrams they take a letter of the topic for the type, unless
\* its length is a multiple of 256.  Then the length that remains is zero and its
\* high byte is the type: a Python node finds an empty topic, a C node the name
\* that happens to be on its stack, which it answers for if the type says SUB.
DialectsNeverMix ==
    \A reader \in Readers :
        (Done(reader) /\ Dialect(reader) # Dialect(msg.from)) =>
            LET result == read[reader] IN
            /\ (reader = "cpp" \/ (msg.type = SUB /\ Len(msg.topic) < 256)) => Failure(result)
            /\ \/ Failure(result)
               \/ result.type \in ToSet(msg.topic)
               \/ /\ Len(msg.topic) = 256 * result.type
                  /\ result.topic \in Rests(reader)
=============================================================================
