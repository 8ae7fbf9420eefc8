-------------------------------- MODULE ZMsg --------------------------------
(***************************************************************************)
(* The multipart messages of src/cpp/zmq/zmsg.hpp, by which a C++ node     *)
(* sends and receives publications, requests and replies.  A part is a     *)
(* sequence of bytes without a null byte, as a C string is.                *)
(***************************************************************************)
EXTENDS Integers, SequencesExt

CONSTANTS Part,     \* the parts applications use
          MaxParts, \* bound: parts of a message
          None

VARIABLES m_part_data, \* the message of the sender
          wire,        \* its parts on the way, None before they are sent
          sent,        \* what the sender had put together
          received     \* the message of the receiver

vars == <<m_part_data, wire, sent, received>>

At == 64
IsUuid(part) == Len(part) = 33 /\ part[1] = At

\* hex_to_bin: -1 for a character that is no hexadecimal digit.
HexToBin(c) ==
    CASE c \in 48..57  -> c - 48
      [] c \in 65..70  -> c - 55
      [] c \in 97..102 -> c - 87
      [] OTHER -> -1
HexChar(digit) == IF digit < 10 THEN 48 + digit ELSE 55 + digit

\* Mutant of decode_uuid: the digits of a byte in the wrong order.
decode_uuid_swapped(part) ==
    [i \in 1..17 |-> IF i = 1 THEN 0
        ELSE (HexToBin(part[2 * i - 1]) * 16 + HexToBin(part[2 * i - 2])) % 256]

decode_uuid(part) ==
    [i \in 1..17 |-> IF i = 1 THEN 0
        ELSE (HexToBin(part[2 * i - 2]) * 16 + HexToBin(part[2 * i - 1])) % 256]

encode_uuid(data) ==
    [i \in 1..33 |-> IF i = 1 THEN At
        ELSE HexChar(IF i % 2 = 0 THEN data[i \div 2 + 1] \div 16 ELSE data[i \div 2 + 1] % 16)]

push_back(parts, part)  == Append(parts, part)
push_front(parts, part) == <<part>> \o parts

body_set(parts, body) == push_back(IF parts = <<>> THEN parts ELSE Front(parts), body)

\* A null delimiter is none; an empty one is a part of its own.
wrap(parts, address, delim) ==
    push_front(IF delim = None THEN parts ELSE push_front(parts, delim), address)

\* Mutant of unwrap: the delimiter stays.
unwrap_address(parts) == IF parts = <<>> THEN parts ELSE Tail(parts)

\* Drops the address and the part behind it when that one is empty.  (What it
\* returns is a pointer into a string that is gone by then.)
unwrap(parts) ==
    CASE parts = <<>> -> parts
      [] Len(parts) > 1 /\ parts[2] = <<>> -> Tail(Tail(parts))
      [] OTHER -> Tail(parts)

-----------------------------------------------------------------------------
Init ==
    /\ m_part_data = <<>> /\ wire = None /\ sent = <<>> /\ received = <<>>

Build ==
    /\ wire = None /\ Len(m_part_data) < MaxParts
    /\ \E part \in Part :
        \/ m_part_data' = push_back(m_part_data, part)
        \/ m_part_data' = push_front(m_part_data, part)
        \/ m_part_data' = body_set(m_part_data, part)
    /\ UNCHANGED <<wire, sent, received>>

\* A part that looks like a printed UUID goes out as its 17 bytes.
send ==
    /\ wire = None
    /\ wire' = [i \in DOMAIN m_part_data |->
            IF IsUuid(m_part_data[i]) THEN decode_uuid(m_part_data[i]) ELSE m_part_data[i]]
    /\ sent' = m_part_data
    /\ m_part_data' = <<>>
    /\ UNCHANGED received

recv ==
    /\ wire \notin {None, <<>>}
    /\ received' = [i \in DOMAIN wire |->
            IF Len(wire[i]) = 17 /\ wire[i][1] = 0 THEN encode_uuid(wire[i]) ELSE wire[i]]
    /\ wire' = <<>>
    /\ UNCHANGED <<m_part_data, sent>>

\* The receiver takes the envelope off.
Unwrap ==
    /\ received # <<>> /\ sent # <<>>
    /\ received' = unwrap(received)
    /\ sent' = <<>>
    /\ UNCHANGED <<m_part_data, wire>>

Next == Build \/ send \/ recv \/ Unwrap

Spec == Init /\ [][Next]_vars

\* What a theorem takes for granted: a part is a C string of any length.
PartsAreCStrings == Part \subseteq Seq(1..255) /\ None # <<>>

-----------------------------------------------------------------------------
(* Properties                                                              *)

Upper(part) == [i \in DOMAIN part |-> IF part[i] \in 97..102 THEN part[i] - 32 ELSE part[i]]
IsHex(part) == \A i \in 2..Len(part) : HexToBin(part[i]) # -1

\* A part arrives as it was sent, also one of 17 bytes; except that one of 33
\* that begins with @ comes out in capital letters, and with other digits
\* where it had none.
PartsSurvive ==
    (received # <<>> /\ sent # <<>>) =>
        /\ Len(received) = Len(sent)
        /\ \A i \in DOMAIN sent :
            IF ~IsUuid(sent[i]) THEN received[i] = sent[i]
            ELSE /\ IsHex(sent[i]) => received[i] = Upper(sent[i])
                 /\ IsUuid(received[i]) /\ IsHex(received[i])

\* What wrap put around a message, unwrap takes off, and no more; without a
\* delimiter it takes an empty first part of the message with it.
UnwrapUndoesWrap ==
    \A address \in Part, delim \in {None, <<>>} :
        LET restored == unwrap(wrap(m_part_data, address, delim)) IN
        IF delim = None /\ m_part_data # <<>> /\ Head(m_part_data) = <<>>
        THEN restored = Tail(m_part_data)
        ELSE restored = m_part_data
=============================================================================
