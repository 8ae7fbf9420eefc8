--------------------------- MODULE Network_proofs ---------------------------
(***************************************************************************)
(* Theorems about a node and its network, as NetworkParts has it: the      *)
(* choice of an address from any interfaces, and the queries of libnnet    *)
(* for any names and addresses.                                            *)
(***************************************************************************)
EXTENDS NetworkParts, Integers, SequencesExt, TLAPS, SequenceTheorems, WellFoundedInduction

-----------------------------------------------------------------------------
(* Numbers and sequences                                                   *)

\* A set of natural numbers has a least one.
LEMMA Least ==
  ASSUME NEW S, S \subseteq Nat, S # {}
  PROVE  \E x \in S : \A y \in S : x <= y
<1> DEFINE below == OpToRel(<, Nat)
<1>1. \A x, y \in Nat : x < y => <<x, y>> \in below
  BY DEF OpToRel
<1>2. IsWellFoundedOn(below, Nat)
  BY NatLessThanWellFounded
<1> HIDE DEF below
<1>3. PICK x \in S : \A y \in S : <<y, x>> \notin below
  BY ONLY S \subseteq Nat, S # {}, <1>2, WFMin
<1>4. ASSUME NEW y \in S PROVE x <= y
  <2>1. x \in Nat /\ y \in Nat /\ ~(y < x)
    BY <1>1, <1>3
  <2>2. QED
    BY <2>1
<1>5. QED
  BY <1>4

\* The least number of a set, as module FiniteSetsExt defines it.
LEMMA MinFacts ==
  ASSUME NEW S, S \subseteq Nat, S # {}
  PROVE  Min(S) \in S /\ \A y \in S : Min(S) <= y
<1>1. \E x \in S : \A y \in S : x <= y
  BY Least
<1>2. QED
  BY <1>1 DEF Min

\* A function on the first m numbers is a sequence.
LEMMA FunctionIsSeq ==
  ASSUME NEW S, NEW m \in Nat, NEW f \in [1..m -> S]
  PROVE  f \in Seq(S) /\ Len(f) = m
<1>1. f \in Seq(S)
  BY SeqDef
<1>2. QED
  BY <1>1, LenProperties

-----------------------------------------------------------------------------
(* The address of a host                                                   *)

Listed == Seq(Host!IPv4 \cup {IPv6, NoAddress})

\* An address that is in Outside, or in Public, when an interface has it.
IsOutside(a) == Host!IsIPv4(a) /\ a # Host!Loopback
IsPublic(a) == IsOutside(a) /\ ~Host!isPrivateIP(a)

\* The first n interfaces that have one.
OutsideOf(n) == {i \in 1..n : IsOutside(ifaddrs[i])}
PublicOf(n) == {i \in 1..n : IsPublic(ifaddrs[i])}

\* What n interfaces leave preferred: the first public address, or else the
\* first outside.
Best(n) ==
  IF PublicOf(n) # {} THEN ifaddrs[Min(PublicOf(n))]
  ELSE IF OutsideOf(n) # {} THEN ifaddrs[Min(OutsideOf(n))]
  ELSE Empty

\* An interface that has no address outside does not matter, the first one is
\* taken, and after it the first public one.
LEMMA PreferCases ==
  ASSUME NEW preferred, NEW addr
  PROVE  /\ ~IsOutside(addr) => Host!Prefer(preferred, addr) = preferred
         /\ (IsOutside(addr) /\ preferred = Empty) => Host!Prefer(preferred, addr) = addr
         /\ (IsOutside(addr) /\ preferred # Empty) =>
               Host!Prefer(preferred, addr) =
                  IF ~Host!isPrivateIP(addr) /\ Host!isPrivateIP(preferred) THEN addr ELSE preferred
  BY DEF Host!Prefer, IsOutside

\* A set with one number more that is greater than all of it: its least number
\* stays, or is that one.
LEMMA MinOfMore ==
  ASSUME NEW S, S \subseteq Nat, NEW n \in Nat, \A x \in S : x < n
  PROVE  /\ S # {} => Min(S \cup {n}) = Min(S)
         /\ S = {} => Min(S \cup {n}) = n
<1> DEFINE more == S \cup {n}
<1>1. more \subseteq Nat /\ more # {}
  OBVIOUS
<1>2. Min(more) \in more /\ \A y \in more : Min(more) <= y
  <2> HIDE DEF more
  <2>1. QED
    BY <1>1, MinFacts
<1>3. CASE S # {}
  <2>1. Min(S) \in S /\ \A y \in S : Min(S) <= y
    BY <1>3, MinFacts
  <2> DEFINE x == Min(more)
             y == Min(S)
  <2>2. /\ x \in S \cup {n} /\ \A z \in S \cup {n} : x <= z
        /\ y \in S /\ \A z \in S : y <= z
    BY <1>2, <2>1
  <2> HIDE DEF x, y
  <2>3. x = y
    BY <2>2
  <2>4. QED
    BY <1>3, <2>3 DEF x, y
<1>4. CASE S = {}
  BY <1>2, <1>4
<1>5. QED
  BY <1>3, <1>4

\* What one interface more does to Best is what Prefer does.
LEMMA BestStep ==
  ASSUME ifaddrs \in Listed, Empty \notin Host!IPv4 \cup {IPv6, NoAddress},
         NEW n \in 1..Len(ifaddrs)
  PROVE  Best(n) = Host!Prefer(Best(n - 1), ifaddrs[n])
<1> DEFINE addr == ifaddrs[n]
           out == OutsideOf(n - 1)
           pub == PublicOf(n - 1)
<1>1. Len(ifaddrs) \in Nat /\ n \in Nat /\ n >= 1 /\ n <= Len(ifaddrs)
  BY DEF Listed
<1>2. \A i \in 1..Len(ifaddrs) : ifaddrs[i] # Empty
  <2>1. \A i \in 1..Len(ifaddrs) : ifaddrs[i] \in Host!IPv4 \cup {IPv6, NoAddress}
    BY ElementOfSeq DEF Listed
  <2>2. QED
    BY <2>1
<1>3. /\ out \subseteq 1..(n - 1) /\ pub \subseteq out
      /\ \A i \in out : IsOutside(ifaddrs[i]) /\ ifaddrs[i] # Empty
      /\ \A i \in out : i \in pub <=> ~Host!isPrivateIP(ifaddrs[i])
  BY <1>1, <1>2 DEF OutsideOf, PublicOf, IsPublic
<1>4. /\ OutsideOf(n) = IF IsOutside(addr) THEN out \cup {n} ELSE out
      /\ PublicOf(n) = IF IsPublic(addr) THEN pub \cup {n} ELSE pub
  <2>1. \A i : i \in 1..n <=> i \in 1..(n - 1) \/ i = n
    BY <1>1
  <2>2. QED
    BY <2>1 DEF OutsideOf, PublicOf
<1>5. /\ out # {} => Min(out) \in out
      /\ pub # {} => Min(pub) \in pub
  <2>1. out \subseteq Nat /\ pub \subseteq Nat
    BY <1>1, <1>3
  <2> HIDE DEF out, pub
  <2>2. QED
    BY <2>1, MinFacts
<1>6. /\ out # {} => Min(out \cup {n}) = Min(out)
      /\ out = {} => Min(out \cup {n}) = n
      /\ pub # {} => Min(pub \cup {n}) = Min(pub)
      /\ pub = {} => Min(pub \cup {n}) = n
  <2>1. out \subseteq Nat /\ pub \subseteq Nat /\ \A i \in out \cup pub : i < n
    BY <1>1, <1>3
  <2> HIDE DEF out, pub
  <2>2. QED
    BY <1>1, <2>1, MinOfMore
<1>7. Best(n - 1) = IF pub # {} THEN ifaddrs[Min(pub)]
                    ELSE IF out # {} THEN ifaddrs[Min(out)] ELSE Empty
  BY DEF Best
<1>8. IsPublic(addr) <=> IsOutside(addr) /\ ~Host!isPrivateIP(addr)
  BY DEF IsPublic
<1>9. Best(n) = IF PublicOf(n) # {} THEN ifaddrs[Min(PublicOf(n))]
                ELSE IF OutsideOf(n) # {} THEN ifaddrs[Min(OutsideOf(n))] ELSE Empty
  BY DEF Best
<1> HIDE DEF out, pub
<1>10. CASE ~IsOutside(addr)
  <2>1. Best(n) = Best(n - 1)
    BY <1>4, <1>7, <1>8, <1>9, <1>10
  <2>2. QED
    BY <1>10, <2>1, PreferCases
<1>11. CASE IsOutside(addr) /\ out = {}
  <2>1. pub = {} /\ Best(n - 1) = Empty
    BY <1>3, <1>7, <1>11
  <2>2. Best(n) = addr
    BY <1>4, <1>6, <1>8, <1>9, <1>11, <2>1
  <2>3. QED
    BY <1>11, <2>1, <2>2, PreferCases
<1>12. CASE IsOutside(addr) /\ out # {} /\ pub # {}
  <2>1. Best(n - 1) = ifaddrs[Min(pub)] /\ Best(n - 1) # Empty
    BY <1>3, <1>5, <1>7, <1>12
  <2>2. ~Host!isPrivateIP(Best(n - 1))
    BY <1>3, <1>5, <1>12, <2>1
  <2>3. Best(n) = Best(n - 1)
    BY <1>4, <1>6, <1>9, <1>12, <2>1
  <2>4. QED
    BY <1>12, <2>1, <2>2, <2>3, PreferCases
<1>13. CASE IsOutside(addr) /\ out # {} /\ pub = {}
  <2>1. Best(n - 1) = ifaddrs[Min(out)] /\ Best(n - 1) # Empty
    BY <1>3, <1>5, <1>7, <1>13
  <2>2. Host!isPrivateIP(Best(n - 1))
    BY <1>3, <1>5, <1>13, <2>1
  <2>3. Best(n) = IF Host!isPrivateIP(addr) THEN Best(n - 1) ELSE addr
    BY <1>4, <1>6, <1>8, <1>9, <1>13, <2>1
  <2>4. QED
    BY <1>13, <2>1, <2>2, <2>3, PreferCases
<1>14. QED
  BY <1>10, <1>11, <1>12, <1>13

\* What the search computes, however many interfaces there are: induction on
\* their number, by the first one after which Best is not preferred.
LEMMA PreferredIs ==
  ASSUME ifaddrs \in Listed, Empty \notin Host!IPv4 \cup {IPv6, NoAddress}
  PROVE  \A n \in 0..Len(ifaddrs) : Host!Preferred[n] = Best(n)
<1> DEFINE size == Len(ifaddrs)
           Body(f) == [n \in 0..size |->
                         IF n = 0 THEN Empty ELSE Host!Prefer(f[n - 1], ifaddrs[n])]
           best == [n \in 0..size |-> Best(n)]
<1>1. size \in Nat
  BY DEF Listed
<1>2. Best(0) = Empty
  <2>1. 1..0 = {}
    OBVIOUS
  <2>2. OutsideOf(0) = {} /\ PublicOf(0) = {}
    BY <2>1 DEF OutsideOf, PublicOf
  <2>3. QED
    BY <2>2 DEF Best
<1>3. best = Body(best)
  <2>1. ASSUME NEW n \in 0..size PROVE best[n] = Body(best)[n]
    <3>1. CASE n = 0
      BY <1>2, <3>1
    <3>2. CASE n # 0
      <4>1. n \in 1..size /\ n - 1 \in 0..size
        BY <1>1, <3>2
      <4>2. QED
        BY <3>2, <4>1, BestStep
    <3>3. QED
      BY <3>1, <3>2
  <2>2. QED
    BY <2>1
<1>4. Host!Preferred = CHOOSE f : f = Body(f)
  BY DEF Host!Preferred
<1>5. Host!Preferred = Body(Host!Preferred)
  <2> HIDE DEF Body, best
  <2>1. QED
    BY <1>3, <1>4
<1>6. ASSUME NEW n \in 0..size
      PROVE  Host!Preferred[n] =
                IF n = 0 THEN Empty ELSE Host!Prefer(Host!Preferred[n - 1], ifaddrs[n])
  BY <1>5
<1> DEFINE wrong == {n \in 0..size : Host!Preferred[n] # Best(n)}
<1>7. wrong = {}
  <2> SUFFICES ASSUME wrong # {} PROVE FALSE
    OBVIOUS
  <2>1. wrong \subseteq Nat
    BY <1>1
  <2>2. PICK n \in wrong : \A j \in wrong : n <= j
    <3> HIDE DEF wrong
    <3>1. QED
      BY <2>1, Least
  <2>3. n \in 1..size /\ n - 1 \in 0..size /\ ~(n <= n - 1)
    BY <1>1, <1>2, <1>6, <2>2
  <2>4. Host!Preferred[n - 1] = Best(n - 1)
    BY <2>2, <2>3
  <2>5. QED
    BY <1>6, <2>2, <2>3, <2>4, BestStep
<1>8. QED
  BY <1>7

\* A public address of the machine if it has one, or else one from outside, or
\* else the loopback.
Right(address) ==
  /\ Host!Public # {} => address \in Host!Public
  /\ (Host!Public = {} /\ Host!Outside # {}) => address \in Host!Outside
  /\ Host!Outside = {} => address = Host!Loopback

\* So is what the search of the interfaces finds.
LEMMA SearchIsRight ==
  ASSUME ifaddrs \in Listed, Empty \notin Host!IPv4 \cup {IPv6, NoAddress}
  PROVE  Right(Host!InterfaceSearch)
<1> DEFINE size == Len(ifaddrs)
           out == OutsideOf(size)
           pub == PublicOf(size)
<1>1. size \in Nat /\ DOMAIN ifaddrs = 1..size
  BY DEF Listed
<1>2. \A i \in 1..size : ifaddrs[i] # Empty
  <2>1. \A i \in 1..size : ifaddrs[i] \in Host!IPv4 \cup {IPv6, NoAddress}
    BY ElementOfSeq DEF Listed
  <2>2. QED
    BY <2>1
<1>3. /\ Host!Outside = {ifaddrs[i] : i \in out}
      /\ Host!Public = {ifaddrs[i] : i \in pub}
  <2>1. Host!ToSet(ifaddrs) = {ifaddrs[i] : i \in 1..size}
    BY <1>1 DEF Host!ToSet
  <2>2. Host!Outside = {ifaddrs[i] : i \in out}
    BY <2>1 DEF Host!Outside, OutsideOf, IsOutside
  <2>3. Host!Public = {ifaddrs[i] : i \in pub}
    BY <2>1 DEF Host!Public, Host!Outside, PublicOf, IsPublic, IsOutside, Host!isPrivateIP
  <2>4. QED
    BY <2>2, <2>3
<1>4. /\ out # {} => Min(out) \in out
      /\ pub # {} => Min(pub) \in pub
      /\ pub \subseteq out /\ out \subseteq 1..size
  <2>1. pub \subseteq out /\ out \subseteq 1..size
    BY DEF OutsideOf, PublicOf, IsPublic
  <2>2. out \subseteq Nat /\ pub \subseteq Nat
    BY <1>1, <2>1
  <2> HIDE DEF out, pub
  <2>3. QED
    BY <2>1, <2>2, MinFacts
<1>5. Host!Preferred[size] = Best(size)
  BY <1>1, PreferredIs
<1>6. Host!InterfaceSearch = IF Best(size) = Empty THEN Host!Loopback ELSE Best(size)
  BY <1>5 DEF Host!InterfaceSearch
<1>7. Best(size) = IF pub # {} THEN ifaddrs[Min(pub)]
                   ELSE IF out # {} THEN ifaddrs[Min(out)] ELSE Empty
  BY DEF Best
<1> HIDE DEF out, pub, size
<1>8. CASE pub # {}
  BY <1>2, <1>3, <1>4, <1>6, <1>7, <1>8 DEF Right
<1>9. CASE pub = {} /\ out # {}
  BY <1>2, <1>3, <1>4, <1>6, <1>7, <1>9 DEF Right
<1>10. CASE out = {}
  BY <1>3, <1>4, <1>6, <1>7, <1>10 DEF Right
<1>11. QED
  BY <1>8, <1>9, <1>10

Kinds == {"cpp", "c", "python"}

\* What C and Python nodes chose is what they would choose now; for the C++
\* node the property itself is inductive.
HostInv ==
  /\ chosen = [kind \in Kinds |-> chosen[kind]]
  /\ ifaddrs = Unset => \A kind \in Kinds : chosen[kind] = Unset
  /\ ifaddrs # Unset => ifaddrs \in Interfaces /\ bcast_host \in BcastHosts
  /\ Host!BestAddressIsChosen
  /\ chosen["c"] # Unset => chosen["c"] = Host!dzmq_get_address_ipv4
  /\ chosen["python"] # Unset => chosen["python"] = Host!PythonAddress

\* Every step on a machine keeps HostInv.
LEMMA HostStep ==
  ASSUME Host!HostsAreIPv4, HostInv, [Host!Next]_(Host!vars)
  PROVE  HostInv'
<1>1. CASE Host!Machine
  <2>1. \A kind \in Kinds : chosen'[kind] = Unset
    BY <1>1 DEF Host!Machine, HostInv
  <2>2. /\ ifaddrs' \in Interfaces /\ ifaddrs' # Unset /\ chosen' = chosen
        /\ bcast_host' \in BcastHosts
    BY <1>1 DEF Host!Machine, Host!HostsAreIPv4
  <2>3. QED
    BY <2>1, <2>2 DEF HostInv, Kinds, Host!BestAddressIsChosen
<1>2. CASE UNCHANGED <<ifaddrs, resolved, dzmq_ip, bcast_host, bcast_port>> /\ ifaddrs # Unset
  <2>1. /\ Host!Outside' = Host!Outside /\ Host!Public' = Host!Public
        /\ Host!dzmq_get_address_ipv4' = Host!dzmq_get_address_ipv4
        /\ Host!PythonAddress' = Host!PythonAddress
    BY <1>2 DEF Host!Outside, Host!Public, Host!ToSet, Host!dzmq_get_address_ipv4,
         Host!PythonAddress, Host!PythonHost, Host!PythonPort, Host!get_local_addresses,
         Host!SelectInSeq
  <2>2. ifaddrs \in Listed /\ Empty \notin Host!IPv4 \cup {IPv6, NoAddress}
    BY <1>2 DEF HostInv, Host!HostsAreIPv4, Listed
  <2>3. Right(Host!InterfaceSearch)
    BY <2>2, SearchIsRight
  <2>4. CASE Host!Chose("cpp", Host!DetermineHost)
    <3>1. /\ chosen' = [chosen EXCEPT !["cpp"] = Host!DetermineHost]
          /\ chosen'["cpp"] = Host!DetermineHost
          /\ chosen'["c"] = chosen["c"] /\ chosen'["python"] = chosen["python"]
      BY <2>4 DEF Host!Chose, HostInv, Kinds
    <3>2. Host!DetermineHost.address =
            IF dzmq_ip \notin {Unset, Empty} THEN dzmq_ip
            ELSE IF resolved # Unset THEN resolved ELSE Host!InterfaceSearch
      BY DEF Host!DetermineHost, Host!Choice
    <3>3. Host!BestAddressIsChosen'
      BY <1>2, <2>1, <2>3, <3>1, <3>2 DEF Host!BestAddressIsChosen, Right
    <3>4. chosen' = [kind \in Kinds |-> chosen'[kind]]
      BY <3>1 DEF HostInv, Kinds
    <3>5. QED
      BY <1>2, <2>1, <3>1, <3>3, <3>4 DEF HostInv
  <2>5. ASSUME NEW kind \in {"c", "python"}, NEW result, Host!Chose(kind, result),
               kind = "c" => result = Host!dzmq_get_address_ipv4,
               kind = "python" => result = Host!PythonAddress
        PROVE  HostInv'
    <3>1. /\ chosen' = [chosen EXCEPT ![kind] = result]
          /\ chosen'[kind] = result
          /\ \A other \in Kinds \ {kind} : chosen'[other] = chosen[other]
      BY <2>5 DEF Host!Chose, HostInv, Kinds
    <3>2. chosen' = [k \in Kinds |-> chosen'[k]]
      BY <3>1 DEF HostInv, Kinds
    <3>3. chosen'["cpp"] = chosen["cpp"]
      BY <3>1 DEF Kinds
    <3>4. Host!BestAddressIsChosen'
      BY <1>2, <2>1, <3>3 DEF Host!BestAddressIsChosen, HostInv
    <3>5. /\ chosen'["c"] # Unset => chosen'["c"] = Host!dzmq_get_address_ipv4
          /\ chosen'["python"] # Unset => chosen'["python"] = Host!PythonAddress
      BY <2>5, <3>1 DEF HostInv, Kinds
    <3>6. QED
      BY <1>2, <2>1, <3>2, <3>4, <3>5 DEF HostInv
  <2>6. CASE UNCHANGED chosen
    BY <1>2, <2>1, <2>6 DEF HostInv, Host!BestAddressIsChosen
  <2>7. CASE Host!Chose("c", Host!dzmq_get_address_ipv4)
    BY <2>5, <2>7
  <2>8. CASE Host!Chose("python", Host!PythonAddress)
    BY <2>5, <2>8
  <2>9. CASE Host!Machine
    BY <1>1, <2>9
  <2>10. QED
    BY <2>4, <2>6, <2>7, <2>8, <2>9 DEF Host!Next, Host!vars
<1>3. CASE UNCHANGED Host!vars /\ ifaddrs = Unset
  BY <1>3 DEF Host!vars, Host!machine, HostInv, Kinds, Host!BestAddressIsChosen
<1>4. QED
  BY <1>1, <1>2, <1>3 DEF Host!Next, Host!vars, Host!machine, Host!Chose

\* An address that strncmp takes for the loopback begins with 127, and the
\* loopback is one.
LEMMA LoopbackFacts ==
  /\ \A addr \in Host!IPv4 : Host!BeginsAsLoopback(addr) => addr[1] = 127
  /\ Host!BeginsAsLoopback(Host!Loopback)
<1>1. ASSUME NEW addr \in [1..4 -> 0..255], SubSeq(addr, 1, 3) = <<127, 0, 0>>
      PROVE  addr[1] = 127
  <2>1. addr \in Seq(0..255) /\ Len(addr) = 4
    <3>1. addr \in Seq(0..255)
      <4> DEFINE S == 0..255
      <4>1. addr \in [1..4 -> S] /\ [1..4 -> S] \in {[1..n -> S] : n \in Nat}
        OBVIOUS
      <4> HIDE DEF S
      <4>2. addr \in Seq(S)
        BY <4>1, SeqDef, Zenon
      <4>3. QED
        BY <4>2 DEF S
    <3>2. DOMAIN addr = 1..4
      OBVIOUS
    <3>3. QED
      BY <3>1, <3>2, LenProperties
  <2>2. SubSeq(addr, 1, 3)[1] = addr[1]
    BY <2>1
  <2>3. <<127, 0, 0>>[1] = 127
    OBVIOUS
  <2>4. QED
    BY <1>1, <2>2, <2>3
<1>2. SubSeq(<<127, 0, 0, 1>>, 1, 3) = <<127, 0, 0>> /\ <<127, 0, 0, 1>>[4] = 1
  <2> DEFINE addr == <<127, 0, 0, 1>>
  <2>1. addr \in Seq(Nat) /\ Len(addr) = 4
    OBVIOUS
  <2>2. addr[1] = 127 /\ addr[2] = 0 /\ addr[3] = 0 /\ addr[4] = 1
    OBVIOUS
  <2> HIDE DEF addr
  <2>3. SubSeq(addr, 1, 3) = [i \in 1..3 |-> addr[i]]
    BY <2>1
  <2>4. [i \in 1..3 |-> addr[i]] = <<127, 0, 0>>
    BY <2>2
  <2>5. QED
    BY <2>2, <2>3, <2>4 DEF addr
<1>3. QED
  BY <1>1, <1>2 DEF Host!IPv4, Host!BeginsAsLoopback, Host!Loopback

\* The network of an address is an address that ends in 255.
LEMMA NetworkFacts ==
  ASSUME NEW addr \in Host!IPv4
  PROVE  LET network == Append(Front(addr), 255) IN
         network \in Host!IPv4 /\ Len(network) = 4 /\ network[4] = 255
<1> DEFINE S == 0..255
           width == 4
           front == SubSeq(addr, 1, 3)
<1>1. width \in Nat /\ addr \in [1..width -> S]
  BY DEF Host!IPv4
<1>2. 255 \in S
  OBVIOUS
<1> HIDE DEF width, S
<1>3. addr \in Seq(S) /\ Len(addr) = width
  BY <1>1, FunctionIsSeq
<1>4. Len(addr) = 4 /\ Len(addr) - 1 = 3
  BY <1>3 DEF width
<1>5. Front(addr) = front
  BY <1>4 DEF Front
<1>6. front \in Seq(S) /\ Len(front) = 3
  <2>1. \A i \in 1..3 : addr[i] \in S
    BY <1>3, <1>4, ElementOfSeq
  <2>2. QED
    BY <2>1, SubSeqProperties, SMT
<1> HIDE DEF front
<1> DEFINE network == Append(front, 255)
<1>7. network \in Seq(S) /\ Len(network) = 4 /\ network[4] = 255
  <2> DEFINE all == 255
  <2>1. all \in S /\ front \in Seq(S)
    BY <1>2, <1>6
  <2> HIDE DEF all
  <2>2. /\ Append(front, all) \in Seq(S) /\ Len(Append(front, all)) = Len(front) + 1
        /\ Append(front, all)[Len(front) + 1] = all
    BY ONLY <2>1, AppendProperties
  <2>3. Append(front, all)[4] = all /\ Len(Append(front, all)) = 4
    BY ONLY <1>6, <2>2
  <2>4. QED
    BY <2>2, <2>3 DEF all
<1> HIDE DEF network
<1>8. network \in [1..4 -> S]
  BY <1>7, LenProperties
<1>9. network \in Host!IPv4
  BY <1>8 DEF Host!IPv4, S
<1>10. network = Append(Front(addr), 255)
  BY <1>5 DEF network
<1>11. QED
  BY <1>7, <1>9, <1>10

\* On a machine as CAndPythonShareANetwork has it, C and Python nodes take the
\* same interface, the first whose address does not begin with 127, and broadcast to
\* the same place unless the environment says otherwise.
LEMMA SameChoice ==
  ASSUME Host!HostsAreIPv4, ifaddrs \in Interfaces, dzmq_ip = Unset, Unset # Empty,
         bcast_host \in BcastHosts, bcast_port # Empty, NoAddress \notin Host!ToSet(ifaddrs),
         \E a \in Host!Outside : a[1] # 127,
         \A a \in Host!Outside : a[1] = 127 => Host!BeginsAsLoopback(a)
  PROVE  LET c == Host!dzmq_get_address_ipv4
             python == Host!PythonAddress IN
         /\ c.address = python.address
         /\ c = python <=>
                bcast_host \in {Unset, c.broadcast} /\ bcast_port \in {Unset, c.port}
<1> DEFINE size == Len(ifaddrs)
           good == {i \in 1..size : ifaddrs[i] = NoAddress \/ Host!Acceptable(ifaddrs[i])}
           distant == {i \in Host!get_local_addresses : ifaddrs[i][1] # 127}
<1>1. /\ size \in Nat /\ DOMAIN ifaddrs = 1..size
      /\ \A i \in 1..size : ifaddrs[i] \in Host!IPv4 \cup {IPv6, NoAddress}
  <2>1. ifaddrs \in Seq(Host!IPv4 \cup {IPv6, NoAddress})
    BY DEF Host!HostsAreIPv4
  <2>2. QED
    BY <2>1, ElementOfSeq
<1>2. Host!ToSet(ifaddrs) = {ifaddrs[i] : i \in 1..size}
  BY <1>1 DEF Host!ToSet
<1>3. \A i \in 1..size : ifaddrs[i] # NoAddress
  BY <1>2
<1>4. ASSUME NEW i \in 1..size PROVE i \in good <=> i \in distant
  <2> DEFINE a == ifaddrs[i]
  <2>1. i \in distant <=> Host!IsIPv4(a) /\ a[1] # 127
    BY <1>1 DEF Host!get_local_addresses
  <2>2. i \in good <=> Host!IsIPv4(a) /\ ~Host!BeginsAsLoopback(a)
    BY <1>3 DEF Host!Acceptable
  <2>3. Host!IsIPv4(a) => a \in Host!IPv4
    BY <1>1 DEF Host!IsIPv4
  <2>4. (a \in Host!IPv4 /\ Host!BeginsAsLoopback(a)) => a[1] = 127
    BY LoopbackFacts
  <2>5. a = Host!Loopback => Host!BeginsAsLoopback(a)
    BY LoopbackFacts
  <2>6. (Host!IsIPv4(a) /\ a # Host!Loopback) => a \in Host!Outside
    BY <1>2 DEF Host!Outside
  <2> HIDE DEF a, good, distant
  <2>7. QED
    BY <2>1, <2>2, <2>3, <2>4, <2>5, <2>6
<1>5. good = distant
  <2>1. good \subseteq 1..size /\ distant \subseteq 1..size
    BY <1>1 DEF Host!get_local_addresses
  <2>2. QED
    BY <1>4, <2>1
<1>6. distant # {} /\ Host!get_local_addresses # {}
  <2>1. PICK i \in 1..size : Host!IsIPv4(ifaddrs[i]) /\ ifaddrs[i][1] # 127
    BY <1>2 DEF Host!Outside
  <2>2. i \in distant
    BY <1>1, <2>1 DEF Host!get_local_addresses
  <2>3. QED
    BY <2>2
<1>7. Min(distant) \in 1..size
  <2>1. distant \subseteq 1..size /\ 1..size \subseteq Nat
    BY <1>1 DEF Host!get_local_addresses
  <2> HIDE DEF distant
  <2>2. QED
    BY <1>6, <2>1, MinFacts
<1> DEFINE taken == ifaddrs[Min(distant)]
           network == Append(Front(taken), 255)
<1>8. Host!PythonAddress = Host!Choice(taken, Host!PythonHost(taken), Host!PythonPort)
  BY <1>6 DEF Host!PythonAddress, Host!Min, Min
<1>9. /\ good # {} /\ Min(good) \in 1..size /\ Min(good) # 0
      /\ ifaddrs[Min(good)] # NoAddress
  <2> HIDE DEF good, distant
  <2>1. QED
    BY <1>3, <1>5, <1>6, <1>7
<1>10. Host!dzmq_get_address_ipv4 =
         Host!Choice(ifaddrs[Min(good)], Append(Front(ifaddrs[Min(good)]), 255),
                     Host!DZMQ_DISC_PORT)
  BY <1>9 DEF Host!dzmq_get_address_ipv4, Host!dzmq_broadcast_ip_from_address_ip, Host!Front, Front,
              Host!SelectInSeq, Host!Min, Min
<1>11. Host!dzmq_get_address_ipv4 = Host!Choice(taken, network, Host!DZMQ_DISC_PORT)
  <2> HIDE DEF good, distant
  <2>1. QED
    BY <1>5, <1>10
<1>12. taken \in Host!IPv4
  <2> HIDE DEF good
  <2>1. Min(distant) \in distant
    <3>1. distant \subseteq 1..size /\ 1..size \subseteq Nat
      BY <1>1 DEF Host!get_local_addresses
    <3> HIDE DEF distant
    <3>2. QED
      BY <1>6, <3>1, MinFacts
  <2>2. \A i \in distant : ifaddrs[i] \in Host!IPv4
    BY <1>1 DEF Host!get_local_addresses, Host!IsIPv4
  <2> HIDE DEF distant
  <2>3. QED
    BY <2>1, <2>2
<1> HIDE DEF taken, good, distant
<1>13. network # <<0, 0, 0, 0>>
  <2>1. Len(network) = 4 /\ network[4] = 255
    BY <1>12, NetworkFacts
  <2> HIDE DEF network
  <2>2. <<0, 0, 0, 0>>[4] = 0
    OBVIOUS
  <2>3. QED
    BY <2>1, <2>2
<1>14. /\ Host!PythonHost(taken) = network <=> bcast_host \in {Unset, network}
  <2>1. bcast_host \in Host!IPv4 \cup {Empty, Unset}
    BY DEF Host!HostsAreIPv4
  <2>2. CASE bcast_host = Unset
    BY <2>2 DEF Host!PythonHost, Host!Front, Front
  <2>3. CASE bcast_host = Empty
    <3>1. Host!PythonHost(taken) = <<0, 0, 0, 0>>
      BY <2>3 DEF Host!PythonHost
    <3>2. network # Empty
      <4>1. network \in Host!IPv4
        BY <1>12, NetworkFacts
      <4>2. Empty \notin Host!IPv4
        BY DEF Host!HostsAreIPv4
      <4>3. QED
        BY <4>1, <4>2
    <3> HIDE DEF network
    <3>3. QED
      BY <1>13, <2>3, <3>1, <3>2
  <2>4. CASE bcast_host \notin {Unset, Empty}
    BY <2>4 DEF Host!PythonHost
  <2>5. QED
    BY <2>2, <2>3, <2>4
<1>15. Host!PythonPort = Host!DZMQ_DISC_PORT <=> bcast_port \in {Unset, Host!DZMQ_DISC_PORT}
  BY DEF Host!PythonPort
<1> HIDE DEF network
<1>16. \A a, b, p, q, r : Host!Choice(a, b, p) = Host!Choice(a, q, r) <=> b = q /\ p = r
  BY DEF Host!Choice
<1>17. \A a, b, p : /\ Host!Choice(a, b, p).address = a /\ Host!Choice(a, b, p).broadcast = b
                    /\ Host!Choice(a, b, p).port = p
  BY DEF Host!Choice
<1>18. QED
  BY <1>8, <1>11, <1>14, <1>15, <1>16, <1>17

\* HostInv holds in every reachable state; with it, whatever interfaces there
\* are and in whatever order, the C++ node takes the best address,
THEOREM BestIsTaken == Host!Spec => []BestAddressIsChosen
<1>. Host!HostsAreIPv4
  BY NetworkAssumption
<1>1. Host!Init => HostInv
  BY DEF Host!Init, HostInv, Kinds, Host!BestAddressIsChosen
<1>2. HostInv /\ [Host!Next]_(Host!vars) => HostInv'
  BY HostStep
<1>3. HostInv => Host!BestAddressIsChosen
  BY DEF HostInv
<1>4. QED
  BY <1>1, <1>2, <1>3, PTL DEF Host!Spec, BestAddressIsChosen

\* and C and Python nodes choose the same network, unless the environment of the
\* Python node names another.
THEOREM NetworkIsShared == Host!Spec => []CAndPythonShareANetwork
<1>. Host!HostsAreIPv4
  BY NetworkAssumption
<1>1. Host!Init => HostInv
  BY DEF Host!Init, HostInv, Kinds, Host!BestAddressIsChosen
<1>2. HostInv /\ [Host!Next]_(Host!vars) => HostInv'
  BY HostStep
<1>3. HostInv => Host!CAndPythonShareANetwork
  <2>1. (/\ HostInv /\ chosen["c"] # Unset) =>
           ifaddrs \in Interfaces /\ bcast_host \in BcastHosts
    BY DEF HostInv, Kinds
  <2>2. QED
    BY <2>1, SameChoice DEF HostInv, Host!CAndPythonShareANetwork, Host!HostsAreIPv4
<1>4. QED
  BY <1>1, <1>2, <1>3, PTL DEF Host!Spec, CAndPythonShareANetwork

-----------------------------------------------------------------------------
(* The checksum of an IP header                                            *)

\* Swapping the bytes of a word gives a word, and twice the same one.
LEMMA SwapFacts ==
  /\ \A x \in Nat : Net!Net16(x) \in Nat /\ Net!Net16(x) < 65536
  /\ \A x \in Nat : x < 65536 => Net!Net16(Net!Net16(x)) = x
<1>1. \A x \in Nat : /\ x % 256 \in Nat /\ x % 256 < 256
                     /\ (x \div 256) % 256 \in Nat /\ (x \div 256) % 256 < 256
  BY SMT
<1>2. \A a, b \in Nat : (a < 256 /\ b < 256) =>
        /\ a * 256 + b \in Nat /\ a * 256 + b < 65536
        /\ (a * 256 + b) % 256 = b /\ (a * 256 + b) \div 256 = a
        /\ a % 256 = a
  BY SMT
<1>3. \A x \in Nat : x < 65536 => x = (x \div 256) * 256 + (x % 256) /\ x \div 256 < 256
  BY SMT
<1>4. ASSUME NEW x \in Nat PROVE Net!Net16(x) \in Nat /\ Net!Net16(x) < 65536
  <2> DEFINE a == x % 256
             b == (x \div 256) % 256
  <2>1. a \in Nat /\ b \in Nat /\ a < 256 /\ b < 256
    BY SMT, <1>1
  <2>2. Net!Net16(x) = a * 256 + b
    BY SMT DEF Net!Net16, Net!nnet_swap16
  <2> HIDE DEF a, b
  <2>3. QED
    BY SMT, <1>2, <2>1, <2>2
<1>5. ASSUME NEW x \in Nat, x < 65536 PROVE Net!Net16(Net!Net16(x)) = x
  <2> DEFINE a == x % 256
             b == x \div 256
  <2>1. a \in Nat /\ b \in Nat /\ a < 256 /\ b < 256 /\ x = b * 256 + a
    BY SMT, <1>1, <1>3, <1>5
  <2>2. b % 256 = b
    <3> HIDE DEF a, b
    <3>1. QED
      BY SMT, <1>2, <2>1
  <2>3. Net!Net16(x) = a * 256 + b
    BY SMT, <2>2 DEF Net!Net16, Net!nnet_swap16
  <2> HIDE DEF a, b
  <2> DEFINE y == a * 256 + b
  <2>4. y % 256 = b /\ y \div 256 = a /\ a % 256 = a
    BY SMT, <1>2, <2>1
  <2> HIDE DEF y
  <2>5. Net!Net16(y) = b * 256 + a
    BY SMT, <2>4 DEF Net!Net16, Net!nnet_swap16
  <2>6. QED
    BY SMT, <2>1, <2>3, <2>5 DEF y
<1>6. QED
  BY SMT, <1>4, <1>5

\* The checksum for a sum of words, and whether its carry carries only once;
\* the greatest sum of ten words.
MaxSum == 655350
Complement(sum) == 65535 - ((sum + (sum \div 65536)) % 65536)
CarriesOnce(sum) == (sum % 65536) + (sum \div 65536) < 65536

\* What insert_checksum writes for a sum of ten words is right unless adding
\* the carry makes another.
LEMMA FoldedSum ==
  ASSUME NEW sum \in Nat, sum <= MaxSum
  PROVE  /\ Complement(sum) \in Nat /\ Complement(sum) < Net!Word
         /\ (Net!Folded(sum + Complement(sum)) = Net!Word - 1) <=> CarriesOnce(sum)
<1> DEFINE checksum == Complement(sum)
           low == sum % 65536
           high == sum \div 65536
<1>1. low \in Nat /\ low < 65536 /\ high \in 0..9 /\ sum = 65536 * high + low
  BY SMT DEF MaxSum
<1>2. /\ checksum = 65535 - ((sum + high) % 65536)
      /\ CarriesOnce(sum) <=> low + high < 65536
  BY SMT DEF Complement, CarriesOnce
<1> HIDE DEF low, high, checksum
<1>3. CASE low + high < 65536
  <2>1. sum + high = 65536 * high + (low + high)
    BY SMT, <1>1
  <2>2. (sum + high) % 65536 = low + high
    BY SMT, <1>1, <1>3, <2>1
  <2>3. checksum = 65535 - (low + high)
    BY SMT, <1>2, <2>2
  <2> DEFINE total == sum + checksum
  <2>4. total = 65536 * high + (65535 - high)
    BY SMT, <1>1, <2>3
  <2> HIDE DEF total
  <2>5. total % 65536 = 65535 - high /\ total \div 65536 = high
    BY SMT, <1>1, <2>4
  <2>6. Net!Folded(total) = 65535
    <3> DEFINE once == (total % 65536) + (total \div 65536)
    <3>1. once = 65535
      BY SMT, <1>1, <2>5
    <3>2. Net!Folded(total) = (once % 65536) + (once \div 65536)
      BY SMT DEF Net!Folded, Net!Word
    <3> HIDE DEF once
    <3>3. QED
      BY SMT, <3>1, <3>2
  <2>7. QED
    BY SMT, <1>1, <1>2, <1>3, <2>3, <2>6 DEF total, checksum, Net!Word
<1>4. CASE ~(low + high < 65536)
  <2>1. sum + high = 65536 * (high + 1) + (low + high - 65536)
    BY SMT, <1>1
  <2>2. (sum + high) % 65536 = low + high - 65536
    BY SMT, <1>1, <1>4, <2>1
  <2>3. checksum = 65535 - (low + high - 65536)
    BY SMT, <1>2, <2>2
  <2> DEFINE total == sum + checksum
  <2>4. total = 65536 * (high + 1) + (65535 - high)
    BY SMT, <1>1, <2>3
  <2> HIDE DEF total
  <2>5. total % 65536 = 65535 - high /\ total \div 65536 = high + 1
    BY SMT, <1>1, <2>4
  <2>6. Net!Folded(total) = 1
    <3> DEFINE once == (total % 65536) + (total \div 65536)
    <3>1. once = 65536
      BY SMT, <1>1, <2>5
    <3>2. Net!Folded(total) = (once % 65536) + (once \div 65536)
      BY SMT DEF Net!Folded, Net!Word
    <3> HIDE DEF once
    <3>3. QED
      BY SMT, <3>1, <3>2
  <2>7. QED
    BY SMT, <1>1, <1>2, <1>4, <2>3, <2>6 DEF total, checksum, Net!Word
<1>5. QED
  BY SMT, <1>3, <1>4

\* The words of a header without that of its checksum.
OtherWords(f) ==
  LET w == Net!HeaderWords(f) IN
  w[1] + w[2] + w[3] + w[4] + w[5] + w[7] + w[8] + w[9] + w[10]

\* They are nine words, and the checksum is the tenth.
LEMMA SumOfWords ==
  ASSUME NEW f \in Net!Frame
  PROVE  /\ OtherWords(f) \in Nat /\ OtherWords(f) <= 589815
         /\ Net!Total(Net!HeaderWords(f)) = OtherWords(f) + Net!Net16(f.checksum)
         /\ Net!Net16(f.checksum) \in Nat /\ Net!Net16(f.checksum) < 65536
<1> DEFINE w == Net!HeaderWords(f)
<1>1. /\ f.len \in Nat /\ f.flag_frag \in Nat /\ f.proto \in 0..255 /\ f.checksum \in Nat
      /\ f.source_addr[1] \in Nat /\ f.source_addr[2] \in Nat
      /\ f.dest_addr[1] \in Nat /\ f.dest_addr[2] \in Nat
  <2>1. 0..(Net!Word - 1) \subseteq Nat
    BY SMT DEF Net!Word
  <2> DEFINE W == 0..(Net!Word - 1)
  <2>2. /\ f.len \in W /\ f.flag_frag \in W /\ f.proto \in 0..255 /\ f.checksum \in W
        /\ f.source_addr \in [1..2 -> W] /\ f.dest_addr \in [1..2 -> W]
    BY SMT DEF Net!Frame
  <2> HIDE DEF W
  <2>3. W \subseteq Nat
    BY <2>1 DEF W
  <2>4. /\ f.source_addr[1] \in W /\ f.source_addr[2] \in W
        /\ f.dest_addr[1] \in W /\ f.dest_addr[2] \in W
    <3>1. 1 \in 1..2 /\ 2 \in 1..2
      OBVIOUS
    <3>2. QED
      BY <2>2, <3>1
  <2>5. QED
    BY <2>2, <2>3, <2>4
<1>2. /\ w[1] = (4 * 16 + 5) * 256 /\ w[2] = Net!Net16(f.len) /\ w[3] = 0
      /\ w[4] = Net!Net16(f.flag_frag) /\ w[5] = 42 * 256 + f.proto
      /\ w[6] = Net!Net16(f.checksum)
      /\ w[7] = Net!Net16(f.source_addr[2]) /\ w[8] = Net!Net16(f.source_addr[1])
      /\ w[9] = Net!Net16(f.dest_addr[2]) /\ w[10] = Net!Net16(f.dest_addr[1])
  BY SMT DEF Net!HeaderWords
<1> HIDE DEF w
<1>3. \A i \in 1..10 : w[i] \in Nat /\ w[i] < 65536
  <2>1. \A i \in {2, 4, 6, 7, 8, 9, 10} : w[i] \in Nat /\ w[i] < 65536
    BY SMT, <1>1, <1>2, SwapFacts
  <2>2. \A i \in {1, 3, 5} : w[i] \in Nat /\ w[i] < 65536
    BY SMT, <1>1, <1>2
  <2>3. QED
    BY SMT, <2>1, <2>2
<1>4. Net!Total(w) = w[1] + w[2] + w[3] + w[4] + w[5] + w[6] + w[7] + w[8] + w[9] + w[10]
  BY SMT DEF Net!Total
<1>5. OtherWords(f) = w[1] + w[2] + w[3] + w[4] + w[5] + w[7] + w[8] + w[9] + w[10]
  BY SMT DEF OtherWords, w
<1>6. QED
  BY SMT, <1>2, <1>3, <1>4, <1>5 DEF w

-----------------------------------------------------------------------------
(* A name as labels, and out of them                                       *)

\* The name from a place on, if f has it from each later place on.
TextAt(data, f, at) ==
  LET after == at + 1 + data[at] IN
  IF data[at] = 0 \/ after > Len(data) THEN <<>>
  ELSE SubSeq(data, at + 1, at + data[at])
       \o (IF data[after] = 0 THEN <<>> ELSE <<Net!Dot>> \o f[after])

\* What NameFrom computes: it exists for the end of any data, and with a place
\* also for the place before.
LEMMA NameFromIs ==
  ASSUME NEW data \in Seq(Nat)
  PROVE  \A at \in 1..Len(data) :
            Net!NameFrom(data)[at] = TextAt(data, Net!NameFrom(data), at)
<1> DEFINE size == Len(data)
           Fills(n, f) == f = [at \in n..size |-> TextAt(data, f, at)]
           filled == {n \in 1..(size + 1) : \E f : Fills(n, f)}
<1>1. size \in Nat /\ \A at \in 1..size : data[at] \in Nat
  <2>1. \A at \in 1..size : data[at] \in Nat
    BY ElementOfSeq
  <2>2. QED
    BY <2>1
<1>2. size + 1 \in filled
  <2> DEFINE f == [at \in (size + 1)..size |-> TextAt(data, <<>>, at)]
  <2>1. (size + 1)..size = {}
    BY <1>1
  <2>2. Fills(size + 1, f)
    BY <2>1
  <2> HIDE DEF f, Fills
  <2>3. QED
    BY <1>1, <2>2
<1>3. ASSUME NEW n \in filled, n > 1
      PROVE  n - 1 \in filled
  <2>1. PICK f : Fills(n, f)
    OBVIOUS
  <2> DEFINE m == n - 1
             g == [at \in m..size |-> IF at = m THEN TextAt(data, f, m) ELSE f[at]]
  <2>2. /\ n \in Nat /\ m \in 1..size /\ m \notin n..size
        /\ \A at : at \in m..size <=> at = m \/ at \in n..size
    BY <1>1, <1>3
  <2>3. \A at \in n..size : g[at] = f[at] /\ f[at] = TextAt(data, f, at)
    <3>1. \A at \in n..size : f[at] = TextAt(data, f, at)
      BY <2>1
    <3>2. \A at \in n..size : g[at] = f[at]
      BY <2>2
    <3>3. QED
      BY <3>1, <3>2
  <2>4. g[m] = TextAt(data, f, m)
    BY <2>2
  <2>5. ASSUME NEW at \in m..size PROVE TextAt(data, g, at) = TextAt(data, f, at)
    <3> DEFINE after == at + 1 + data[at]
    <3>1. at \in 1..size /\ at \in Nat /\ data[at] \in Nat
      BY <1>1, <2>2
    <3>2. ~(after > Len(data)) => after \in n..size
      BY <1>1, <2>2, <3>1
    <3>3. ~(after > Len(data)) => g[after] = f[after]
      BY <2>3, <3>2
    <3> HIDE DEF g, after, m
    <3>4. QED
      BY <3>3 DEF TextAt, after
  <2>6. ASSUME NEW at \in m..size PROVE g[at] = TextAt(data, g, at)
    <3> HIDE DEF g
    <3>1. at = m \/ at \in n..size
      BY <2>2
    <3>2. QED
      BY <2>3, <2>4, <2>5, <3>1
  <2>7. g = [at \in m..size |-> TextAt(data, g, at)]
    <3>1. g = [at \in m..size |-> g[at]]
      OBVIOUS
    <3> HIDE DEF g
    <3>2. QED
      BY <2>6, <3>1
  <2>8. \E h : Fills(n - 1, h)
    <3> HIDE DEF g
    <3>1. Fills(m, g)
      BY <2>7
    <3> HIDE DEF Fills
    <3>2. QED
      BY <3>1
  <2> HIDE DEF Fills
  <2>9. QED
    BY <1>1, <2>2, <2>8
<1>4. 1 \in filled
  <2>1. filled \subseteq Nat /\ filled # {}
    BY <1>2
  <2> HIDE DEF filled
  <2>2. PICK n \in filled : \A m \in filled : n <= m
    BY <2>1, Least
  <2>3. n \in Nat /\ n >= 1
    BY <2>1 DEF filled
  <2>4. ~(n > 1)
    <3>1. ASSUME n > 1 PROVE FALSE
      <4>1. n - 1 \in filled
        BY <1>3, <3>1
      <4>2. n <= n - 1
        BY <2>2, <4>1
      <4>3. QED
        BY <2>3, <4>2
    <3>2. QED
      BY <3>1
  <2>5. n = 1
    BY <2>3, <2>4
  <2>6. QED
    BY <2>2, <2>5
<1>5. \E f : Fills(1, f)
  <2> HIDE DEF Fills
  <2>1. QED
    BY <1>4
<1>6. Net!NameFrom(data) = CHOOSE f : Fills(1, f)
  BY DEF Net!NameFrom, TextAt
<1>7. Fills(1, Net!NameFrom(data))
  <2> HIDE DEF Fills
  <2>1. QED
    BY <1>5, <1>6
<1>8. ASSUME NEW at \in 1..size
      PROVE  Net!NameFrom(data)[at] = TextAt(data, Net!NameFrom(data), at)
  BY <1>7
<1>9. QED
  BY <1>8

\* Where the label that begins at i ends: at a dot, or behind the name.
EndsOf(str, i) == {j \in i..(Len(str) + 1) : j = Len(str) + 1 \/ str[j] = Net!Dot}
IsStart(str, i) == i = 1 \/ str[i - 1] = Net!Dot

\* A label ends at the first dot from its beginning on, or with the name.
LEMMA EndOfLabel ==
  ASSUME NEW str \in Seq(1..255), NEW i \in 1..(Len(str) + 1)
  PROVE  /\ Min(EndsOf(str, i)) \in i..(Len(str) + 1)
         /\ \/ Min(EndsOf(str, i)) = Len(str) + 1
            \/ str[Min(EndsOf(str, i))] = Net!Dot
         /\ \A j \in i..(Min(EndsOf(str, i)) - 1) : str[j] # Net!Dot
<1> DEFINE n == Len(str)
           ends == EndsOf(str, i)
<1>1. n \in Nat /\ n + 1 \in i..(n + 1) /\ i..(n + 1) \subseteq Nat
  OBVIOUS
<1>2. ends \subseteq i..(n + 1) /\ n + 1 \in ends /\ ends \subseteq Nat
  BY <1>1 DEF EndsOf
<1>3. Min(ends) \in ends /\ \A j \in ends : Min(ends) <= j
  <2> HIDE DEF ends
  <2>1. QED
    BY <1>2, MinFacts
<1>4. \A j \in i..(n + 1) : j \in ends <=> j = n + 1 \/ str[j] = Net!Dot
  BY DEF EndsOf
<1> DEFINE e == Min(ends)
<1>5. e \in ends /\ \A j \in ends : e <= j
  BY <1>3
<1> HIDE DEF ends, e
<1>6. e \in i..(n + 1) /\ (e = n + 1 \/ str[e] = Net!Dot)
  BY <1>2, <1>4, <1>5
<1>7. ASSUME NEW j \in i..(e - 1) PROVE str[j] # Net!Dot
  <2>1. j \in i..(n + 1) /\ j < e /\ j # n + 1
    BY <1>1, <1>6
  <2>2. j \notin ends
    BY <1>1, <1>5, <1>6, <2>1
  <2>3. QED
    BY <1>4, <2>1, <2>2
<1>8. QED
  BY <1>6, <1>7 DEF e, ends

\* The bytes of the labels of a name.
LEMMA LabelsAre ==
  ASSUME NEW str \in Seq(1..255)
  PROVE  /\ Net!Labels(str) = [i \in 1..(Len(str) + 1) |-> Net!Labels(str)[i]]
         /\ \A i \in 1..(Len(str) + 1) :
              Net!Labels(str)[i] =
                IF IsStart(str, i) THEN (Min(EndsOf(str, i)) - i) % 256 ELSE str[i - 1]
<1> DEFINE n == Len(str)
           text == str \o <<Net!Dot>>
<1>1. n \in Nat /\ Net!Dot = 46
  BY DEF Net!Dot
<1>2. \A j \in 1..(n + 1) : text[j] = IF j = n + 1 THEN Net!Dot ELSE str[j]
  <2>1. <<46>> \in Seq(Nat) /\ str \in Seq(Nat) /\ Len(<<46>>) = 1 /\ <<46>>[1] = 46
    <3>1. 1..255 \subseteq Nat
      OBVIOUS
    <3>2. str \in Seq(Nat)
      BY <3>1, SeqMonotonic
    <3>3. QED
      BY <3>2
  <2> DEFINE dot == <<46>>
  <2> HIDE DEF dot
  <2>2. \A j \in 1..(n + 1) : (str \o dot)[j] = IF j <= n THEN str[j] ELSE dot[j - n]
    BY <2>1, ConcatProperties DEF dot
  <2>3. \A j \in 1..(n + 1) : (j <= n => j # n + 1) /\ (~(j <= n) => j = n + 1 /\ j - n = 1)
    BY <1>1
  <2>4. QED
    BY <1>1, <2>1, <2>2, <2>3 DEF dot
<1>3. ASSUME NEW i \in 1..(n + 1)
      PROVE  {j \in i..(n + 1) : text[j] = Net!Dot} = EndsOf(str, i)
  <2>1. i..(n + 1) \subseteq 1..(n + 1)
    BY <1>1
  <2> HIDE DEF text
  <2>2. QED
    BY <1>2, <2>1 DEF EndsOf
<1>4. ASSUME NEW i \in 1..(n + 1) PROVE EndsOf(str, i) # {}
  BY <1>1 DEF EndsOf
<1> DEFINE from(i) == LET I == {j \in i..(n + 1) : text[j] = Net!Dot}
                      IN  IF I # {} THEN Min(I) ELSE 0
<1>5. Net!Labels(str) = [i \in 1..(n + 1) |->
         IF IsStart(str, i) THEN (from(i) - i) % 256 ELSE str[i - 1]]
  BY DEF Net!Labels, Net!SelectInSubSeq, Net!Min, Min, IsStart
<1>6. ASSUME NEW i \in 1..(n + 1) PROVE from(i) = Min(EndsOf(str, i))
  <2> HIDE DEF text
  <2>1. QED
    BY <1>3, <1>4
<1> HIDE DEF from, text
<1>7. QED
  BY <1>5, <1>6

\* What a query for a name carries.
QueryData(str) == Net!Labels(str) \o <<0, 0, 1, 0, 1>>

\* It is bytes: those of the labels, and a null behind them.
LEMMA QueryDataIs ==
  ASSUME NEW str \in Seq(1..255)
  PROVE  /\ QueryData(str) \in Seq(0..255) /\ Len(QueryData(str)) = Len(str) + 6
         /\ \A i \in 1..(Len(str) + 1) : QueryData(str)[i] = Net!Labels(str)[i]
         /\ QueryData(str)[Len(str) + 2] = 0
<1> DEFINE n == Len(str)
           labels == Net!Labels(str)
           tail == <<0, 0, 1, 0, 1>>
<1>1. n \in Nat /\ \A i \in 1..n : str[i] \in 0..255
  <2>1. \A i \in 1..n : str[i] \in 1..255
    BY ElementOfSeq
  <2>2. QED
    BY <2>1
<1>2. labels \in Seq(0..255) /\ Len(labels) = n + 1
  <2>1. ASSUME NEW i \in 1..(n + 1) PROVE labels[i] \in 0..255
    <3>1. CASE IsStart(str, i)
      <4>1. Min(EndsOf(str, i)) \in i..(n + 1)
        BY EndOfLabel
      <4> DEFINE e == Min(EndsOf(str, i))
      <4>2. e - i \in Nat
        BY <1>1, <4>1
      <4> HIDE DEF e
      <4> DEFINE d == e - i
      <4>3. d % 256 \in 0..255
        <5>1. d \in Nat
          BY <4>2
        <5> HIDE DEF d
        <5>2. QED
          BY SMT, <5>1
      <4>4. labels[i] = (e - i) % 256
        BY <3>1, LabelsAre DEF e
      <4>5. QED
        BY <4>3, <4>4
    <3>2. CASE ~IsStart(str, i)
      <4>1. labels[i] = str[i - 1] /\ i # 1
        BY <3>2, LabelsAre DEF IsStart
      <4>2. i - 1 \in 1..n
        BY <1>1, <4>1
      <4>3. QED
        BY <1>1, <4>1, <4>2
    <3>3. QED
      BY <3>1, <3>2
  <2>2. labels = [i \in 1..(n + 1) |-> labels[i]]
    BY LabelsAre
  <2> DEFINE S == 0..255
         m == n + 1
  <2> HIDE DEF labels, S
  <2>3. labels \in [1..m -> S]
    BY <2>1, <2>2 DEF S
  <2>4. m \in Nat
    BY <1>1
  <2> HIDE DEF m
  <2>5. labels \in Seq(S) /\ Len(labels) = m
    BY <2>3, <2>4, FunctionIsSeq
  <2>6. QED
    BY <2>5 DEF S, m
<1>3. /\ tail \in Seq(0..255) /\ Len(tail) = 5 /\ tail[1] = 0
  OBVIOUS
<1> HIDE DEF labels, tail
<1>4. /\ labels \o tail \in Seq(0..255) /\ Len(labels \o tail) = Len(labels) + Len(tail)
      /\ \A i \in 1..(Len(labels) + Len(tail)) :
            (labels \o tail)[i] = IF i <= Len(labels) THEN labels[i] ELSE tail[i - Len(labels)]
  <2> DEFINE S == 0..255
  <2>1. labels \in Seq(S) /\ tail \in Seq(S)
    BY <1>2, <1>3
  <2> HIDE DEF S
  <2>2. /\ labels \o tail \in Seq(S) /\ Len(labels \o tail) = Len(labels) + Len(tail)
        /\ \A i \in 1..(Len(labels) + Len(tail)) :
              (labels \o tail)[i] = IF i <= Len(labels) THEN labels[i] ELSE tail[i - Len(labels)]
    BY ONLY <2>1, ConcatProperties
  <2>3. QED
    BY <2>2 DEF S
<1>5. QueryData(str) = labels \o tail
  BY DEF QueryData, labels, tail
<1> DEFINE data == QueryData(str)
<1>6. /\ data \in Seq(0..255) /\ Len(data) = n + 6
      /\ \A i \in 1..(n + 6) : data[i] = IF i <= n + 1 THEN labels[i] ELSE tail[i - (n + 1)]
  BY <1>1, <1>2, <1>3, <1>4, <1>5
<1> HIDE DEF data
<1>7. /\ \A i \in 1..(n + 1) : data[i] = labels[i]
      /\ data[n + 2] = 0
  <2>1. \A i \in 1..(n + 1) : i \in 1..(n + 6) /\ i <= n + 1
    BY <1>1
  <2>2. n + 2 \in 1..(n + 6) /\ ~(n + 2 <= n + 1) /\ (n + 2) - (n + 1) = 1
    BY <1>1
  <2>3. QED
    BY <1>3, <1>6, <2>1, <2>2
<1>8. QED
  BY <1>6, <1>7 DEF data, labels

\* A name of labels that are not empty and fit comes out of a query from each
\* place on where a label begins.
LEMMA NameComesOut ==
  ASSUME NEW str \in Seq(1..255), ~Net!HasEmptyLabel(str), Net!LabelsFit(str)
  PROVE  Net!NameIn(QueryData(str)) = str
<1> DEFINE n == Len(str)
           data == QueryData(str)
           text == Net!NameFrom(data)
           rest(i) == SubSeq(str, i, n)
           end(i) == Min(EndsOf(str, i))
<1>1. /\ n \in Nat /\ data \in Seq(Nat) /\ Len(data) = n + 6
      /\ \A i \in 1..(n + 1) : data[i] = Net!Labels(str)[i]
      /\ data[n + 2] = 0
      /\ \A i \in 1..n : str[i] \in 1..255 /\ str[i] \in Nat
  <2>1. 0..255 \subseteq Nat
    OBVIOUS
  <2>2. data \in Seq(Nat)
    BY <2>1, QueryDataIs, SeqMonotonic
  <2>3. \A i \in 1..n : str[i] \in 1..255 /\ str[i] \in Nat
    <3>1. \A i \in 1..n : str[i] \in 1..255
      BY ElementOfSeq
    <3>2. 1..255 \subseteq Nat
      OBVIOUS
    <3>3. QED
      BY <3>1, <3>2
  <2>4. n \in Nat
    OBVIOUS
  <2>5. QED
    BY <2>2, <2>3, <2>4, QueryDataIs
<1>2. \A at \in 1..(n + 6) : text[at] = TextAt(data, text, at)
  <2> HIDE DEF data
  <2>1. QED
    BY <1>1, NameFromIs
<1>3. ASSUME NEW i \in 1..(n + 1), IsStart(str, i)
      PROVE  /\ end(i) \in (i + 1)..(n + 1) /\ i <= n /\ data[i] = end(i) - i
             /\ end(i) = n + 1 \/ str[end(i)] = Net!Dot
             /\ \A j \in i..(end(i) - 1) : str[j] # Net!Dot
  <2>1. /\ end(i) \in i..(n + 1)
        /\ end(i) = n + 1 \/ str[end(i)] = Net!Dot
        /\ \A j \in i..(end(i) - 1) : str[j] # Net!Dot
    BY EndOfLabel
  <2>2. i # n + 1 /\ str[i] # Net!Dot
    BY <1>3 DEF Net!HasEmptyLabel, IsStart
  <2>3. data[i] = (end(i) - i) % 256
    BY <1>1, <1>3, LabelsAre
  <2> HIDE DEF end
  <2>4. end(i) # i
    BY <2>1, <2>2
  <2>5. end(i) - i < 256
    <3> SUFFICES ASSUME ~(end(i) - i < 256) PROVE FALSE
      OBVIOUS
    <3>1. i \in 1..(n - 255)
      BY <1>1, <2>1
    <3>2. PICK j \in i..(i + 255) : str[j] = Net!Dot
      BY <3>1 DEF Net!LabelsFit
    <3>3. j \in i..(end(i) - 1)
      BY <1>1, <2>1
    <3>4. QED
      BY <2>1, <3>2, <3>3
  <2>6. (end(i) - i) % 256 = end(i) - i
    <3> DEFINE d == end(i) - i
    <3>1. d \in Nat /\ d < 256
      BY <1>1, <2>1, <2>5
    <3> HIDE DEF d
    <3>2. d % 256 = d
      BY SMT, <3>1
    <3>3. QED
      BY <3>2 DEF d
  <2>7. QED
    BY <1>1, <2>1, <2>2, <2>3, <2>4, <2>6
<1>4. ASSUME NEW i \in 1..(n + 1), IsStart(str, i),
             (end(i) # n + 1) => text[end(i) + 1] = rest(end(i) + 1)
      PROVE  text[i] = rest(i)
  <2> DEFINE e == end(i)
             after == i + 1 + data[i]
  <2>1. /\ e \in (i + 1)..(n + 1) /\ i <= n /\ data[i] = e - i
        /\ e = n + 1 \/ str[e] = Net!Dot
        /\ \A j \in i..(e - 1) : str[j] # Net!Dot
        /\ i \in Nat /\ e \in Nat
    <3>1. /\ e \in (i + 1)..(n + 1) /\ i <= n /\ data[i] = e - i
          /\ e = n + 1 \/ str[e] = Net!Dot
          /\ \A j \in i..(e - 1) : str[j] # Net!Dot
      BY <1>3, <1>4
    <3> HIDE DEF e
    <3>2. QED
      BY <1>1, <3>1
  <2>2. e # n + 1 => text[e + 1] = rest(e + 1)
    BY <1>4
  <2> HIDE DEF e, data, text
  <2>3. after = e + 1 /\ data[i] # 0 /\ ~(after > Len(data)) /\ i \in 1..(n + 6)
    BY <1>1, <2>1
  <2>4. SubSeq(data, i + 1, i + data[i]) = SubSeq(str, i, e - 1)
    <3>1. i + data[i] = e /\ i + 1 \in Int /\ e \in Int /\ i \in Int /\ e - 1 \in Int
      BY <2>1
    <3>2. ASSUME NEW j \in (i + 1)..e PROVE data[j] = str[j - 1] /\ data[j] \in Nat
      <4>1. j \in 1..(n + 1) /\ j - 1 \in i..(e - 1) /\ j # 1
        BY <1>1, <2>1
      <4>2. ~IsStart(str, j)
        BY <2>1, <4>1 DEF IsStart
      <4>3. j - 1 \in 1..n
        BY <1>1, <2>1, <4>1
      <4>4. data[j] = Net!Labels(str)[j] /\ Net!Labels(str)[j] = str[j - 1]
        BY <1>1, <4>1, <4>2, LabelsAre
      <4>5. str[j - 1] \in Nat
        BY <1>1, <4>3
      <4>6. QED
        BY <4>4, <4>5
    <3>3. /\ SubSeq(data, i + 1, e) \in Seq(Nat)
          /\ Len(SubSeq(data, i + 1, e)) = e - i
          /\ \A k \in 1..(e - i) : SubSeq(data, i + 1, e)[k] = data[i + k]
      <4>1. \A k \in (i + 1)..e : data[k] \in Nat
        BY <3>2
      <4>2. /\ SubSeq(data, i + 1, e) \in Seq(Nat)
            /\ Len(SubSeq(data, i + 1, e)) = IF i + 1 <= e THEN e - (i + 1) + 1 ELSE 0
            /\ \A k \in 1..(e - (i + 1) + 1) : SubSeq(data, i + 1, e)[k] = data[(i + 1) + k - 1]
        BY <3>1, <4>1, SubSeqProperties
      <4>3. e - (i + 1) + 1 = e - i /\ i + 1 <= e /\ \A k \in 1..(e - i) : (i + 1) + k - 1 = i + k
        BY <2>1
      <4>4. QED
        BY <4>2, <4>3
    <3>4. /\ SubSeq(str, i, e - 1) \in Seq(Nat)
          /\ Len(SubSeq(str, i, e - 1)) = e - i
          /\ \A k \in 1..(e - i) : SubSeq(str, i, e - 1)[k] = str[i + k - 1]
      <4>1. ASSUME NEW k \in i..(e - 1) PROVE str[k] \in Nat
        <5>1. k \in 1..n
          BY <1>1, <2>1
        <5>2. QED
          BY <1>1, <5>1
      <4>2. /\ SubSeq(str, i, e - 1) \in Seq(Nat)
            /\ Len(SubSeq(str, i, e - 1)) = IF i <= e - 1 THEN (e - 1) - i + 1 ELSE 0
            /\ \A k \in 1..((e - 1) - i + 1) : SubSeq(str, i, e - 1)[k] = str[i + k - 1]
        BY <3>1, <4>1, SubSeqProperties
      <4>3. (e - 1) - i + 1 = e - i /\ i <= e - 1
        BY <2>1
      <4>4. QED
        BY <4>2, <4>3
    <3>5. \A k \in 1..(e - i) : SubSeq(data, i + 1, e)[k] = SubSeq(str, i, e - 1)[k]
      <4>1. \A k \in 1..(e - i) : i + k \in (i + 1)..e /\ (i + k) - 1 = i + k - 1
        BY <2>1
      <4>2. QED
        BY <3>2, <3>3, <3>4, <4>1
    <3>6. SubSeq(data, i + 1, e) = SubSeq(str, i, e - 1)
      <4> DEFINE there == SubSeq(data, i + 1, e)
                 here  == SubSeq(str, i, e - 1)
      <4>1. /\ there \in Seq(Nat) /\ here \in Seq(Nat) /\ Len(there) = Len(here)
            /\ \A k \in 1..Len(there) : there[k] = here[k]
        BY <3>3, <3>4, <3>5
      <4> HIDE DEF there, here
      <4>2. there = here
        BY ONLY <4>1, SeqEqual
      <4>3. QED
        BY <4>2 DEF there, here
    <3>7. QED
      BY <3>1, <3>6
  <2>5. text[i] = SubSeq(str, i, e - 1)
                  \o (IF data[e + 1] = 0 THEN <<>> ELSE <<Net!Dot>> \o text[e + 1])
    BY <1>2, <2>3, <2>4 DEF TextAt
  <2>6. CASE e = n + 1
    <3>1. data[e + 1] = 0 /\ e - 1 = n
      BY <1>1, <2>6
    <3>2. text[i] = SubSeq(str, i, n) \o <<>>
      BY <2>5, <3>1
    <3>3. SubSeq(str, i, n) \in Seq(1..255)
      BY <1>1, <2>1
    <3>4. QED
      BY <3>2, <3>3, ConcatEmptySeq
  <2>7. CASE e # n + 1
    <3>1. e \in 1..n /\ str[e] = Net!Dot /\ e + 1 \in 1..(n + 1) /\ (e + 1) - 1 = e
      <4>1. e \in 1..n
        <5>1. n \in Nat /\ i \in Nat /\ i >= 1 /\ e \in (i + 1)..(n + 1)
          BY <1>1, <2>1
        <5> HIDE DEF n
        <5>2. QED
          BY <2>7, <5>1
      <4>2. str[e] = Net!Dot
        BY <2>1, <2>7
      <4>3. e + 1 \in 1..(n + 1) /\ (e + 1) - 1 = e
        BY <1>1, <4>1
      <4>4. QED
        BY <4>1, <4>2, <4>3
    <3>2. IsStart(str, e + 1)
      BY <3>1 DEF IsStart
    <3>3. data[e + 1] # 0
      <4>1. end(e + 1) \in (e + 2)..(n + 1) /\ data[e + 1] = end(e + 1) - (e + 1)
        BY <1>3, <3>1, <3>2 DEF data
      <4> HIDE DEF end
      <4>2. QED
        BY <1>1, <2>1, <4>1
    <3>4. text[i] = SubSeq(str, i, e - 1) \o (<<str[e]>> \o SubSeq(str, e + 1, n))
      BY <2>2, <2>5, <2>7, <3>1, <3>3
    <3>5. <<str[e]>> \o SubSeq(str, e + 1, n) = SubSeq(str, e, n)
      <4>1. n \in e..n
        BY <1>1, <2>1, <3>1
      <4>2. QED
        BY <3>1, <4>1, SubSeqRecursiveFirst
    <3>6. SubSeq(str, i, e - 1) \o SubSeq(str, e, n) = SubSeq(str, i, n)
      <4>1. i \in 1..(n + 1) /\ e - 1 \in (i - 1)..n /\ n \in (e - 1)..n /\ (e - 1) + 1 = e
        BY <1>1, <2>1, <3>1
      <4>2. QED
        BY <4>1, ConcatAdjacentSubSeq
    <3>7. QED
      BY <3>4, <3>5, <3>6
  <2>8. QED
    BY <2>6, <2>7
<1>5. \A i \in 1..(n + 1) : IsStart(str, i) => text[i] = rest(i)
  <2> DEFINE Wrong(i) == i \in 1..(n + 1) /\ IsStart(str, i) /\ text[i] # rest(i)
             wrong == {k \in 0..n : Wrong(n + 1 - k)}
  <2>1. wrong = {}
    <3> SUFFICES ASSUME wrong # {} PROVE FALSE
      OBVIOUS
    <3>1. wrong \subseteq Nat
      BY <1>1
    <3>2. PICK k \in wrong : \A m \in wrong : k <= m
      <4> HIDE DEF wrong
      <4>1. QED
        BY <3>1, Least
    <3> DEFINE i == n + 1 - k
    <3>3. k \in 0..n /\ Wrong(i)
      BY <3>2
    <3>4. i \in 1..(n + 1) /\ IsStart(str, i) /\ text[i] # rest(i)
      BY <3>3
    <3>5. end(i) \in (i + 1)..(n + 1) /\ (end(i) = n + 1 \/ str[end(i)] = Net!Dot)
      <4> HIDE DEF i, text, data
      <4>1. QED
        BY <1>3, <3>4
    <3> DEFINE e == end(i)
               m == n + 1 - (e + 1)
    <3>6. e # n + 1 => /\ e \in 1..n /\ m \in 0..n /\ m < k /\ n + 1 - m = e + 1
                       /\ e + 1 \in 1..(n + 1) /\ (e + 1) - 1 = e
      <4> HIDE DEF e
      <4>1. e \in (i + 1)..(n + 1)
        BY <3>5 DEF e
      <4>2. n \in Nat /\ k \in Nat /\ k <= n
        BY <1>1, <3>3
      <4> HIDE DEF n
      <4>3. QED
        BY <4>1, <4>2
    <3>7. e # n + 1 => text[e + 1] = rest(e + 1)
      <4> SUFFICES ASSUME e # n + 1 PROVE text[e + 1] = rest(e + 1)
        OBVIOUS
      <4>1. IsStart(str, e + 1)
        BY <3>5, <3>6 DEF IsStart
      <4>2. m \notin wrong
        <5> HIDE DEF wrong
        <5>1. m \in wrong => k <= m
          BY <3>2
        <5>2. k \in Nat /\ m \in Nat
          BY <1>1, <3>1, <3>2, <3>6
        <5> HIDE DEF m
        <5>3. QED
          BY <3>6, <5>1, <5>2
      <4>3. ~Wrong(n + 1 - m)
        <5> HIDE DEF Wrong, m, e
        <5>1. QED
          BY <3>6, <4>2
      <4> HIDE DEF e, m, text, i
      <4>4. ~Wrong(e + 1)
        BY <3>6, <4>3
      <4>5. QED
        BY <3>6, <4>1, <4>4
    <3>8. text[i] = rest(i)
      <4> HIDE DEF i, text
      <4>1. QED
        BY <1>4, <3>4, <3>7 DEF e
    <3>9. QED
      BY <3>4, <3>8
  <2>2. ASSUME NEW i \in 1..(n + 1) PROVE ~Wrong(i)
    <3>1. n + 1 - i \in 0..n /\ n + 1 - (n + 1 - i) = i
      BY <1>1
    <3> HIDE DEF Wrong
    <3>2. n + 1 - i \notin wrong
      BY <2>1
    <3>3. QED
      BY <3>1, <3>2
  <2> HIDE DEF text
  <2>3. QED
    BY <2>2
<1>6. Net!NameIn(data) = rest(1)
  <2>1. 1 \in 1..(n + 1) /\ IsStart(str, 1)
    BY <1>1 DEF IsStart
  <2>2. text[1] = rest(1)
    <3> HIDE DEF text
    <3>1. QED
      BY <1>5, <2>1
  <2>3. QED
    BY <2>2 DEF Net!NameIn
<1>7. rest(1) = str
  BY SubSeqFull
<1>8. QED
  BY <1>6, <1>7

-----------------------------------------------------------------------------
(* What a query does                                                       *)

\* The part of a name that a frame has room for, and the frame of a query.
Asked(q) == SubSeq(q, 1, Net!nnet_strlen(q, Net!TxSize - 40))
Sent(q) ==
  [Net!nnet_udp_init_header(Net!MdnsMac, Net!MdnsIp, Net!MdnsPort,
      Net!MdnsHeader - Net!UdpHeader + Net!nnet_strlen(q, Net!TxSize - 40) + 2 + 4)
   EXCEPT !.qdcount = Net!Net16(1),
          !.data = Net!Labels(Asked(q)) \o <<0, 0, 1, 0, 1>>]

\* A checksum as nnet_ip_insert_checksum finds it for a header.
Inserted(f) ==
  Complement(Net!Total(Net!HeaderWords([f EXCEPT !.checksum = 0])))

\* What of a name is asked: all of it if there is room.
LEMMA AskedIs ==
  ASSUME NEW q \in Seq(1..255)
  PROVE  /\ Asked(q) \in Seq(1..255)
         /\ Len(Asked(q)) = Net!nnet_strlen(q, Net!TxSize - 40)
         /\ Len(Asked(q)) \in Nat /\ Len(Asked(q)) <= 472
         /\ Len(q) <= 472 => Asked(q) = q
<1> DEFINE m == Net!nnet_strlen(q, Net!TxSize - 40)
           S == 1..255
<1>1. Len(q) \in Nat /\ m \in Nat /\ m <= Len(q) /\ m <= 472 /\ (Len(q) <= 472 => m = Len(q))
  <2> DEFINE l == Len(q)
  <2>1. l \in Nat
    OBVIOUS
  <2>2. m = IF l < 512 - 40 THEN l ELSE 512 - 40
    BY DEF Net!nnet_strlen, Net!TxSize
  <2> HIDE DEF l, m
  <2>3. l \in Nat /\ m \in Nat /\ m <= l /\ m <= 472 /\ (l <= 472 => m = l)
    BY <2>1, <2>2
  <2>4. QED
    BY <2>3 DEF l
<1>2. q \in Seq(S) /\ \A i \in 1..Len(q) : q[i] \in S
  BY ElementOfSeq
<1> HIDE DEF m, S
<1>3. \A i \in 1..m : q[i] \in S
  BY <1>1, <1>2
<1>4. SubSeq(q, 1, m) \in Seq(S) /\ Len(SubSeq(q, 1, m)) = IF 1 <= m THEN m - 1 + 1 ELSE 0
  <2>1. 1 \in Int /\ m \in Int
    BY <1>1
  <2>2. QED
    BY <1>3, <2>1, SubSeqProperties
<1>5. SubSeq(q, 1, Len(q)) = q
  BY <1>2, SubSeqFull
<1>6. Asked(q) = SubSeq(q, 1, m)
  BY DEF Asked, m
<1>7. QED
  <2>1. Len(SubSeq(q, 1, m)) = m
    BY <1>1, <1>4
  <2>2. QED
    BY <1>1, <1>4, <1>5, <1>6, <2>1 DEF m, S

\* The fields of a query's frame, as sent.
LEMMA SentFields ==
  ASSUME NEW q \in Seq(1..255)
  PROVE  LET size == Len(Asked(q)) + 6 IN
         /\ Sent(q) = [dest_mac |-> Net!MdnsMac, ethertype |-> Net!Net16(Net!IpType),
                       len |-> Net!Net16(20 + 8 + (12 + size)),
                       flag_frag |-> Net!Net16(16384), proto |-> Net!UDP,
                       checksum |-> Sent(q).checksum,
                       source_addr |-> Net!nnet_swap32(ip),
                       dest_addr |-> Net!nnet_swap32(Net!MdnsIp),
                       dest_port |-> Net!Net16(Net!MdnsPort),
                       udp_len |-> Net!Net16(8 + (12 + size)), flags |-> 0,
                       qdcount |-> Net!Net16(1), data |-> QueryData(Asked(q))]
         /\ Sent(q).checksum = Net!Net16(Inserted(Sent(q)))
<1> DEFINE m == Net!nnet_strlen(q, Net!TxSize - 40)
           payload == Net!MdnsHeader - Net!UdpHeader + m + 2 + 4
           plain == [dest_mac |-> Net!MdnsMac, ethertype |-> Net!Net16(Net!IpType),
                     len |-> Net!Net16(20 + 8 + payload),
                     flag_frag |-> Net!Net16(16384), proto |-> Net!UDP, checksum |-> 0,
                     source_addr |-> Net!nnet_swap32(ip),
                     dest_addr |-> Net!nnet_swap32(Net!MdnsIp),
                     dest_port |-> Net!Net16(Net!MdnsPort),
                     udp_len |-> Net!Net16(8 + payload), flags |-> 0, qdcount |-> 0, data |-> <<>>]
           sum == Net!Total(Net!HeaderWords([plain EXCEPT !.checksum = 0]))
           carried == Complement(sum)
           header == [plain EXCEPT !.checksum = Net!Net16(carried)]
           written == [header EXCEPT !.qdcount = Net!Net16(1), !.data = QueryData(Asked(q))]
<1>1. payload = 12 + (Len(Asked(q)) + 6)
  <2>1. m \in Nat /\ Len(Asked(q)) = m
    BY AskedIs
  <2> HIDE DEF m
  <2>2. QED
    BY <2>1 DEF Net!MdnsHeader, Net!UdpHeader
<1>2. Net!nnet_udp_init_header(Net!MdnsMac, Net!MdnsIp, Net!MdnsPort, payload) = header
  <2>1. Net!Word - 1 - ((sum + (sum \div Net!Word)) % Net!Word) = carried
    <3> HIDE DEF sum
    <3>1. QED
      BY SMT DEF Net!Word, Complement
  <2> HIDE DEF carried, sum
  <2>2. QED
    BY <2>1 DEF Net!nnet_udp_init_header, Net!nnet_ip_insert_checksum, sum
<1>3. Sent(q) = written
  <2> HIDE DEF header
  <2>1. QED
    BY <1>2 DEF Sent, QueryData
<1> HIDE DEF payload
<1>4. Net!HeaderWords([written EXCEPT !.checksum = 0]) =
         Net!HeaderWords([plain EXCEPT !.checksum = 0])
  <2> HIDE DEF carried
  <2>1. QED
    BY DEF Net!HeaderWords
<1>5. Inserted(written) = carried
  <2> HIDE DEF written, plain
  <2>1. QED
    BY <1>4 DEF Inserted
<1> HIDE DEF carried
<1>6. written.checksum = Net!Net16(carried)
  OBVIOUS
<1> DEFINE summed == [dest_mac |-> Net!MdnsMac, ethertype |-> Net!Net16(Net!IpType),
                     len |-> Net!Net16(20 + 8 + payload),
                     flag_frag |-> Net!Net16(16384), proto |-> Net!UDP,
                     checksum |-> Net!Net16(carried),
                     source_addr |-> Net!nnet_swap32(ip), dest_addr |-> Net!nnet_swap32(Net!MdnsIp),
                     dest_port |-> Net!Net16(Net!MdnsPort),
                     udp_len |-> Net!Net16(8 + payload), flags |-> 0, qdcount |-> 0,
                     data |-> <<>>]
           counted == [dest_mac |-> Net!MdnsMac, ethertype |-> Net!Net16(Net!IpType),
                      len |-> Net!Net16(20 + 8 + payload),
                      flag_frag |-> Net!Net16(16384), proto |-> Net!UDP,
                      checksum |-> Net!Net16(carried),
                      source_addr |-> Net!nnet_swap32(ip),
                      dest_addr |-> Net!nnet_swap32(Net!MdnsIp),
                      dest_port |-> Net!Net16(Net!MdnsPort),
                      udp_len |-> Net!Net16(8 + payload), flags |-> 0, qdcount |-> Net!Net16(1),
                      data |-> <<>>]
           whole == [dest_mac |-> Net!MdnsMac, ethertype |-> Net!Net16(Net!IpType),
                    len |-> Net!Net16(20 + 8 + payload),
                    flag_frag |-> Net!Net16(16384), proto |-> Net!UDP,
                    checksum |-> Net!Net16(carried),
                    source_addr |-> Net!nnet_swap32(ip), dest_addr |-> Net!nnet_swap32(Net!MdnsIp),
                    dest_port |-> Net!Net16(Net!MdnsPort),
                    udp_len |-> Net!Net16(8 + payload), flags |-> 0, qdcount |-> Net!Net16(1),
                    data |-> QueryData(Asked(q))]
<1>7. written = whole /\ whole.checksum = Net!Net16(carried)
  <2>1. header = summed
    BY SMT
  <2>2. [summed EXCEPT !.qdcount = Net!Net16(1)] = counted
    BY SMT
  <2>3. [counted EXCEPT !.data = QueryData(Asked(q))] = whole
    BY SMT
  <2>4. whole.checksum = Net!Net16(carried)
    BY SMT
  <2> HIDE DEF header, summed, counted, whole
  <2>5. QED
    BY <2>1, <2>2, <2>3, <2>4
<1> HIDE DEF written
<1>8. QED
  BY <1>1, <1>3, <1>5, <1>6, <1>7

\* What fits into a word.
LEMMA WordFacts ==
  /\ Net!Word \in Nat /\ 0 < Net!Word /\ 57344 < Net!Word
  /\ \A x \in Nat : Net!Net16(x) \in Nat /\ Net!Net16(x) < Net!Word
  /\ \A x \in Nat : x < Net!Word => Net!Net16(Net!Net16(x)) = x
<1>1. Net!Word \in Nat /\ 0 < Net!Word /\ 57344 < Net!Word
  BY SMT DEF Net!Word
<1>2. QED
  BY SMT, <1>1, SwapFacts DEF Net!Word

\* It is a frame.
LEMMA SentIsFrame ==
  ASSUME NEW q \in Seq(1..255), ip \in [1..2 -> 0..(Net!Word - 1)]
  PROVE  Sent(q) \in Net!Frame
<1> DEFINE W == 0..(Net!Word - 1)
           size == Len(Asked(q)) + 6
           f == Sent(q)
<1>1. W \subseteq Nat /\ \A x \in Nat : x < Net!Word => x \in W
  <2>1. \A w \in Nat : /\ 0..(w - 1) \subseteq Nat
                       /\ \A x \in Nat : x < w => x \in 0..(w - 1)
    BY SMT
  <2>2. QED
    BY <2>1, WordFacts
<1> HIDE DEF W
<1>2. size \in Nat
  <2>1. Len(Asked(q)) \in Nat
    BY AskedIs
  <2>2. QED
    BY <2>1
<1>3. \A x \in Nat : Net!Net16(x) \in W
  BY <1>1, WordFacts
<1>4. ASSUME NEW x \in [1..2 -> W] PROVE Net!nnet_swap32(x) \in [1..2 -> W]
  <2>1. x[1] \in Nat /\ x[2] \in Nat
    <3>1. 1 \in 1..2 /\ 2 \in 1..2
      OBVIOUS
    <3>2. x[1] \in W /\ x[2] \in W
      BY <3>1
    <3>3. QED
      BY <1>1, <3>2
  <2> DEFINE a == Net!Net16(x[2])
             b == Net!Net16(x[1])
  <2>2. a \in W /\ b \in W
    BY <1>3, <2>1
  <2>3. Net!nnet_swap32(x) = <<a, b>>
    BY DEF Net!nnet_swap32, Net!Net16
  <2> HIDE DEF a, b
  <2>4. <<a, b>> \in [1..2 -> W]
    BY <2>2
  <2>5. QED
    BY <2>3, <2>4
<1>5. Net!nnet_swap32(Net!MdnsIp) \in [1..2 -> W] /\ Net!nnet_swap32(ip) \in [1..2 -> W]
  <2>1. Net!MdnsIp \in [1..2 -> W]
    <3> DEFINE high == 57344
               low == 251
    <3>1. Net!MdnsIp = <<high, low>>
      BY SMT DEF Net!MdnsIp
    <3>2. high \in Nat /\ high < Net!Word /\ low \in Nat /\ low < Net!Word
      BY SMT, WordFacts
    <3> HIDE DEF high, low
    <3>3. high \in W /\ low \in W
      BY <1>1, <3>2
    <3>4. QED
      BY <3>1, <3>3
  <2>2. ip \in [1..2 -> W]
    BY DEF W
  <2>3. QED
    BY <1>4, <2>1, <2>2
<1>6. Net!MdnsMac \in [1..6 -> 0..255]
  BY DEF Net!MdnsMac
<1>7. /\ Net!Net16(Net!IpType) \in W /\ Net!Net16(20 + 8 + (12 + size)) \in W
      /\ Net!Net16(16384) \in W /\ Net!Net16(Net!MdnsPort) \in W
      /\ Net!Net16(8 + (12 + size)) \in W /\ Net!Net16(1) \in W /\ 0 \in W
  <2> DEFINE frag == 16384
  <2>1. /\ Net!IpType \in Nat /\ 20 + 8 + (12 + size) \in Nat /\ frag \in Nat
        /\ Net!MdnsPort \in Nat /\ 8 + (12 + size) \in Nat /\ 1 \in Nat
    BY SMT, <1>2 DEF Net!IpType, Net!MdnsPort
  <2> HIDE DEF frag, size
  <2>2. /\ Net!Net16(Net!IpType) \in W /\ Net!Net16(20 + 8 + (12 + size)) \in W
        /\ Net!Net16(frag) \in W /\ Net!Net16(Net!MdnsPort) \in W
        /\ Net!Net16(8 + (12 + size)) \in W /\ Net!Net16(1) \in W
    BY <1>3, <2>1
  <2>3. 0 \in W
    BY <1>1, WordFacts
  <2>4. QED
    BY <2>2, <2>3 DEF frag
<1>8. Net!UDP \in 0..255
  BY DEF Net!UDP
<1>9. QueryData(Asked(q)) \in Seq(0..255)
  <2>1. Asked(q) \in Seq(1..255)
    BY AskedIs
  <2>2. QED
    BY <2>1, QueryDataIs
<1> DEFINE frag == Net!Net16(16384)
           Carrying(checksum) ==
             [dest_mac |-> Net!MdnsMac, ethertype |-> Net!Net16(Net!IpType),
              len |-> Net!Net16(20 + 8 + (12 + size)),
              flag_frag |-> frag, proto |-> Net!UDP, checksum |-> checksum,
              source_addr |-> Net!nnet_swap32(ip), dest_addr |-> Net!nnet_swap32(Net!MdnsIp),
              dest_port |-> Net!Net16(Net!MdnsPort), udp_len |-> Net!Net16(8 + (12 + size)),
              flags |-> 0, qdcount |-> Net!Net16(1), data |-> QueryData(Asked(q))]
<1>10. f = Carrying(f.checksum) /\ f.checksum = Net!Net16(Inserted(f))
  BY SentFields
<1>11. frag \in W
  BY <1>7
<1> HIDE DEF f, size, frag
<1> DEFINE macs == [1..6 -> 0..255]
           addrs == [1..2 -> W]
           bytes == Seq(0..255)
           byte == 0..255
<1>12. Net!Frame = [dest_mac : macs, ethertype : W, len : W, flag_frag : W, proto : byte,
                    checksum : W, source_addr : addrs, dest_addr : addrs, dest_port : W,
                    udp_len : W, flags : W, qdcount : W, data : bytes]
  BY DEF Net!Frame, W
<1>13. ASSUME NEW c \in W PROVE Carrying(c) \in Net!Frame
  <2>1. /\ Net!MdnsMac \in macs /\ Net!nnet_swap32(ip) \in addrs /\ Net!UDP \in byte
        /\ Net!nnet_swap32(Net!MdnsIp) \in addrs /\ QueryData(Asked(q)) \in bytes
    BY <1>5, <1>6, <1>8, <1>9
  <2> HIDE DEF macs, addrs, bytes, byte
  <2>2. QED
    BY <1>7, <1>11, <1>12, <2>1
<1>14. f.checksum \in W
  <2>1. [f EXCEPT !.checksum = 0] = Carrying(0)
    <3>1. [Carrying(f.checksum) EXCEPT !.checksum = 0] = Carrying(0)
      BY SMT
    <3> HIDE DEF Carrying
    <3>2. QED
      BY <1>10, <3>1
  <2>2. Carrying(0) \in Net!Frame
    BY <1>7, <1>13
  <2> DEFINE sum == Net!Total(Net!HeaderWords(Carrying(0)))
  <2>3. sum \in Nat /\ sum <= MaxSum
    <3>1. /\ OtherWords(Carrying(0)) \in Nat /\ OtherWords(Carrying(0)) <= 589815
          /\ sum = OtherWords(Carrying(0)) + Net!Net16(Carrying(0).checksum)
          /\ Net!Net16(Carrying(0).checksum) \in Nat /\ Net!Net16(Carrying(0).checksum) < 65536
      BY SMT, <2>2, SumOfWords
    <3> DEFINE x == OtherWords(Carrying(0))
               y == Net!Net16(Carrying(0).checksum)
    <3> HIDE DEF x, y, sum
    <3>2. x \in Nat /\ x <= 589815 /\ sum = x + y /\ y \in Nat /\ y < 65536
      BY SMT, <3>1 DEF x, y
    <3>3. QED
      BY SMT, <3>2 DEF MaxSum
  <2>4. Inserted(f) = Complement(sum)
    BY SMT, <2>1 DEF Inserted
  <2> HIDE DEF sum
  <2>5. Inserted(f) \in Nat
    BY Zenon, <2>3, <2>4, FoldedSum
  <2>6. QED
    BY <1>3, <1>10, <2>5
<1>15. QED
  <2> HIDE DEF Carrying
  <2>1. QED
    BY <1>10, <1>13, <1>14 DEF f

\* The checksum of a query is wrong exactly if adding the carry makes another.
LEMMA SentChecksum ==
  ASSUME NEW q \in Seq(1..255), ip \in [1..2 -> 0..(Net!Word - 1)]
  PROVE  LET sum == Net!Total(Net!HeaderWords([Sent(q) EXCEPT !.checksum = 0])) IN
         (Net!Folded(Net!Total(Net!HeaderWords(Sent(q)))) = Net!Word - 1)
            <=> CarriesOnce(sum)
<1> DEFINE f == Sent(q)
           g == [f EXCEPT !.checksum = 0]
           sum == Net!Total(Net!HeaderWords(g))
           checksum == Inserted(f)
<1>1. f \in Net!Frame /\ f.checksum = Net!Net16(checksum)
  BY SentIsFrame, SentFields
<1> HIDE DEF f
<1>2. g \in Net!Frame /\ g.checksum = 0 /\ OtherWords(g) = OtherWords(f)
  <2> DEFINE W == 0..(Net!Word - 1)
  <2>1. 0 \in W
    <3>1. \A w \in Nat : w > 0 => 0 \in 0..(w - 1)
      BY SMT
    <3>2. QED
      BY SMT, <3>1, WordFacts
  <2> HIDE DEF W
  <2>2. g \in Net!Frame /\ g.checksum = 0
    BY <1>1, <2>1 DEF Net!Frame, W
  <2>3. OtherWords(g) = OtherWords(f)
    BY <1>1 DEF OtherWords, Net!HeaderWords, Net!Frame
  <2>4. QED
    BY <2>2, <2>3
<1> DEFINE others == OtherWords(f)
<1>3. others \in Nat /\ others <= 589815
  BY SMT, <1>1, SumOfWords
<1>4. sum = others
  <2>1. sum = OtherWords(g) + Net!Net16(g.checksum)
    <3> HIDE DEF g
    <3>1. QED
      BY SMT, <1>2, SumOfWords
  <2>2. Net!Net16(0) = 0
    BY DEF Net!Net16, Net!nnet_swap16
  <2> HIDE DEF g, others, sum
  <2>3. QED
    BY SMT, <1>2, <1>3, <2>1, <2>2 DEF others
<1>5. checksum = Complement(sum)
  BY SMT DEF Inserted
<1> HIDE DEF checksum
<1>6. Net!Total(Net!HeaderWords(f)) = others + Net!Net16(f.checksum)
  BY SMT, <1>1, SumOfWords
<1> HIDE DEF sum, others
<1>7. sum \in Nat /\ sum <= MaxSum
  BY SMT, <1>3, <1>4 DEF MaxSum
<1>8. /\ checksum \in Nat /\ checksum < Net!Word
      /\ (Net!Folded(sum + checksum) = Net!Word - 1) <=> CarriesOnce(sum)
  BY Zenon, <1>5, <1>7, FoldedSum
<1>9. Net!Net16(f.checksum) = checksum
  BY <1>1, <1>8, WordFacts
<1>10. Net!Total(Net!HeaderWords(f)) = sum + checksum
  BY <1>4, <1>6, <1>9
<1>11. QED
  BY SMT, <1>8, <1>10 DEF sum, f

-----------------------------------------------------------------------------
(* The invariant of libnnet                                                *)

\* What a name says of the data it comes from: it is a sequence.
LEMMA NameIsText ==
  ASSUME NEW data \in Seq(Nat), data # <<>>
  PROVE  Net!NameIn(data) \in Seq(Nat)
<1> DEFINE size == Len(data)
           text == Net!NameFrom(data)
           Wrong(at) == at \in 1..size /\ text[at] \notin Seq(Nat)
           wrong == {k \in 0..size : Wrong(size - k)}
<1>1. /\ size \in Nat /\ 1 \in 1..size /\ \A at \in 1..size : data[at] \in Nat
  <2>1. \A at \in 1..size : data[at] \in Nat
    BY ElementOfSeq
  <2>2. QED
    BY <2>1
<1>2. \A at \in 1..size : text[at] = TextAt(data, text, at)
  BY NameFromIs
<1>3. ASSUME NEW at \in 1..size, \A after \in (at + 1)..size : text[after] \in Seq(Nat)
      PROVE  text[at] \in Seq(Nat)
  <2> DEFINE after == at + 1 + data[at]
             label == SubSeq(data, at + 1, at + data[at])
  <2>1. at \in Nat /\ data[at] \in Nat
    BY <1>1
  <2> HIDE DEF text
  <2>2. CASE data[at] = 0 \/ after > Len(data)
    <3>1. text[at] = <<>>
      BY <1>2, <2>2 DEF TextAt
    <3>2. QED
      BY <3>1
  <2>3. CASE ~(data[at] = 0 \/ after > Len(data))
    <3>1. label \in Seq(Nat)
      <4>1. at + 1 \in Int /\ at + data[at] \in Int
        BY <2>1
      <4>2. \A i \in (at + 1)..(at + data[at]) : data[i] \in Nat
        BY <1>1, <2>1, <2>3
      <4>3. QED
        BY <4>1, <4>2, SubSeqProperties
    <3>2. after \in (at + 1)..size
      BY <1>1, <2>1, <2>3
    <3>3. text[after] \in Seq(Nat) /\ <<Net!Dot>> \in Seq(Nat) /\ <<>> \in Seq(Nat)
      BY <1>3, <3>2 DEF Net!Dot
    <3>4. text[at] = label \o (IF data[after] = 0 THEN <<>> ELSE <<Net!Dot>> \o text[after])
      BY <1>2, <2>3 DEF TextAt
    <3> HIDE DEF label, after
    <3>5. <<Net!Dot>> \o text[after] \in Seq(Nat)
      BY <3>3, ConcatProperties
    <3>6. QED
      BY <3>1, <3>3, <3>4, <3>5, ConcatProperties
  <2>4. QED
    BY <2>2, <2>3
<1>4. wrong = {}
  <2> SUFFICES ASSUME wrong # {} PROVE FALSE
    OBVIOUS
  <2>1. wrong \subseteq Nat
    BY <1>1
  <2>2. PICK k \in wrong : \A m \in wrong : k <= m
    <3> HIDE DEF wrong
    <3>1. QED
      BY <2>1, Least
  <2> DEFINE at == size - k
  <2>3. k \in 0..size /\ Wrong(at)
    BY <2>2
  <2>4. ASSUME NEW after \in (at + 1)..size PROVE text[after] \in Seq(Nat)
    <3> DEFINE m == size - after
    <3>1. m \in 0..size /\ m < k /\ size - m = after /\ after \in 1..size
      <4>1. size \in Nat /\ k \in 0..size /\ size - k \in 1..size
        BY <1>1, <2>3
      <4> HIDE DEF size
      <4>2. QED
        BY <4>1
    <3>2. m \notin wrong
      <4>1. m \in wrong => k <= m
        BY <2>2
      <4> HIDE DEF wrong, m
      <4>2. QED
        BY <2>3, <3>1, <4>1
    <3> HIDE DEF text
    <3>3. QED
      BY <3>1, <3>2
  <2> HIDE DEF text
  <2>5. text[at] \in Seq(Nat) /\ text[at] \notin Seq(Nat)
    BY <1>3, <2>3, <2>4
  <2>6. QED
    BY <2>5
<1>5. text[1] \in Seq(Nat)
  <2>1. size - 1 \in 0..size /\ size - (size - 1) = 1
    BY <1>1
  <2> HIDE DEF text
  <2>2. ~Wrong(1)
    <3> HIDE DEF Wrong
    <3>1. size - 1 \notin wrong
      BY <1>4
    <3>2. QED
      BY <2>1, <3>1
  <2>3. QED
    BY <1>1, <2>2
<1>6. QED
  BY <1>5 DEF Net!NameIn

\* Strings that are equal as far as the shorter one goes: one begins the other.
LEMMA EqualAsFar ==
  ASSUME NEW a \in Seq(Nat), NEW b \in Seq(Nat)
  PROVE  Net!nnet_streq(a, b) <=> Net!IsPrefix(a, b) \/ Net!IsPrefix(b, a)
<1>1. ASSUME NEW s \in Seq(Nat), NEW t \in Seq(Nat), Len(s) <= Len(t)
      PROVE  /\ Net!nnet_streq(s, t) <=> \A i \in 1..Len(s) : s[i] = t[i]
             /\ Net!IsPrefix(s, t) <=> \A i \in 1..Len(s) : s[i] = t[i]
             /\ Net!nnet_streq(t, s) <=> Net!nnet_streq(s, t)
             /\ Net!IsPrefix(t, s) => Net!IsPrefix(s, t)
  <2> DEFINE m == Len(s)
  <2>1. /\ m \in Nat /\ Len(t) \in Nat /\ DOMAIN s = 1..m /\ DOMAIN t = 1..Len(t)
        /\ \A i \in 1..m : s[i] \in Nat /\ t[i] \in Nat
    <3>1. \A i \in 1..m : s[i] \in Nat
      BY ElementOfSeq
    <3>2. \A i \in 1..Len(t) : t[i] \in Nat
      BY ElementOfSeq
    <3>3. QED
      BY <1>1, <3>1, <3>2
  <2>2. DOMAIN s \cap DOMAIN t = 1..m /\ DOMAIN t \cap DOMAIN s = 1..m
    BY <1>1, <2>1
  <2>3. /\ Net!nnet_streq(s, t) <=> \A i \in 1..m : s[i] = t[i]
        /\ Net!nnet_streq(t, s) <=> \A i \in 1..m : t[i] = s[i]
    <3> HIDE DEF m
    <3>1. QED
      BY <2>2 DEF Net!nnet_streq
  <2>4. SubSeq(s, 1, m) = s
    BY SubSeqFull
  <2>5. /\ SubSeq(t, 1, m) \in Seq(Nat) /\ Len(SubSeq(t, 1, m)) = m
        /\ \A i \in 1..m : SubSeq(t, 1, m)[i] = t[i]
    <3>1. 1 \in Int /\ m \in Int /\ \A i \in 1..m : t[i] \in Nat
      BY <2>1
    <3>2. /\ SubSeq(t, 1, m) \in Seq(Nat)
          /\ Len(SubSeq(t, 1, m)) = IF 1 <= m THEN m - 1 + 1 ELSE 0
          /\ \A i \in 1..(m - 1 + 1) : SubSeq(t, 1, m)[i] = t[1 + i - 1]
      <4> HIDE DEF m
      <4>1. QED
        BY <3>1, SubSeqProperties
    <3>3. m - 1 + 1 = m /\ (~(1 <= m) => m = 0) /\ \A i \in 1..m : 1 + i - 1 = i
      BY <2>1
    <3> HIDE DEF m
    <3>4. QED
      BY <3>2, <3>3
  <2>6. SubSeq(t, 1, m) = s <=> \A i \in 1..m : s[i] = t[i]
    <3> DEFINE part == SubSeq(t, 1, m)
    <3> HIDE DEF part
    <3>1. part \in Seq(Nat) /\ Len(part) = Len(s) /\ \A i \in 1..Len(s) : part[i] = t[i]
      BY <2>5 DEF part
    <3>2. (\A i \in 1..Len(s) : s[i] = t[i]) => part = s
      BY <3>1, SeqEqual
    <3>3. part = s => \A i \in 1..Len(s) : s[i] = t[i]
      BY <3>1
    <3>4. QED
      BY <3>2, <3>3 DEF part
  <2>7. Net!IsPrefix(s, t) <=> \A i \in 1..m : s[i] = t[i]
    BY <1>1, <2>4, <2>6 DEF Net!IsPrefix
  <2>8. Net!IsPrefix(t, s) => s = t
    <3>1. ASSUME Net!IsPrefix(t, s) PROVE s = t
      <4>1. Len(t) <= m /\ SubSeq(t, 1, Len(t)) = SubSeq(s, 1, Len(t))
        BY <3>1 DEF Net!IsPrefix
      <4>2. Len(t) = m
        <5>1. Len(t) <= m /\ m <= Len(t) /\ m \in Nat /\ Len(t) \in Nat
          BY <1>1, <2>1, <4>1
        <5> HIDE DEF m
        <5>2. QED
          BY ONLY <5>1
      <4>3. SubSeq(t, 1, Len(t)) = t
        BY SubSeqFull
      <4>4. QED
        BY <2>4, <4>1, <4>2, <4>3
    <3>2. QED
      BY <3>1
  <2>9. s = t => Net!IsPrefix(s, t)
    BY <2>7
  <2>10. QED
    BY <2>3, <2>7, <2>8, <2>9
<1>2. Len(a) <= Len(b) \/ Len(b) <= Len(a)
  <2>1. Len(a) \in Nat /\ Len(b) \in Nat
    OBVIOUS
  <2>2. QED
    BY <2>1
<1>3. QED
  BY <1>1, <1>2

\* What the machines know of a frame: one the library sent is what send_query
\* makes of a name, and what becomes of it is what its receiver makes of that.
NnetInv ==
  /\ fqdn # None => fqdn \in Fqdn /\ ip \in Ip
  /\ frame # None => fqdn # None
  /\ frame = None => query = None /\ passed = None /\ heard = None
  /\ query # None => query \in Name /\ frame = Sent(query)
  /\ (query # None /\ passed # None) => passed = "ip"
  /\ (query # None /\ heard # None) => heard = Net!nnet_mdns_rx_query(frame)

\* A query passes the filter, and is taken for one by the code that answers.
LEMMA SentIsTaken ==
  ASSUME NEW q \in Seq(1..255)
  PROVE  /\ Net!nnet_eth_mac_filter(Sent(q))
         /\ Net!Net16(Sent(q).ethertype) = Net!IpType
         /\ Sent(q).ethertype = Net!Net16(Net!IpType) /\ Sent(q).proto = Net!UDP
         /\ Sent(q).dest_addr = Net!nnet_swap32(Net!MdnsIp)
         /\ Sent(q).dest_port = Net!Net16(Net!MdnsPort) /\ Sent(q).flags = 0
         /\ Sent(q).qdcount # 0 /\ Sent(q).data = QueryData(Asked(q))
         /\ Net!Net16(Sent(q).udp_len) = 8 + (12 + (Len(Asked(q)) + 6))
<1> DEFINE size == Len(Asked(q)) + 6
<1>1. /\ Sent(q).dest_mac = Net!MdnsMac /\ Sent(q).ethertype = Net!Net16(Net!IpType)
      /\ Sent(q).proto = Net!UDP /\ Sent(q).dest_addr = Net!nnet_swap32(Net!MdnsIp)
      /\ Sent(q).dest_port = Net!Net16(Net!MdnsPort)
      /\ Sent(q).udp_len = Net!Net16(8 + (12 + size)) /\ Sent(q).flags = 0
      /\ Sent(q).qdcount = Net!Net16(1) /\ Sent(q).data = QueryData(Asked(q))
  <2> HIDE DEF size
  <2> DEFINE f == Sent(q)
             frag == Net!Net16(16384)
             length == Net!Net16(20 + 8 + (12 + size))
  <2>1. f = [dest_mac |-> Net!MdnsMac, ethertype |-> Net!Net16(Net!IpType),
             len |-> length, flag_frag |-> frag, proto |-> Net!UDP, checksum |-> f.checksum,
             source_addr |-> Net!nnet_swap32(ip), dest_addr |-> Net!nnet_swap32(Net!MdnsIp),
             dest_port |-> Net!Net16(Net!MdnsPort), udp_len |-> Net!Net16(8 + (12 + size)),
             flags |-> 0, qdcount |-> Net!Net16(1), data |-> QueryData(Asked(q))]
    BY SentFields DEF size
  <2> HIDE DEF f, frag, length
  <2>2. QED
    BY <2>1 DEF f
<1>2. Net!nnet_eth_mac_filter(Sent(q))
  BY <1>1 DEF Net!nnet_eth_mac_filter
<1>3. Net!Net16(1) # 0
  <2>1. 1 \in Nat /\ 1 < Net!Word /\ Net!Net16(0) = 0
    BY SMT DEF Net!Word, Net!Net16, Net!nnet_swap16
  <2>2. Net!Net16(Net!Net16(1)) = 1
    BY <2>1, WordFacts
  <2>3. QED
    BY <2>1, <2>2
<1>4. Net!Net16(Net!Net16(Net!IpType)) = Net!IpType
  <2>1. Net!IpType \in Nat /\ Net!IpType < Net!Word
    BY SMT DEF Net!Word, Net!IpType
  <2>2. QED
    BY <2>1, WordFacts
<1>5. Net!Net16(Net!Net16(8 + (12 + size))) = 8 + (12 + size)
  <2>1. Len(Asked(q)) \in Nat /\ Len(Asked(q)) <= 472
    BY AskedIs
  <2>2. 8 + (12 + size) \in Nat /\ 8 + (12 + size) < Net!Word
    BY SMT, <2>1 DEF Net!Word
  <2>3. QED
    BY <2>2, WordFacts
<1>6. QED
  BY <1>1, <1>2, <1>3, <1>4, <1>5

\* Every step keeps the invariant.
LEMMA NnetStep ==
  ASSUME Net!FieldsFit, NnetInv, [Net!Next]_(Net!vars)
  PROVE  NnetInv'
<1>1. CASE Net!Configure
  <2>1. frame = None /\ query = None /\ passed = None /\ heard = None
    BY <1>1 DEF Net!Configure, NnetInv
  <2>2. fqdn' \in Fqdn /\ fqdn' # None /\ ip' \in Ip
    BY <1>1 DEF Net!Configure, Net!FieldsFit
  <2>3. frame' = None /\ query' = None /\ passed' = None /\ heard' = None
    BY <1>1, <2>1 DEF Net!Configure
  <2>4. QED
    BY <2>2, <2>3 DEF NnetInv
<1>2. ASSUME NEW q \in Name, Net!nnet_mdns_send_query(q)
      PROVE  NnetInv'
  <2>1. /\ fqdn # None /\ frame = None /\ query' = q /\ frame' = Sent(q)
        /\ UNCHANGED <<fqdn, ip, passed, heard>>
    BY <1>2 DEF Net!nnet_mdns_send_query, Sent, Asked
  <2>2. Sent(q)' = Sent(q)
    <3>1. ip' = ip
      BY <2>1
    <3>2. QED
      BY <3>1 DEF Sent, Net!nnet_udp_init_header
  <2>3. fqdn \in Fqdn /\ ip \in Ip /\ passed = None /\ heard = None
    BY <2>1 DEF NnetInv
  <2>4. Sent(q) # None
    <3>1. q \in Seq(1..255) /\ ip \in [1..2 -> 0..(Net!Word - 1)] /\ None \notin Net!Frame
      BY <2>3 DEF Net!FieldsFit
    <3>2. QED
      BY <3>1, SentIsFrame
  <2>5. query' = q /\ frame' = Sent(query)'
    BY <2>1, <2>2
  <2>6. QED
    BY <2>1, <2>3, <2>4, <2>5 DEF NnetInv
<1>3. ASSUME NEW f \in Foreign, Net!SendForeign(f)
      PROVE  NnetInv'
  <2>1. fqdn # None /\ frame = None /\ UNCHANGED <<fqdn, ip, query, passed, heard>>
    BY <1>3 DEF Net!SendForeign
  <2>2. fqdn \in Fqdn /\ ip \in Ip /\ query = None /\ passed = None /\ heard = None
    BY <2>1 DEF NnetInv
  <2>3. QED
    BY <2>1, <2>2 DEF NnetInv
<1>4. ASSUME UNCHANGED <<fqdn, ip, query, frame>> PROVE Sent(query)' = Sent(query)
  BY <1>4 DEF Sent, Asked, Net!nnet_udp_init_header
<1>5. ASSUME query # None
      PROVE  frame = Sent(query) /\ query \in Seq(1..255)
  BY <1>5 DEF NnetInv, Net!FieldsFit
<1>6. CASE Net!nnet_eth_rx
  <2>1. frame # None /\ UNCHANGED <<fqdn, ip, query, frame, heard>>
    BY <1>6 DEF Net!nnet_eth_rx
  <2>2. query # None => passed' = "ip"
    <3> SUFFICES ASSUME query # None PROVE passed' = "ip"
      OBVIOUS
    <3>1. /\ Net!nnet_eth_mac_filter(frame)
          /\ Net!Net16(frame.ethertype) = Net!IpType
      BY <1>5, SentIsTaken
    <3>2. QED
      BY <1>6, <3>1 DEF Net!nnet_eth_rx
  <2>3. Sent(query)' = Sent(query)
    BY <1>4, <2>1
  <2>4. Net!nnet_mdns_rx_query(frame)' = Net!nnet_mdns_rx_query(frame)
    BY <2>1 DEF Net!nnet_mdns_rx_query
  <2>5. QED
    BY <2>1, <2>2, <2>3, <2>4 DEF NnetInv
<1>7. CASE Net!nnet_mdns_rx_eth_frame
  <2>1. frame # None /\ UNCHANGED <<fqdn, ip, query, frame, passed>>
    BY <1>7 DEF Net!nnet_mdns_rx_eth_frame
  <2>2. query # None => heard' = Net!nnet_mdns_rx_query(frame)
    <3> SUFFICES ASSUME query # None PROVE heard' = Net!nnet_mdns_rx_query(frame)
      OBVIOUS
    <3>1. /\ frame.ethertype = Net!Net16(Net!IpType) /\ frame.proto = Net!UDP
          /\ frame.dest_addr = Net!nnet_swap32(Net!MdnsIp)
          /\ frame.dest_port = Net!Net16(Net!MdnsPort) /\ frame.flags = 0
      BY <1>5, SentIsTaken
    <3>2. QED
      BY <1>7, <3>1 DEF Net!nnet_mdns_rx_eth_frame
  <2>3. Sent(query)' = Sent(query)
    BY <1>4, <2>1
  <2>4. Net!nnet_mdns_rx_query(frame)' = Net!nnet_mdns_rx_query(frame)
    BY <2>1 DEF Net!nnet_mdns_rx_query
  <2>5. QED
    BY <2>1, <2>2, <2>3, <2>4 DEF NnetInv
<1>8. CASE UNCHANGED Net!vars
  <2>1. UNCHANGED <<fqdn, ip, query, frame, passed, heard>>
    BY <1>8 DEF Net!vars
  <2>2. Sent(query)' = Sent(query)
    BY <1>4, <2>1
  <2>3. Net!nnet_mdns_rx_query(frame)' = Net!nnet_mdns_rx_query(frame)
    BY <2>1 DEF Net!nnet_mdns_rx_query
  <2>4. QED
    BY <2>1, <2>2, <2>3 DEF NnetInv
<1>9. QED
  BY <1>1, <1>2, <1>3, <1>6, <1>7, <1>8 DEF Net!Next

\* NnetInv holds in every reachable state.
LEMMA NnetIsInvariant ==
  ASSUME Net!FieldsFit
  PROVE  Net!Spec => []NnetInv
<1>1. Net!Init => NnetInv
  BY DEF Net!Init, NnetInv
<1>2. NnetInv /\ [Net!Next]_(Net!vars) => NnetInv'
  BY NnetStep
<1>3. QED
  BY <1>1, <1>2, PTL DEF Net!Spec

\* Whatever is asked from whatever address, the checksum of the frame is right
\* unless adding the carry makes a carry again, and then it is wrong.
THEOREM ChecksumIsRight == Net!Spec => []ChecksumFailsOnSecondCarryOnly
<1>. Net!FieldsFit
  BY NetworkAssumption
<1>1. NnetInv => Net!ChecksumFailsOnSecondCarryOnly
  <2> SUFFICES ASSUME NnetInv, query # None
               PROVE  LET sum == Net!Total(Net!HeaderWords([frame EXCEPT !.checksum = 0])) IN
                      (Net!Folded(Net!Total(Net!HeaderWords(frame))) = Net!Word - 1)
                         <=> (sum % Net!Word) + (sum \div Net!Word) < Net!Word
    BY DEF Net!ChecksumFailsOnSecondCarryOnly
  <2>1. frame = Sent(query) /\ query \in Name /\ ip \in Ip
    BY DEF NnetInv
  <2>2. query \in Seq(1..255) /\ ip \in [1..2 -> 0..(Net!Word - 1)]
    BY <2>1 DEF Net!FieldsFit
  <2> DEFINE sum == Net!Total(Net!HeaderWords([frame EXCEPT !.checksum = 0]))
  <2>3. (Net!Folded(Net!Total(Net!HeaderWords(frame))) = Net!Word - 1) <=> CarriesOnce(sum)
    BY <2>1, <2>2, SentChecksum
  <2> HIDE DEF sum
  <2>4. CarriesOnce(sum) <=> (sum % Net!Word) + (sum \div Net!Word) < Net!Word
    BY SMT DEF CarriesOnce, Net!Word
  <2>5. QED
    BY <2>3, <2>4 DEF sum
<1>2. Net!Spec => []NnetInv
  BY NnetIsInvariant
<1>3. QED
  BY <1>1, <1>2, PTL DEF ChecksumFailsOnSecondCarryOnly

\* Whatever is asked, the query gets through to the code that answers, a name
\* of labels that are not empty and fit comes out as it went in, and a machine
\* answers exactly if one name begins the other.
THEOREM QueriesAreTaken == Net!Spec => []QueryIsUnderstood
<1>. Net!FieldsFit
  BY NetworkAssumption
<1>1. NnetInv => Net!QueryIsUnderstood
  <2> SUFFICES ASSUME NnetInv, query # None
               PROVE  /\ Net!Net16(frame.udp_len) =
                            8 + Net!MdnsHeader - Net!UdpHeader + Len(frame.data)
                      /\ Len(query) <= Net!TxSize - Net!MdnsHeader - 6 <=>
                            Net!MdnsHeader + Len(frame.data) <= Net!TxSize
                      /\ passed # None => passed = "ip"
                      /\ heard # None =>
                          /\ heard # Net!Dropped
                          /\ (/\ ~Net!HasEmptyLabel(query) /\ Net!LabelsFit(query)
                              /\ Len(query) <= Net!TxSize - 40) => heard.name = query
                          /\ heard.answered <=> \/ Net!IsPrefix(heard.name, fqdn)
                                                \/ Net!IsPrefix(fqdn, heard.name)
    BY DEF Net!QueryIsUnderstood
  <2> DEFINE asked == Asked(query)
             data == QueryData(asked)
             found == Net!NameIn(data)
  <2>1. /\ frame = Sent(query) /\ query \in Seq(1..255)
        /\ fqdn \in Seq(1..255)
        /\ passed # None => passed = "ip"
    <3>1. query \in Name /\ frame = Sent(query) /\ (frame # None => fqdn \in Fqdn)
      BY DEF NnetInv
    <3>2. frame # None
      BY DEF NnetInv
    <3>3. QED
      BY <3>1, <3>2 DEF NnetInv, Net!FieldsFit
  <2>2. /\ asked \in Seq(1..255) /\ Len(asked) = Net!nnet_strlen(query, Net!TxSize - 40)
        /\ Len(asked) \in Nat
        /\ Len(query) <= 472 => asked = query
    BY <2>1, AskedIs
  <2>3. /\ frame.qdcount # 0 /\ frame.data = data
        /\ Net!Net16(frame.udp_len) = 8 + (12 + (Len(asked) + 6))
    BY <2>1, SentIsTaken
  <2>4. data \in Seq(0..255) /\ Len(data) = Len(asked) + 6
    BY <2>2, QueryDataIs
  <2>5. Net!Net16(frame.udp_len) = 8 + Net!MdnsHeader - Net!UdpHeader + Len(frame.data)
    <3> HIDE DEF data, asked
    <3>1. QED
      BY <2>2, <2>3, <2>4 DEF Net!MdnsHeader, Net!UdpHeader
  <2>6. Len(query) <= Net!TxSize - Net!MdnsHeader - 6 <=>
           Net!MdnsHeader + Len(frame.data) <= Net!TxSize
    <3> DEFINE length == Len(query)
               part == Len(asked)
               size == Len(frame.data)
    <3>1. length \in Nat
      BY <2>1
    <3>2. part = IF length < 472 THEN length ELSE 472
      <4> HIDE DEF asked
      <4>1. QED
        BY <2>2 DEF Net!nnet_strlen, Net!TxSize
    <3>3. size = part + 6
      <4> HIDE DEF data, asked
      <4>1. QED
        BY <2>3, <2>4
    <3> HIDE DEF length, part, size
    <3>4. length <= 452 <=> 54 + size <= 512
      BY <3>1, <3>2, <3>3
    <3>5. Net!TxSize - Net!MdnsHeader - 6 = 452 /\ Net!MdnsHeader = 54 /\ Net!TxSize = 512
      BY DEF Net!TxSize, Net!MdnsHeader
    <3>6. QED
      BY <3>4, <3>5 DEF length, size
  <2>7. ASSUME heard # None
        PROVE  /\ heard # Net!Dropped
               /\ (/\ ~Net!HasEmptyLabel(query) /\ Net!LabelsFit(query)
                   /\ Len(query) <= Net!TxSize - 40) => heard.name = query
               /\ heard.answered <=> \/ Net!IsPrefix(heard.name, fqdn)
                                     \/ Net!IsPrefix(fqdn, heard.name)
    <3>1. heard = [how |-> "query", name |-> found, answered |-> Net!nnet_streq(found, fqdn)]
      <4>1. heard = Net!nnet_mdns_rx_query(frame)
        BY <2>7 DEF NnetInv
      <4> HIDE DEF data
      <4>2. QED
        BY <2>3, <4>1 DEF Net!nnet_mdns_rx_query
    <3>2. heard # Net!Dropped
      <4> HIDE DEF found
      <4>1. heard.how = "query"
        BY <3>1
      <4>2. QED
        BY <4>1 DEF Net!Dropped
    <3>3. heard.name = found /\ (heard.answered <=> Net!nnet_streq(found, fqdn))
      <4> HIDE DEF found
      <4>1. QED
        BY <3>1
    <3>4. found \in Seq(Nat) /\ fqdn \in Seq(Nat)
      <4>1. 0..255 \subseteq Nat /\ 1..255 \subseteq Nat
        OBVIOUS
      <4> HIDE DEF data, asked
      <4>2. data \in Seq(Nat) /\ fqdn \in Seq(Nat)
        <5> DEFINE bytes == 0..255
                   letters == 1..255
        <5>1. bytes \subseteq Nat /\ letters \subseteq Nat
          BY <4>1
        <5>2. data \in Seq(bytes) /\ fqdn \in Seq(letters)
          BY <2>1, <2>4
        <5> HIDE DEF bytes, letters
        <5>3. QED
          BY <5>1, <5>2, SeqMonotonic
      <4>3. data # <<>>
        <5>1. Len(data) # 0
          BY <2>2, <2>4
        <5>2. QED
          BY <5>1
      <4>4. QED
        BY <4>2, <4>3, NameIsText
    <3>5. heard.answered <=> \/ Net!IsPrefix(found, fqdn) \/ Net!IsPrefix(fqdn, found)
      <4> HIDE DEF found
      <4>1. QED
        BY <3>3, <3>4, EqualAsFar
    <3>6. ASSUME ~Net!HasEmptyLabel(query), Net!LabelsFit(query), Len(query) <= Net!TxSize - 40
          PROVE  found = query
      <4>1. Len(query) <= 472
        BY <3>6 DEF Net!TxSize
      <4>2. asked = query
        <5> HIDE DEF asked
        <5>1. QED
          BY <2>2, <4>1
      <4>3. Net!NameIn(QueryData(query)) = query
        BY <2>1, <3>6, NameComesOut
      <4>4. QED
        <5> HIDE DEF asked
        <5>1. QED
          BY <4>2, <4>3
    <3> HIDE DEF found
    <3>7. QED
      BY <3>2, <3>3, <3>5, <3>6
  <2>8. QED
    BY <2>1, <2>5, <2>6, <2>7
<1>2. Net!Spec => []NnetInv
  BY NnetIsInvariant
<1>3. QED
  BY <1>1, <1>2, PTL DEF QueryIsUnderstood
=============================================================================
