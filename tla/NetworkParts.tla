---------------------------- MODULE NetworkParts ----------------------------
(***************************************************************************)
(* A node and its network: the modules on the choice of an address and on  *)
(* libnnet, each with the constants and the variables it works on, and     *)
(* what they promise.                                                      *)
(***************************************************************************)
CONSTANTS Interfaces, HostNames, Environment, BcastHosts, BcastPorts, \* of HostAddress
          IPv6, NoAddress, Empty, Unset,
          Name, Fqdn, Ip, Mac, Foreign, None  \* of Nnet

VARIABLES ifaddrs, resolved, dzmq_ip, bcast_host, bcast_port, chosen,
          fqdn, ip, query, frame, passed, heard

Host == INSTANCE HostAddress WITH Names <- HostNames
Net  == INSTANCE Nnet WITH name <- query

\* What the theorems about these modules take for granted.
ASSUME NetworkAssumption == Host!HostsAreIPv4 /\ Net!FieldsFit

-----------------------------------------------------------------------------
(* The properties of the modules, which state them at length.              *)

\* HostAddress: the C++ node takes the best address its machine has.
BestAddressIsChosen == Host!BestAddressIsChosen

\* HostAddress: C and Python nodes of one machine choose one network, unless told otherwise.
CAndPythonShareANetwork == Host!CAndPythonShareANetwork

\* Nnet: the checksum of a header is right unless its carry carries again.
ChecksumFailsOnSecondCarryOnly == Net!ChecksumFailsOnSecondCarryOnly

\* Nnet: a query reaches the code that answers, with the name that was asked.
QueryIsUnderstood == Net!QueryIsUnderstood
=============================================================================
