---------------------------- MODULE MCPeerHealth ----------------------------
(* Instantiates PeerHealth for TLC: two worker peers, a target with a      *)
(* node and a machine name, and SNRs in two namespaces.                    *)
EXTENDS PeerHealth

\* the SNR NHC creates for the target
SnrByNHC     == [name |-> "node", ns |-> "ns1", owner |-> "NodeHealthCheck"]
\* the SNR a machine health check creates for the target's machine
SnrByMachine == [name |-> "machine", ns |-> "ns1", owner |-> "Machine"]
\* NHC's SNR for another node, in a second namespace
SnrOfOther   == [name |-> "other", ns |-> "ns2", owner |-> "NodeHealthCheck"]
\* an SNR for the target created by hand, without an owner
SnrByHand    == [name |-> "node", ns |-> "ns1", owner |-> "None"]

MC_Universe          == {SnrByNHC, SnrByMachine, SnrOfOther}
MC_UniverseWithHand  == {SnrByHand, SnrOfOther}
\* NHC's SNRs only: the control-plane decision does not depend on owners
MC_UniverseNHC       == {SnrByNHC, SnrOfOther}
MC_MaxApiErrorThreshold == 2
====
