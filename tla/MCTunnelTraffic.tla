-------------------------- MODULE MCTunnelTraffic ---------------------------
(* The worker, two threads that stop it, three sessions for a limit of two,  *)
(* three names for two addresses.                                            *)
EXTENDS TunnelTraffic, TLC

CONSTANTS ui, binder, tcp1, tcp2, udp1, site1, site2, site3

MCThreads == {ui, binder}
MCSessions == {tcp1, tcp2, udp1}
MCNames == {site1, site2, site3}
MCSymmetry ==
    Permutations(MCThreads) \cup Permutations(MCSessions) \cup Permutations(MCNames)
=============================================================================
