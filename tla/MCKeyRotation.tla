--------------------------- MODULE MCKeyRotation ---------------------------
(* Small instances of KeyRotation for TLC: one network and one location that *)
(* every device belongs to, and a link from one device to another.           *)
EXTENDS KeyRotation, TLC

CONSTANTS n1, o1

MCNetworkOf  == [d \in Devices |-> n1]
MCLocationOf == [d \in Devices |-> o1]
MCLinkFrom   == [l \in Links |-> CHOOSE d \in Devices : TRUE]
MCLinkTo     == [l \in Links |-> CHOOSE d \in Devices : d # MCLinkFrom[l]]

\* Nothing reads the history variable in a run without RetiredPasswordUnused
WithoutHistory == <<dev, psk, links, netKey, imports, cached, req>>

Interchangeable ==
    Permutations(Requests) \cup Permutations(Passwords) \cup Permutations(Psks)

=============================================================================
