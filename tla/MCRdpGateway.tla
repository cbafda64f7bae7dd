---------------------------- MODULE MCRdpGateway ----------------------------
EXTENDS RdpGateway, TLC

CONSTANT u1

OneOwner == [c \in Clients |-> u1]
GatewaySymmetry == Permutations(Clients) \cup Permutations(Sessions)
=============================================================================
