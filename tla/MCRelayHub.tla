----------------------------- MODULE MCRelayHub -----------------------------
EXTENDS RelayHub

CONSTANTS c1, c2, r1, r2, g1

OneGateway == [c \in Connections |-> g1]
AllToOne == [r \in Requests |-> g1]
=============================================================================
