-------------------------- MODULE MCGatewayAccess --------------------------
EXTENDS GatewayAccess, TLC

CONSTANTS s1, s2, u1, u2, e1

IssuedByFirst == [e \in Enrolments |-> u1]

(* Every way to start a Gateway on a Server with pairing, and a Gateway      *)
(* without a token on a Server that accepts guests.                          *)
AllSettings == {FALSE} \X {"none", "app", "bootstrap", e1} \cup {<<TRUE, "none">>}

EnrolledSetting == {<<FALSE, e1>>}

Symmetry == Permutations(Sockets)
=============================================================================
