--------------------------- MODULE MCProviderCall ---------------------------
EXTENDS ProviderCall, TLC

CONSTANTS c1, c2, s1, s2

(* each invocation has a session of its own *)
Apart == [c \in {c1, c2} |-> IF c = c1 THEN s1 ELSE s2]

(* both invocations share a session *)
Shared == [c \in {c1, c2} |-> s1]

=============================================================================
