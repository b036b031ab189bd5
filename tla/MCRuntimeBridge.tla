--------------------------- MODULE MCRuntimeBridge ---------------------------
EXTENDS RuntimeBridge
=============================================================================
