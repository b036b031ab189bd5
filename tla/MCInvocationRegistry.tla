------------------------ MODULE MCInvocationRegistry ------------------------
EXTENDS InvocationRegistry
=============================================================================
