-------------------------- MODULE MCGatewaySession --------------------------
EXTENDS GatewaySession

CONSTANTS s1, s2, s3
=============================================================================
