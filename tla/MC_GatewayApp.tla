--------------------------- MODULE MC_GatewayApp ---------------------------
EXTENDS GatewayApp
============================================================================
