---------------------------- MODULE MCPeerCheck ----------------------------
EXTENDS PeerCheck
=============================================================================
