---------------------------- MODULE MCClientSend ----------------------------
EXTENDS ClientSend
=============================================================================
