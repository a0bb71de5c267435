----------------------------- MODULE MCRealtime -----------------------------
EXTENDS Realtime, TLC

CONSTANTS ann, phone

TheServers == ann :> 1
TheHolders == phone :> ann
NoVeterans == <<>>
=============================================================================
