------------------------------ MODULE MCRooms ------------------------------
EXTENDS Rooms, TLC

CONSTANTS ann, bob, cyd, phone, bobs

\* cyd's server is another one.
TheServers == ann :> 1 @@ bob :> 1 @@ cyd :> 2
TheHolders == phone :> ann @@ bobs :> bob
TheVeterans == <<ann, cyd>>

Symmetric == Permutations(Calls)
=============================================================================
