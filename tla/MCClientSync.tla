---------------------------- MODULE MCClientSync ----------------------------
EXTENDS ClientSync

\* A client whose cursor stays good, with everything else that may happen to it,
\* and one that starts over when its cursor expired.
Steady == [messages |-> 1, page |-> 1, weeks |-> 0, drops |-> 1, fails |-> 1,
           timers |-> TRUE, lists |-> TRUE]
StartsOver == [messages |-> 2, page |-> 4, weeks |-> 1, drops |-> 0, fails |-> 1,
               timers |-> FALSE, lists |-> FALSE]

BothRegimes == {Steady, StartsOver}
=============================================================================
