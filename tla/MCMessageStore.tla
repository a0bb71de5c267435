--------------------------- MODULE MCMessageStore ---------------------------
EXTENDS MessageStore, TLC

\* Keys and texts are interchangeable; conversations are too.
Symmetric == Permutations(Keys) \cup Permutations(Conversations)
=============================================================================
