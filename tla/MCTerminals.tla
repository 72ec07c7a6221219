----------------------------- MODULE MCTerminals -----------------------------
\* Small instances of Terminals for TLC.
EXTENDS Terminals, TLC

\* Requests and connections are interchangeable in the safety runs.
Symmetric == Permutations(Requests) \cup Permutations(Conns)
==============================================================================
