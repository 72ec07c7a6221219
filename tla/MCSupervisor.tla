---------------------------- MODULE MCSupervisor ----------------------------
\* Small instances of Supervisor for TLC.
EXTENDS Supervisor, TLC

\* Sessions, requests and keys are interchangeable in the safety runs.
Symmetric == Permutations(Sessions) \cup Permutations(Requests) \cup Permutations(Keys)
==============================================================================
