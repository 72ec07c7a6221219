------------------------------- MODULE MCTurns -------------------------------
\* Small instances of Turns for TLC.
EXTENDS Turns, TLC

\* Requests and turn ids are interchangeable in the safety runs.
RequestSymmetry == Permutations(Requests)
Symmetric == RequestSymmetry \cup Permutations(Turns)

\* Two turns in one binding of a session, or one turn in two bindings.
TurnsInUse == {call[r].turn : r \in Requests} \cup {t \in Turns : \E s \in Sessions : turns[s][t] # "none"}
TwoTurnsOrTwoBindings == drawn < 2 \/ Cardinality(TurnsInUse \ {None}) < 2
==============================================================================
