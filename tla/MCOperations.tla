---------------------------- MODULE MCOperations ----------------------------
\* Small instances of Operations for TLC.
EXTENDS Operations

\* A recovery is queued after a death or after an observation that a request made stale, so no
\* behaviour within the bounds holds more operations than this.
AllOperationsEnd == OperationsEnd(2 * MaxRequests + MaxFaults)
==============================================================================
