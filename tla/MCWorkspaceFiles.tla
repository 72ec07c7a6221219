-------------------------- MODULE MCWorkspaceFiles --------------------------
\* Small instances of WorkspaceFiles for TLC.
EXTENDS WorkspaceFiles
==============================================================================
