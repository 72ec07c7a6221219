--------------------------- MODULE MCModelCatalog ---------------------------
\* Small instances of ModelCatalog for TLC.
EXTENDS ModelCatalog
==============================================================================
