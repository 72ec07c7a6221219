--------------------------- MODULE MCCatalogSync ---------------------------
\* Small instances of CatalogSync for TLC.
EXTENDS CatalogSync
==============================================================================
