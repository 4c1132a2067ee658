--------------------------- MODULE MCHarvestMonitor ---------------------------
EXTENDS HarvestMonitor
=============================================================================
