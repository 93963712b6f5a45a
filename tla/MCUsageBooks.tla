---------------------------- MODULE MCUsageBooks ----------------------------
EXTENDS UsageBooks

CONSTANTS w1, r1
=============================================================================
