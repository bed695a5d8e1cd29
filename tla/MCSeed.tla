------------------------------- MODULE MCSeed -------------------------------
EXTENDS Seed, TLC
=============================================================================
