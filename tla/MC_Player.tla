----------------------------- MODULE MC_Player -----------------------------
EXTENDS Player
============================================================================
