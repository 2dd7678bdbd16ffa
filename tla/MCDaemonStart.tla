--------------------------- MODULE MCDaemonStart ---------------------------
EXTENDS DaemonStart, TLC

Symmetry == Permutations(Processes) \cup Permutations(Units)
=============================================================================
