----------------------------- MODULE MCEventQueue ------------------------------
EXTENDS EventQueue, TLC

CONSTANTS t1, t2

MCThreads == {t1, t2}

\* The threads are interchangeable; used by runs without liveness properties.
Symmetry == Permutations(MCThreads)
================================================================================
