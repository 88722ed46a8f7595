------------------------------- MODULE MCOplocks -------------------------------
EXTENDS Oplocks, TLC

CONSTANTS t1, t2, t3, o1, o2, o3, o4, o5, o6, e1, e2, e3

\* The threads are interchangeable; used by the run without liveness properties.
Symmetry == Permutations(Threads)
================================================================================
