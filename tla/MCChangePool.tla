----------------------------- MODULE MCChangePool -----------------------------
EXTENDS ChangePool

CONSTANTS p1, p2, w1, w2
================================================================================
