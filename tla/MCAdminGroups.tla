----------------------------- MODULE MCAdminGroups -----------------------------
EXTENDS AdminGroups

CONSTANTS t1, t2
================================================================================
