------------------------------- MODULE MCOffers -------------------------------
EXTENDS Offers, TLC

CONSTANTS p1, p2, p3, a1, a2, c1, c2, t1

MCAdminOf == p1 :> a1 @@ p2 :> a1 @@ p3 :> a2
MCSymmetry == Permutations(Callers)
================================================================================
