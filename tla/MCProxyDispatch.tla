---------------------------- MODULE MCProxyDispatch ----------------------------
EXTENDS ProxyDispatch, TLC

CONSTANTS a1, a2, t1, t2, d1, d2

\* Two groups, each with one admin and an admin thread.
MCServerOf == a1 :> t1 @@ a2 :> t2
================================================================================
