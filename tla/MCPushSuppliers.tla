--------------------------- MODULE MCPushSuppliers ---------------------------
EXTENDS PushSuppliers

CONSTANTS p1, p2, w1, w2

\* p1 pushes batches of two events, or fewer after its interval; p2 single events.
MCBatch == p1 :> 2 @@ p2 :> 1
MCLastEvent == p1 :> 3 @@ p2 :> 1

\* Two workers for one proxy, one worker for two, and proxies with own threads.
MCChannels == {[pool |-> {w1, w2}, proxies |-> {p1}], [pool |-> {w1}, proxies |-> {p1, p2}],
               [pool |-> {}, proxies |-> {p1}], [pool |-> {}, proxies |-> {p2}]}
================================================================================
