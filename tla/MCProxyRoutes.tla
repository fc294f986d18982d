----------------------------- MODULE MCProxyRoutes -----------------------------
EXTENDS ProxyRoutes, TLC
\* A shared Caddyfile interleaves reads too; its actors get no failing call.
MCMaxFaults == [p \in Proxies |-> IF p = "caddyShared" THEN 0 ELSE 1]
MCSymmetry == Permutations(Colors)
================================================================================
