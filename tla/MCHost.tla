------------------------------- MODULE MCHost -------------------------------
\* Host for TLC: two servers that grant themselves as routers, and a station.
EXTENDS Host

CONSTANTS zero, ones, bcast, h1, h2, a1, a2, ts, x, lan, far, nowhere, everywhere

MCNet ==
    [a \in Addrs |-> CASE a = zero -> nowhere [] a = ones -> everywhere
                       [] a = ts -> far [] OTHER -> lan]

MCBcast ==
    [n \in {nowhere, everywhere, far, lan} |-> IF n = lan THEN bcast ELSE ones]

MCLease == [s \in Servers |-> IF s = h1 THEN a1 ELSE a2]

MCRouter == [s \in Servers |-> s]
=============================================================================
