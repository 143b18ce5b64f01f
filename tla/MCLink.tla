------------------------------- MODULE MCLink -------------------------------
\* Link for TLC: a station that broadcasts, one that answers it, and an interface
\* without a station.
EXTENDS Link

CONSTANTS a, g, zero, ones, discover, f1, f2

MCHome == [m \in Macs |-> IF m = g THEN 0 ELSE 1]

MCFrames ==
    {[id |-> f1, src |-> g, dst |-> BcastMac], [id |-> f2, src |-> a, dst |-> g]}

MCOwn == {[id |-> discover, src |-> RouterMac, dst |-> BcastMac]}

MCNet == [x \in Addrs |-> 0]
MCBcast == [n \in {0} |-> ones]
=============================================================================
