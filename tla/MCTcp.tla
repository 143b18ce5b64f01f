------------------------------- MODULE MCTcp -------------------------------
\* Tcp for TLC: arbitrary segments from a few remote endpoints.
EXTENDS Tcp

CONSTANTS r1, r2, p1, b1, b2

\* A buffer of two segments and an empty one.
MCBufLen == [b \in Buffers |-> IF b = b1 THEN 3 ELSE 0]

\* The combinations of flags that distinguish a branch of the code.
MCFlags == {{"SYN"}, {"ACK"}, {}, {"FIN", "ACK"}, {"FIN"}, {"RST"}}

\* r1 sends whatever it likes; r2 opens, is established and resets, so that
\* two connections live side by side.
MCWire ==
    {s \in [remote : Remotes, port : Ports, flags : MCFlags, seq : 0..1,
            ack : SeqNo, len : 0..1, data : {NoBuf}, ofs : {0}] :
        /\ "ACK" \notin s.flags => s.ack = 0
        /\ s.len = 1 => s.flags \in {{"ACK"}, {}}
        /\ s.remote = r2 => /\ s.flags \in {{"SYN"}, {"ACK"}, {"RST"}}
                            /\ s.seq = 0 /\ s.ack = 0 /\ s.len = 0}
=============================================================================
