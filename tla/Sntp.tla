-------------------------------- MODULE Sntp --------------------------------
(***************************************************************************)
(* The SNTP client (src/src/sntp.c) and the clock it sets                   *)
(* (win32/hal_time.c).                                                      *)
(*                                                                          *)
(* ticks() has a finite range; next_sync_time is compared with it as the    *)
(* code does, without regard to the wrap.  Times are relative to time(0),   *)
(* the clock of the machine, which runs at the right speed; an answer takes *)
(* less than the second that is its unit.  Of the first byte of a message   *)
(* the mode is kept, which is all that the code looks at.                   *)
(***************************************************************************)
EXTENDS Udp

CONSTANTS
    TickMod,            \* ticks() is a u32: 2^32 in the code
    TIMEOUT, MIN_INTERVAL, MAX_INTERVAL, RESYNC_INTERVAL,
    TimeServer          \* its address

ASSUME SntpAssumption ==
    /\ TickMod \in Nat \ {0} /\ TimeServer \in Addrs
    /\ {TIMEOUT, MIN_INTERVAL, MAX_INTERVAL, RESYNC_INTERVAL} \subseteq 1..(TickMod - 1)
    /\ MIN_INTERVAL <= MAX_INTERVAL

SNTP_PORT == "sntp"
SNTP_SIZE == 48     \* sizeof(sntp_t)

\* 1970 began 2208984820 + 3980 seconds after 1900; the code takes off less.
EpochError == 3980 - (3600 + 360 + 13)

\* txtime of a message, as the code converts it.
FromNtp(time) == time + EpochError

SntpNotReady == [state |-> "NOT_READY", interval |-> MIN_INTERVAL, next |-> 0]

TicksIn(h, n) == (h.ticks + n) % TickMod

SntpInit(h) ==
    LET g == UdpNewSock(h, SNTP_PORT)
    IN  IF g = h THEN h ELSE [g EXCEPT !.sntp.state = "IDLE"]

SntpSendRequest(h) ==
    UdpSend(h, SNTP_PORT, TimeServer, [port |-> SNTP_PORT, type |-> "REQUEST"])

\* get_time and set_time: the offset is taken from a time that contains it.
GetTime(h) == h.offset

SetTime(h, time) == [h EXCEPT !.offset = time - GetTime(h)]

\* The bits tested are the last of the mode; a server says that it is not
\* synchronized in the leap indicator, the first two.
Unsynchronized(m) == m.mode % 4 = 3

\* mutant: the next synchronisation is not put off
GetResponseSoon(h, m) ==
    IF Unsynchronized(m) THEN h
    ELSE SetTime([h EXCEPT !.sntp.interval = MIN_INTERVAL, !.sntp.state = "IDLE"],
                 FromNtp(m.time))

\* sntp_get_response, whatever the state.
GetResponse(h, m) ==
    IF Unsynchronized(m) THEN h
    ELSE SetTime([h EXCEPT !.sntp = [state |-> "IDLE", interval |-> MIN_INTERVAL,
                                     next |-> TicksIn(h, RESYNC_INTERVAL)]],
                 FromNtp(m.time))

SntpEvent(h, m) == IF m.size # SNTP_SIZE THEN h ELSE GetResponse(h, m)

\* mutant: the interval is not limited
UnlimitedBackoff(interval) == 2 * interval

Backoff(interval) == IF 2 * interval > MAX_INTERVAL THEN MAX_INTERVAL ELSE 2 * interval

\* mutant: a request that is not answered is waited for
SntpProcessWaiting(h) ==
    IF h.sntp.state = "IDLE" /\ h.ticks > h.sntp.next
    THEN [SntpSendRequest(h) EXCEPT !.sntp.state = "WAITING_FOR_RESPONSE"]
    ELSE h

SntpProcess(h) ==
    CASE h.sntp.state = "NOT_READY" \/ h.ticks <= h.sntp.next -> h
      [] h.sntp.state = "IDLE" /\ h.ticks > h.sntp.next ->
            [SntpSendRequest(h) EXCEPT !.sntp.state = "WAITING_FOR_RESPONSE",
                                       !.sntp.next = TicksIn(h, TIMEOUT)]
      [] OTHER ->
            [h EXCEPT !.sntp = [state |-> "IDLE",
                                interval |-> Backoff(@.interval),
                                next |-> TicksIn(h, @.interval)]]
=============================================================================
