# ijwrouter in TLA+

A model of the router firmware in `src/`, checked with TLC and, for its TCP
connections, user tables, account file, packet rings and DHCP, SNTP and ARP, proved
with TLAPS. Line numbers below are those of the files under
`src/src/` unless another directory is named.

## The system

The Win32 build is one thread (`win32/main.c:105-116`):

    for(;;) { if (eth_getpacket) handle_packet; dhcp_process; nbns_process;
              sntp_process; tcp_process( get_time() ); do_periodic_save; }

Frames that are for the router go up the IP stack, others are charged to a user
and forwarded. Handlers call each other synchronously: a TCP segment may run the
HTTP server, which calls `tcp_send` before the segment's handler is over. What
makes the program hard is therefore not threads but the *order* in which
segments, answers, timers, web requests, power failures and clock steps meet in
its few tables.

| component | state | operations | hard behaviour | what makes it correct |
|---|---|---|---|---|
| TCP (`ip/tcp.c`) | 40 connection rows, a send queue per row | receive, listen, send, close, `tcp_process` | loss, repetition and reordering of segments; retransmission; callbacks that send; wrap of sequence numbers; rows reused | one row per connection; events pair up; every buffer comes back once, in order; bytes read are a prefix of bytes sent; rows and buffers are freed in the end |
| users (`user.c`, `table.c`) | users, MAC mappings | `get_user`, rename, merge, charge | freeing a row moves the last one | mappings never dangle; usage is conserved |
| billing and file (`billing.c`, `user.c`) | rollover day, period end, two files | periodic save, commit, restore | power fails between steps; period ends | a restart loses little; a period starts once |
| HTTP server (`httpserv/`, `http_endpoints.c`) | request record per socket | parse, dispatch, answer | a request cut anywhere into segments | one answer per request |
| DHCP client (`dhcp.c`) | state, server, address | discover, request, answers, timeout | late and repeated answers, two servers, a server that fails | the configuration is that of one lease; a lease is got in the end |
| SNTP client and clock (`sntp.c`, `win32/hal_time.c`) | state, interval, offset | request, answer, timeout, `set_time` | resynchronisation, wrap of ticks, ARP misses, answers of a server without the time | the clock is right after an answer (it is not, see below); requests are paced and never stop |
| ARP table (`ip/arp.c`, `ip/arptab.c`, `ip/conf.c`) | 64 entries, the host's configuration | insert, query, request, reply | full table, copies of a frame on other interfaces | a host just heard is found, where it is |
| UDP (`ip/udp.c`) | 40 sockets | bind, send, dispatch | repeated binding | one socket per port |
| ethernet HAL (`win32/hal_ethernet.c`) | per interface, a ring of the frames sent last | receive, inject, forward | the router hears what it sends | a frame that is alone is charged three times at most; stations are learnt where they are |

The rest (checksums and headers, counters, MD5, web pages, the page packer) keeps
no state that an order of events could spoil; the ARM driver is not finished. `PROJECT.json` lists every component with its status, and the hazards of
the code at their lines.

## The modules

`SocketApi` - what `tcp.h` promises an application: a socket opens and closes,
buffers are lent and come back oldest first, all of them by the close.

`Tcp` - `ip/tcp.c` with arbitrary remote ends. `tcp_conns` is the table;
`owner[b]` says who may touch a buffer (the application, the stack, or nobody:
`tcp_send` forgot it); `opened` are the sockets between `ev_opened` and
`ev_closed`; `out` is what the last step sent, row by row. Each branch of
`handle_connection` is an action (`EstablishConnection`, `ConnectionReset`,
`LastAck`, `HandleFin`, `HandleData`, `HandleAck`), next to `HandleListenPort`,
`TcpNewListenSock`, `TcpSend`, `TcpClose`, `TcpProcess` and the passing of a
retransmission timeout, `Elapse`. `HandleData` includes the application's answer
from `ev_data`: no buffer, one, or a header and a body, the most that any
handler in `httpserv.c` sends. A buffer is lent at most once at a time, as the
code allocates one per response (static content may be lent to several sockets;
the stack only reads it, and each loan is a value of its own here).

`Http` - `httpserv/httpserv.c`, with `uri_decode`, `fs_find_file` and the dispatch of
`http_endpoints.c`. No variables: `EvData` takes a request record and a segment and
returns the record after the parser has read it character by character, with the
statuses of the answers given so far in `sent`.

`TcpNet` - `Tcp` and `Http` with RFC 793 clients that retransmit, and a network of
two queues per client which loses, duplicates and delays segments up to `MaxFaults`
times. A client has one of the requests in `Asked`, writes it as HTTP does and cuts
it into segments; what the server answers to each segment, `Replies`, is computed by
`Http`. `heard` is what the application was handed. `ServerClockSet` is SNTP putting
the clock back while a retransmission is due. The client is external; it is the least
a client must do.

`Ledger` - what the accounts promise: each card in exactly one account, usage
never lost.

`Users` - `user.c` on `table.c`, the packet charge of `win32/main.c` and the web
pages that edit users. Rows are indices, so that moving the last row in
`__free_table_entry` and remapping the pointers are visible. `used` and
`last_used` are history variables: what each card transferred.

`Pages` - the walks of `table.c` behind the pages that list the accounts, over the
tables of `Users`: the rows visited, the cards of each user, the commas.

`Accounts` - `Users` on a machine that loses power: `do_periodic_save`,
`save_users` in the steps between which power can fail, `restore_users`, the
rollover day. The program is single-threaded, so nothing else happens between
these steps but a power failure. At the times in `BadTimes` the temporary file of
the periodic save may not open. Time counts in save intervals; months have
equal length, which loses nothing because the page only offers the days 1 to 28.

`Arp`, `Udp`, `Sntp`, `Dhcp` - the host's side, each extending the one before. They
hold no variables: the router is one record `h` (see `Udp`), and a handler takes it
and returns it changed, as `dhcp_event` may call `send_request`, which calls
`udp_send`, which asks ARP, all within one frame. `h.out` collects the frames sent.

`Host` - `Dhcp` and `Sntp` under the IP dispatch of `ip/stack.c`, with ping and the
name service, in the main loop. An action is one iteration: a frame of a server
(`TakeAnswer`), a frame of a station (`TakeChatter`) or none (`Tick`), each followed by
`Process`. The DHCP servers, which are also the gateways to the time server, and the
station are external. Faults (`Faults`) lose or repeat an answer, turn an ACK into a NAK,
give a time answer the wrong size or the mode of a client, or let a server fail, all
others being up from then on. The
conversion of the time is in `FromNtp`: the constants of sntp.c:68 as they are, less what
1970 is from 1900 (`EpochError`, seven seconds); `Unsynchronized` tests the bits that
sntp.c:57 tests.

`Link` - `win32/hal_ethernet.c` and `handle_packet`: `rings` are the frames sent last,
`captured` what pcap holds, the router's own transmissions among it; a frame that finds
`PcapSize` others is dropped. `Receive` is `eth_getpacket` with `handle_packet` and
`eth_inject`; `SendOwn` is a broadcast of the stack itself, at any time (`arp.c:110` sends
one for each address it does not find, `dhcp.c:257` right after an OFFER); the first is
that of `dhcp_init`, before the main loop takes a frame (`own > 0`). `mixed` remembers
whether anything was ever sent while something was under way. Stations on the interfaces
are external.

`MCTcp`, `MCTcpNet`, `MCUsers`, `MCAccounts`, `MCHost` and `MCLink` give constants their
values. Operators marked `mutant` in the modules are plausible bugs used to test that
each property can fail; no specification uses them.

How they compose: `Tcp` and `Http` meet in `TcpNet`, `Users` and `Pages` in the run `users`,
`Users` and the files in `Accounts`, DHCP, SNTP, UDP and ARP in `Host`, ARP and the
driver in `Link`. There is no module of the whole program: what these groups share
are the clock (`ServerClockSet` and the time of `Accounts` stand for it) and the frames.

## The runs

| run | bounds | result |
|---|---|---|
| `tcp` | 3 rows (one listens), 2 remote ends, a buffer of two segments and an empty one, sequence space 5, so that it wraps within one buffer | passes: types, `UniqueConnections`, `OpenedMatchesState`, `BufferOwnership`, `SendSpaceContiguous`, `SegmentsReadOwnedBytes`, `ConnectionsMoveForward`, and `Tcp` implements `SocketApi` |
| `exchange` | 2 clients for one free row, two losses or steps of the clock back | passes: `ReleasedWhenRead` and the liveness of responses, closes, rows and buffers, also when the router's bare acknowledgements are lost |
| `faults` | 1 client with one of two requests cut in two, three faults of any kind, early close; eight requests cut in three, at every two places | passes: `RequestInOrder`, `ResponseIsPrefix`, `NoBufferForgotten`, `CutsDoNotMatter` |
| `stale_ack` | one delay | `ReleasedWhenRead` fails: an overtaken ACK frees the whole queue (tcp.c:298) |
| `lost_last_ack` | one loss | `RowsReleased` fails: a row stays in LAST_ACK (tcp.c:312) |
| `users` | 3 cards, 4 names, reference counts modulo 3 | passes: mappings, reference counts, usage, `PagesAddUp`, and `Users` implements `Ledger` |
| `accounts` | 2 cards, time 0 to 3, two days a month, saves may fail at time 2 | passes: tables consistent after any restart from a complete file, `LossBounded` |
| `rollover_day` | days of 3 intervals | `RollsOncePerPeriod` fails: the rollover day starts a period at every save (user.c:204, billing.c:46) |
| `host` | 2 servers, 2 ARP entries, 3 sockets, `ticks()` modulo 5; one event: a fault of any kind or a frame of the station, on either interface | passes: types, `LeaseWhole`, `SntpAfterDhcp`, `AnswersGoBack`, `RequestsPaced`, `Configured`, `KeepsAsking` |
| `server_fails` | 2 servers, one of which fails | `ConfiguredByOther` fails: the request to a server that failed after its OFFER is repeated forever (dhcp.c:231) |
| `clock_undone` | 1 server, no fault | `ClockSynchronized` fails: the second answer sets the offset back to zero (hal_time.c:23) |
| `link` | 3 interfaces, rings of 8 as in the code, pcap holds 4 frames, a broadcast of one station and a frame to it of another, 8 broadcasts of the router | passes: `RingRemembers`, `EchoesBounded`, `LearntHome`, `WarmsUp` |

The bounds are the smallest at which the cases happen: a queue of two buffers
of which one takes two segments, a wrap in the middle of a buffer, an
acknowledgement of a part of a buffer, two rows in use at once, a merge that
frees the last row and one that moves it, a period that ends between two saves.
Three cards are needed for a merge that moves a row which a third card points
to. In `tcp` the second remote end only sends SYN, ACK and RST, since the rows
interact through the table and the buffers alone.

In `host`, `ticks()` wraps after 5, less than two resynchronisations (interval 2), so
that the wrap falls into every state of the client; two servers and 2 ARP entries fill
the table, so that a third sender replaces an entry; one fault is enough for every
kind of late or missing answer, as the two servers already answer in any order. A station
that moves needs two frames and does not occur in the run; `AnswersGoBackToSender` is
proved for any number of them. In
`link` rings have the code's size, and the router sends the eight broadcasts that fill
them. A frame on its way has at most two copies in a queue of pcap, so that `PcapSize` 4
lets frames of two senders overlap and the next one be dropped. `EchoesBounded` and
`LearntHome` are about frames that are alone; that they hold for every number of
interfaces and slots is proved.

Deadlock is not checked in the violation runs and where the system may stop: clients
that are done (`exchange`, `faults`), the bound on time (`accounts`), the bound on
frames (`link`).

**Fairness.** `FairNetSpec` assumes weak fairness of the router's own steps (the
main loop runs forever and takes what arrives), of the passing of time, and of a
client that has something to do. It assumes nothing of the network but the
bound on faults. In `exchange` the segments for which the code or RFC 793 has no
repetition (`NeverRepeated`: the router's SYN-ACK and FIN, and the ACK of that FIN) are
not lost; `lost_last_ack` drops the last part of that assumption, and without the first
no connection comes about whose SYN-ACK is lost. A retransmission timer expires only when fewer than
`MaxInFlight` segments are under way, as 100 seconds are long. The timers of the router
are strongly fair: 100 seconds pass even if a client sends something again and again,
each time with quiet in between. `HostSpec` assumes that
time passes and that the main loop takes what arrives from each server; nothing of
the station or of faults. `LinkSpec` assumes that what pcap holds is taken and that
the stack goes on sending (DHCP repeats its broadcasts until it is answered); not
that stations send.

## The proofs

For every table size, segment size, sequence space, set of remote ends, ports and
buffers and every set of segments that may arrive (the assumptions `ConnsAssumption`
to `WireAssumption` of `Tcp`, which TLC evaluates on each run):

* `TcpProofs`: `TypeCorrect`, that is `Spec => []TypeOK`. The inductive invariant is
  `TypeInv`, which adds to `TypeOK` that every row is idle, a listener without a
  remote end, or a connection that has both ends and whose queued buffers are never
  acknowledged in full. The sums of `Before` are a recursive function; that they
  exist for every queue is shown by the least prefix without them.
* `ConnectionsAreUnique`, `ApplicationKnowsOpenRows` and
  `RowsMoveForward` there, from `TableInv`, the conjunction of `TypeInv` and the two
  invariants. Uniqueness alone is not inductive: the shape of the rows is needed to
  know that a new connection is never taken for a listener. Every action that takes
  no free row is one `RowStep`.
* `TcpBufferProofs`: `BuffersHaveOnePlace` and `SegmentsStayInBuffers`. Every action
  is one `QueueStep` (one queue loses buffers at its head, which go back, and gains
  buffers of the application at its end) or leaves the queues alone, and such a
  step keeps every buffer in one place. What is sent reads only the queue the step
  leaves behind, so it reads what the stack owns. `TcpImplementsSocketApi` there is the
  refinement: a kill is `Closed`, a SYN that takes a row is `Opened`, any other
  `QueueStep` is an `Exchange` or a stutter.
* `QueuesTileSequenceSpace`, in `TcpProofs` too. A queue without its head still
  tiles, `tcp_send` appends at `next_outgoing_seq_no`, and a FIN takes the number
  after the last buffer; all of it modulo `SeqSpace`.

So every property of the run `tcp` is also proved.

For every number of clients and rows, every set of faults and any number of them, every
network (`Reliable` may be anything), every initial sequence number, and requests and
answers shorter than the sequence space (`LengthAssumption`; 2^32 in the code), of which
each segment is answered by nothing, a header, or a header and a body
(`AnswersAssumption`, as in `httpserv.c`):

* `TcpNetProofs`: `RequestsStayInOrder` and `ResponsesArriveAsSent`, from `NetInv`, which
  says of every segment under way, queued buffer, row and client where it belongs in the
  one stream of answers: a data segment of the router carries the units from `o` on and is
  numbered `Num(o)`, so does a queued buffer, a row that has heard `n` units numbers its
  next one by the length of the first `n` answers, and a client that has read `g` units
  expects `Num(g)`. Neither property is inductive without all four: an old segment, a
  retransmission from inside a buffer that was acknowledged in part, or a row opened again
  by an old SYN only does no harm because of what `NetInv` says of it. That the client
  drops what it has already read is `SkipRight`: a segment whose distance to the expected
  number, modulo `SeqSpace`, is less than its length starts at or before it, because the
  stream is shorter than the sequence space. The hypothesis of `ResponsesArriveAsSent`,
  `AnsweredAsExpected`, speaks of constants only and is what the parser of `Http` makes of
  the requests; it is a part of `CutsDoNotMatter`, which TLC checks.
* `NetTypeCorrect` there: the router stays well typed in this composition.
* `TcpReleaseProofs`: every step of the router in `TcpNet` is one that `Tcp` allows
  (`NetIsStep`), so that what is proved of `Tcp` for any segments holds of `TcpNet`:
  `NetKeepsTcp` (uniqueness, pairing, ownership, tiling, segments within buffers),
  `NetMovesForward` and `NetImplementsSocketApi`. The theorems are stated anew because the
  segments of `TcpNet` come from its queues and not from `Wire`. The step needs
  `AnswersInv`: an answer can only be sent if its buffers are the application's, and they
  are, because a buffer the stack still has is queued for an earlier answer of this row or
  for another client, and answers have different buffers (`BuffersAssumption`: a buffer
  stands for one call of `tcp_send`).
* `HttpForgetsNoBuffer` there: the HTTP server sends from within ev_data only, and the
  data of a client that the router has not heard yet comes before its FIN, so the
  connection is ESTABLISHED whenever the server sends; what tcp.h:22 promises and `Tcp`
  alone does not keep holds of the program.
* `ReleasedOnlyWhenRead` there, for a network that loses segments but keeps them in order
  (`InOrderNet`; `stale_ack` shows that it is needed). `ReleaseInv` says of the
  acknowledgements on their way to a row that they come in order and lie between what the
  row knows and what the client has read, and of the buffers a row was given that they
  are queued or read. What a drop count frees is located in the stream of answers
  (`AckAdvances`), where the client has read on (`PlacedIsRead`).

For every finite set of MAC addresses (`MacsAssumption`), every set of names and packet
lengths, every width of the reference counts and every bound on what is charged, and so for tables of any size:

* `UsersProofs`: `TablesTyped`, `MappingsStayValid`, `ReferencesStayCounted` and
  `UsageStaysConserved`, from one inductive invariant. `UsersInv` says of the tables
  that they are `Sound` - typed, mappings valid, counts right, usage conserved - and
  that a card without a mapping has transferred nothing. `Sound` takes the tables as
  parameters, because a merge passes through tables that are not: after `Remap` the
  row that is merged has no card left, so `Sound` is stated of all rows but it until
  `Free` has put the last row in its place. The counts are residues modulo `RefMod`,
  hence the lemmas about sums of remainders; usage is a sum over a set of mappings,
  a recursive function of the library whose existence and step are shown by the
  least subset for which they would fail.
* `UsersImplementLedger` there is the refinement: a row that gains usage, a name or
  a card, an absorbed row and a row that moves, each as a step or a stutter of
  `Ledger`. That rows stay different accounts needs `MappingsValid` and
  `ReferencesCounted`: each has a card of its own.
* `PagesStayRight` there, of the walks in `Pages`. A walk is a recursive function of the
  rows visited; that it exists and visits the rows in use once each, in order, is shown by
  the least row for which it would not, and what the pages add up then follows from
  `UsersInv`.
* `AccountsProofs`: `RestoredReferencesCounted` and `RestoredUsageConserved`, as
  `Accounts` is more than `Users`: what a file holds, complete or not, restores `Sound`
  tables (`SoundInv`), at every step of a save. `RestartsLoseLittle` is the action
  property of the run `accounts`, from `LossInv`: how far the save of this interval
  has come, and how much of what was charged each file must therefore hold.

For every ring size from two on, every set of interfaces, stations and frames:

* `LinkProofs`: `RingsRemember`. The invariant describes a ring by the number of
  frames logged: while it fills, the slots written and those never written (whose
  filler equals no frame, `LinkAssumption`), and then which frame each slot holds,
  counted back from `head`.
* `StationsLearntHome` there: `LearntHome`. With nothing else under way a broadcast goes
  through few stages, which `LearntInv` lists: not sent on yet, `Fresh`; `SentOn`, when
  each ring it was sent to has it as its newest frame, which the ring does not look at;
  `Astray`, once the copy from one of those interfaces was taken and the station learnt
  there; and `DyingOut`. What saves it is that the second sending makes every ring but
  two recognise the frame, and sends the one copy home that will be taken and learnt.
  An interface on which nothing was ever sent would break this: its ring matches no
  frame, so the first copy is taken, but once it was sent to it is deaf until it is full,
  to the copy that goes home too. The broadcast of `dhcp_init` rules that out: after it
  a frame is only taken where the ring is full. The ARP table is a part of
  the invariant (`ArpInv`: one entry per address), `RingMeans` decides what is dropped.
* `EchoesStayBounded` there: `EchoesBounded`, from the same stages. A frame was taken once
  when it is `SentOn`, twice when it is `Astray`, three times when it is `DyingOut`, and
  then no ring it may be heard from takes it again. pcap may drop any copy: that only
  ends the frame sooner.

For every set of servers, addresses and interfaces, every size of the ARP table,
range of `ticks()` and set of timeouts below it, with room for three sockets or more
and a station whose address is no broadcast address (`SocketsAssumption`,
`StationAssumption`; the code opens three of 40 sockets):

* `HostProofs`: all five invariants of the run `host`. A handler is a function of the
  router's record, and each has a lemma about what it leaves. `HostInv` says that the
  router is `Right` - typed, its sockets different, the third one open exactly while
  DHCP is done and SNTP runs, one ARP entry per address -, that its configuration is
  `Whole` unless `late`, that what is under way are frames that servers send, and that
  it is `Paced`: until `RESYNC_INTERVAL` has passed, SNTP waits for a `next_sync_time`
  that is the time of the answer plus the interval, or the answer came less than the
  interval before the wrap. `AnswersGoBackToSender` adds that the entry of the frame
  just heard is the one a query finds. What a server answers to a sequence of frames is
  a recursive function; it exists for every sequence by the least beginning without it.

Only model-checked: the parser of `Http` (`CutsDoNotMatter`) and liveness, which is out
of the prover's reach. What the parser makes of a request is a recursive function of its
characters, so an induction over data.

## What the code does that one may not expect

Met while modelling. Those with a run that shows them are in `PROJECT.json` under
`findings`; the others are built into the definitions and properties named here, which say
exactly what is left.

* An ACK that is overtaken by a newer one frees the whole send queue (`stale_ack`).
* A lost FIN or ACK of the FIN leaves a row in LAST_ACK (`lost_last_ack`). A lost SYN-ACK
  is never made up for either, nor is the acknowledgement of a part of a request; a client
  that closes its side early may lose the response, or its request when the FIN overtakes
  it. The assumptions of `exchange` leave these out (`NeverRepeated`, `HalfClose`, requests
  of one segment).
* `tcp_send` on a connection that is not ESTABLISHED forgets the buffer (tcp.c:391), although
  tcp.h:22 has it passed back; the HTTP server never comes to that (`NoBufferForgotten`).
* Every save of the rollover day starts a period (`rollover_day`).
* A failed save of the accounts is not repeated before the next interval (`LossBounded`),
  and CopyFileA is not the "atomic overwrite" of user.c:148: `LossBounded` is about
  restarts from a complete file.
* A server that fails after its OFFER is asked forever (`server_fails`); `Configured` says
  that nothing else keeps the host from a lease.
* A late OFFER or NAK renumbers a configured host (dhcp.c:218 comes before 249);
  `LeaseWhole` is about a host that heard none (`late`).
* The clock is as if never set after the second answer (`clock_undone`), and seven seconds
  ahead after the first, which `ClockSynchronized` allows for (`EpochError`). The answer of a
  server without the time is taken, while one in the mode of a client is passed over
  (`Unsynchronized`).
* A time answer that comes within `RESYNC_INTERVAL` of the wrap of `ticks()` is followed by
  requests at every turn (`RequestsPaced` says that only then); a request due at the last
  tick is never sent (excepted in `KeepsAsking`).
* An interface is deaf from its first frame to its eighth (`WarmsUp`), and hears its
  newest frame back, which is then forwarded and charged again (`RingRemembers`), so that a
  broadcast is charged three times even with two interfaces (`EchoesBounded`). While
  broadcasts overlap, a frame may be charged more often - with rings of four slots TLC
  finds a fourth time - and a station may stay learnt on the wrong interface; both
  properties except this (`mixed`).
* The final line feed of a request in a segment of its own has it answered twice, the
  second time with its URI decoded twice (excepted in `CutsDoNotMatter`, which says that no
  other cut matters).
* Without a property: HEAD is answered with a body, and a Digest response computed
  for HEAD is refused, because httpserv.c:269 says "GET"; a header line without a
  colon ends the request.

## What is not modelled

Contents of headers and checksums; sizes of the HTTP server's name and value buffers;
the options of DHCP in an order in which the type comes late; time answers that take
longer than a second; dynamic UDP ports and `udp_close`, which have no caller; opening
the interfaces, frames that pcap cuts or cannot send; the size limits of the user
tables, which the code does not check either; a restart from an incomplete account
file, whose contents the code takes unchecked, or with another binary: the `user` pointers of the
file are moved by the base of the mappings (user.c:181-182) and are row indices here, which
is the same only where the tables lie as they did when the file was written; frames of which
one is the beginning of another, as hal_ethernet.c:50 compares the shorter length. The ARM driver is not finished: it
never fills a packet, sends nothing and hooks no interrupt handler. Counters, MD5,
logging, the pages and the page packer have no behaviour that an order of events could
spoil. Nine hazards have no property; `PROJECT.json` says why.

## Plan

1. `SocketApi`, `Tcp`, `TcpNet`, `Users`, `Accounts`: done.
2. `Arp`, `Udp`, `Sntp`, `Dhcp` and their composition `Host`: done.
3. `Http` under `TcpNet`: done.
4. `Link`: done. `Pages`, `uri_decode`, `fs_find_file`: done.
5. Proofs: `Tcp`, `TcpNet` as a use of `Tcp`, its streams and the release of its buffers,
   `Users` with its refinement of `Ledger`, `Pages`, `Accounts`, `Link` and the
   invariants of `Host` are done.
6. Left: which period usage belongs to (a restart on the rollover day, a clock that jumps
   when SNTP first answers), which needs the true time beside the clock in `Accounts`; a
   bound on the echoes of broadcasts that overlap.
