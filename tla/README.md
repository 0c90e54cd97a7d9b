# esp_wiz_toe: specifications and proofs

TLA+ modules for the firmware of this repository on a WIZnet W5500 or W6300:
the socket layer that puts BSD sockets on the chip's hardware sockets (TOE),
the MACRAW Ethernet drivers, what runs above both (DHCP client and the client
and server examples), and the SPI transport below. Every definition is
translated from the C source; `PROJECT.json` maps it to its lines.

## 1. The system

```
 examples: tftp, mqtt, pppoe, dhcp_dns, loopback, http, ssl, upnp, sntp, ...
        |  BSD sockets                    |  net_sock_ops
        |                          DHCP client (wsm_dhcp.c)
        v                                 v
 socket wrap (wiztoe_wrap.c)        either backend
        |                                 |
        v  TOE backend                    v  Ethernet backend
 TOE socket layer (wiznet_toe.c)    LwIP, esp_eth (ESP-IDF)
        |                                 |
        v                                 v
 ioLibrary_Driver (not in the tree) MAC and PHY drivers (esp_eth_*_w5500/w6300)
        |                                 |
        v                                 v
 SPI transport (wsm_driver_spi.c)   SPI device of ESP-IDF under a mutex
        +----------------+----------------+
                         v
                 W5500 or W6300
```

Nothing persists across a restart; the one restart the code makes itself, the
reboot that ESP_ERROR_CHECK causes when bring-up fails, is modelled. Concurrency
comes from FreeRTOS tasks and timers, from the chip, which changes its
registers between any two reads of them, and from the network.

### Components

| Component | State | Operations | Hard behaviours | Correct when |
|---|---|---|---|---|
| TOE tables (`wiznet_toe.c`) | `g_desc[]`, `g_sn_owner[]`, Sn_SR | socket, bind, listen, accept, connect, shutdown, close, reserve, release; re-open, disarm, re-arm | the chip moves Sn_SR on its own; accept() moves its listener to another socket and yields; no lock; sockets run out | the tables are inverse; a connection keeps its socket; it behaves as BSD accept(); no listener is forgotten; calls return |
| TOE data path, wrap (`wiznet_toe.c`, `wiztoe_wrap.c`) | RX/TX buffers, Sn_SR, waiting mode | recv, send, readv, writev, shutdown, timeouts | size and state read one after the other; partial transfers | no byte lost, repeated or reordered; waits end |
| SPI transport (`wsm_driver_spi.c`) | `s_ctx`, mutex, chip select, bus | init, deinit, enter, exit, select, deselect, transfer | mutex timeout is not reported upward; bus refused; partial init | one access per select period, by the mutex holder; nothing leaks |
| MAC drivers (`esp_eth_mac_w5500.c`, `_w6300.c`) | packets_remain, RX_RD, Sn_CR, Sn_IR, tx_tmo | receive task, flush, transmit, interrupt, poll timer, init, start, stop, set_link, multicast filter | two tasks on one command and one interrupt register; errors in the middle of a frame | frames in order and once; none left in the chip; transmit() tells the truth; the task rests |
| PHY drivers, esp_eth bring-up (`esp_eth_phy_*.c`, `net_backend_eth.c`) | link_status, mode, locks, `s_eth_connected` | reset, get_link, set_link, autonego, speed, duplex; wiznet_net_init() | the check races stop(); a report that fails half way; register locks of the W6300 | the socket follows the cable; the address takes; what is stopped stays quiet |
| DHCP client (`wsm_dhcp.c`) | fd, state, xid, server id, offer, tries, timers, lease | start, poll, stop, create, destroy | loss, repetition, delay; two servers; renewal | the lease is one this round asked for; it stays through failed renewals |
| TFTP client (`tftp_core.c`, `tftp_client.c`) | state, block number, server port, resend flag | request, DATA, ACK, OACK, ERROR, tick | lost, repeated, reordered blocks; two sessions | a file that is reported received is whole; transfers end |
| MQTT client (`mqtt.c`) | reader, keep-alive times, packet id | connect, subscribe, publish, ping, acknowledge | packets in parts and too large; silence; send() that would block | acknowledgements in order; the broker has no reason to drop the client; a dead broker is noticed |
| PPPoE client (`PPPoE.c`) | state, flags, retries, session, address | discovery, LCP, PAP, CHAP, IPCP | requests and answers in any order, lost, late, repeated | a reported session is the server's, with its address; it connects |
| DHCP/DNS example (`dhcp_dns.c`) | client record per interface | DHCP exchange, renewal, DNS query | two tasks hear each other's broadcasts | nobody takes another's lease; each ends or gets one |
| TCP examples (loopback, multi_socket, http, ssl) | session, buffer, mbedTLS's pending record | accept, read, echo, answer, reconnect | writes that would block in the middle; requests that fill the buffer; peers that do not read | all is echoed in order; one answer, to a request that has been read; sessions end |
| UPnP client (`upnp_core.c`, `upnp_client.c`) | step, mapping | discover, describe, subscribe, add, delete | answers cut, lost, refusals, applied all the same | what a router's own answer makes it report is true; it ends |
| UDP examples (sntp, udp, multicast, netbios) | queues, attempts, descriptor and joined socket | query, echo, join, answer | datagrams seen on two interfaces, bound or not; from descriptor to socket | each reply is to what came in, once, and a bound socket's is its interface's; the group is on the own socket |
| DNS resolver, TOE bring-up, Wi-Fi backend, network_install | - | - | none of their own | not modelled (section 6) |

`PROJECT.json` lists the hazards of this code, each at its line, with the
properties that cover it or the reason why none does.

## 2. The modules

| Module | Models | Composed in | Proofs |
|---|---|---|---|
| `BsdAccept` | what listen() and accept() of BSD promise | refined by `ToeSockets` | `ToeAcceptProofs` |
| `ToeSockets` | the tables, Sn_SR of every socket, clients, tasks | `MCToeSockets` | `ToeSocketsProofs`, `ToeAcceptProofs` |
| `ToeStream` | recv, send, shutdown, readv, writev of one connection | `MCToeStream` | `ToeStreamProofs` |
| `SpiBus` | mutex, chip select, shared bus, init and deinit | `MCSpiBus` | `SpiBusProofs` |
| `MacW5500` | data path of the W5500 MAC driver over Sn_CR, Sn_IR and RX memory | `MacW6300` | `MacProofs` |
| `MacW6300` | the W6300's, and a board of either kind | `MCEthernet` | `MacProofs` |
| `EthLink` | bring-up, PHY and link of both chips | `MCEthernet` | `EthLinkProofs`, `MacProofs` |
| `EthFilter` | multicast filter and modes, Sn_MR, of both chips | `MCEthernet` | `MacProofs` |
| `DhcpClient` | client, chip address, servers, lossy LAN | `MCDhcpClient`, `MCFirmware` | `DhcpClientProofs` |
| `Tftp` | client with its tick, server sessions, lossy network | `MCFirmware` | `FirmwareProofs` |
| `Mqtt`, `DhcpDns`, `TcpServers`, `Upnp`, `UdpServices` | five more examples, each with its other side | `MCFirmware` | `FirmwareProofs` |
| `Pppoe` | PPPoE client, chip registers, server | `MCFirmware` | `FirmwareProofs` |

ioLibrary, the chips, LwIP, esp_eth and the servers are not in the tree. They
are modelled from what `src/` expects of them, in definitions marked external
in the map.

### ToeSockets and BsdAccept

`used`, `udp`, `opened`, `listening` are the flags of `toe_desc_t` as sets of
descriptors; `sn` and `owner` are `g_desc[].sn` and `g_sn_owner`; `sr` and
`client` are a hardware socket's status and the remote client on it; `hasIp`
is SIPR # 0; `task` says which call a task is in and where. `peer` is history:
the client a descriptor was returned for by accept(). `syn` says how far each
client has come: each connects once.

`wiznet_toe.c` has no lock. A call is cut into steps at `toe_yield_1ms()` and at
chip accesses. With `Preempt = FALSE` a task between two chip accesses keeps
the processor (`MayRun`), while the chip and the clients move; with
`Preempt = TRUE` other tasks move too. A step reads the state it depends on when
the code does: accept() reads Sn_SR in `PollArmed` and the socket number again
in `Established`. `ShareFds = FALSE` is the use the code is written for: no
task uses a descriptor another one is blocked on. FIN_WAIT, CLOSING, TIME_WAIT
and LAST_ACK are one status, since the code never tells them apart. Ports are
left out: a SYN goes to any listening socket.

`BsdAccept` knows clients that have not called, connections that wait and the
client behind each descriptor. `ToeSockets` implements it (`Accepts`): the
waiting ones are those the chip holds on some hardware socket and nobody has
accepted, the client behind a descriptor is `peer`. The chip has no backlog, so
the listener's own socket becomes the connection and the listener moves; the
refinement says that this shows neither to clients nor to the application.

### ToeStream

One established connection, one reading and one writing task. `rx`, `tx` are
the chip's buffers, `got`/`written` what the application has been told,
`sent`/`arrived` the peer's side; bytes are numbered, so order, loss and
repetition show. Every register read is a step. `rd` and `wr` carry what the
earlier buffers of the iovec did. A deadline is a choice: with a timeout a
waiting call may give up at any turn.

### SpiBus

Every register access of ioLibrary is enter, select, header transfer, data
transfer, deselect, exit. `lock` and `depth` are the recursive mutex, `bus` the
holder of the host bus, `csActive` both the flag and the line, `frame` the
transfers since chip select fell. `Timeouts` lets a wait for the mutex end at
`lock_timeout_ms`; `BusFails` lets `spi_device_acquire_bus()` return an error;
`SpiInitFails` fails init at each of its steps.

### MacW5500, MacW6300

A step is a register access or a burst, each of which is under the driver's
mutex; a sequence is not, so the receive task (`task`), transmit() (`call`) and
the chip interleave on Sn_CR (`cr`) and Sn_IR (`ir`). Frames are numbered as they
arrive; RX memory is the sequence `rx` of them, `rd` how many RX_RD has passed
without RECV, `astray` that it is not at a frame. `misread` is history: a flush,
which reads the frame header for itself, has gone by a corrupted one. It either
drops the frame (`FlushWhole`) or leaves RX_RD between two (`FlushAstray`), and on a
W6300 a length below two is an error that moves nothing (`FlushRefused`). `faults` says what the board
suffers: register reads or writes that fail, headers corrupted, no memory, a
slow SEND, a flapping link, a chip slow to take a command. After a failed read
the task goes on as the code does, with `remain` (`packets_remain`) as it was.
`MacW6300` extends it with what differs, the path of a refused frame, and
`board` chooses the driver.

### EthLink

`locks` are the W6300's register locks, shut by every reset; a write to a locked
register is lost without an error. `mode`, `working` and `runs` are the PHY mode
written, in use, and whether the PHY is out of reset; `sock`, `simr`, `timer` the
MAC driver's; `fsm`, `given`, `auto_nego_en` esp_eth's; `link_status` the PHY
driver's; `connected` is `s_eth_connected`. A check of the link is three steps
(read, report, store), since it runs in the timer's task; the application's
calls are one step each, which may fail in the middle. A failure at bring-up is
a `Reboot`. A few outcomes of one failing call are merged into the set of the
register values it may leave.

### EthFilter

`smr` is Sn_MR, as the set of its bits that are set; `mcast_cnt` the driver's
counter of groups; `groups` how many the stack has joined. A call is two steps,
the read of Sn_MR and the write with what follows it, because the stack's thread
and the application's call can come between one another.

### The examples

A module holds one program and its other side. Time is what the program counts:
ticks (`Tftp`), receive timeouts (`Mqtt`), calls (`Pppoe`), `due` and `renew`
for comparisons with a clock (`DhcpClient`, `DhcpDns`).

* `Tftp`: `state`, `block`, `port`, `flag`, `time_cnt`, `retry_cnt`, `progress`
  are the globals of `tftp_core.c`, `step` is the task. The network is not a
  variable: block i of session p may arrive, any number of times, when the
  session has sent it (`served`). Block numbers are modulo `Wrap`.
* `Mqtt`: the stream is a sequence of cells (header, length, unit of a body),
  and the client finds packets in it by counting (`kind`, `left`). `tx`, `rx`,
  `pub`, `waited` are its times. The broker may refuse, close, go silent,
  trickle, or make send() busy. A send that fails has met a dead connection, so
  every later one fails too (`gone`): a later acknowledgement cannot overtake
  one that was lost.
* `Pppoe`: `pppoe_state`, `flags`, `goal`, counters and the registers of the chip;
  the server remembers what it has agreed to in its session, and that its
  unknown IPCP option has been given up: a request it sends again is without.
* `DhcpDns`: one record `c[i]` and one task per interface on one segment; `sent`
  is what the servers have heard, answers are what may come of it.
* `TcpServers`: six programs, each over one socket that may block, end or fail, with
  mbedTLS's rule that a record it could not send is sent on the next write. A
  chunk of an HTTP request may be marked as its end; `recv_request()` stops
  there or when its buffer of `RequestRoom` chunks is full, and
  `serve_client()` answers either. A peer that is there acknowledges when it
  likes (`Acked`, without fairness: its window may stay closed); one that has
  gone silent runs into the chip's retransmission timeout (`TimesOut`).
* `Upnp`: each step is a connection; the router may be absent, lose the
  request, obey and lose the answer, refuse, cut the answer, send something
  else, or wait for a notification to be acknowledged. `obeyed` is what it did
  with the last port action, `garbled` that the answer was not the whole of what
  a router sends.
* `UdpServices`: sntp, echo, multicast, and NetBIOS on two interfaces that hear
  the same broadcast, each socket bound to its interface or not (`pinned`: the
  binding is best effort). For the multicast join `fd` is the application's
  descriptor, `sn` the driver's table, and `SnOf` the way from one to the
  other, by `fd` less the LwIP offset.
* `DhcpClient`: `pc` and `turn` are the position in `dhcp_step()`; `wire` the
  client's last broadcast, `heard[s]` the one server s works on, taken never,
  once or several times; `buffer` the replies in the socket. `FreshXid` draws
  an id nothing on the LAN carries: a collision of random 32-bit ids is
  excluded.

`MCFirmware` instantiates them: a board runs the image of one example, chosen
at the start (`image`), so their states are not multiplied. `MCEthernet` does the
same for the data path, the link and the filter of the MACRAW driver (`part`).
The bounds of both are constants that their .cfg gives, so that what is proved
about the compositions is proved for all of them.

## 3. Runs

| Run | States | Shows |
|---|---|---|
| `toe_tables` | 427,514 | `Ownership`, `ConnectionKept`, `NoUnownedConnection`, `NoForgottenListener` and the refinement `Accepts` hold with 2 sockets, 3 descriptors, 2 tasks, 2 clients |
| `toe_live` | 78,308 | `ListenerHeals`, `ClientDelivered`, `CallsReturn` under fair scheduling |
| `toe_shared` | | violation of `Ownership`: a listener is closed under an accept() |
| `toe_preempt` | | violation of `ConnectionKept`: tasks are preempted at chip accesses |
| `toe_stream` | 329,706 | `StreamOut`, `StreamIn`, `EndIsSeen`, `WritesEnd` |
| `stream_eof` | | violation of `EofIsEnd`: the race of size and state in recv() |
| `spi_bus` | 2,784 | `FrameOwned`, `LeavesNothing`, `AccessesEnd` while waits for the mutex do not time out |
| `spi_timeout` | | violation of `FrameOwned`, once they may |
| `dhcp` | 2,636,823 | `ChipHasLease`, `LeaseRequested`, `BoundKept` with two servers and a LAN that loses, repeats and delays |
| `dhcp_request` | | violation of `RequestNamesOfferer`: the second server's offer is late |
| `eth` | 925,117 | `FramesInOrder`, `TransmitTells`, `FramesLeave`, `TaskRests` of the data path of both chips; `AddressTakes`, `StoppedIsQuiet`, `LinkSettles` of their bring-up and link; `GroupsHeard` of their filter |
| `firmware` | 487,082 | the examples: `WholeFile`, `TransferEnds` (TFTP); `AcksInOrder`, `KeptAlive`, `DeadNoticed` (MQTT); `OwnAddress`, `Connects` (PPPoE); `OwnLease` (DHCP/DNS); `GetsLease` (DHCP client); `Answered` (TCP); `TrueReport` (UPnP); `OwnReplies` (UDP); `SessionEnds` (DHCP/DNS, TCP, UPnP, SNTP) |

A violation run checks one statement the repository makes of itself; the
finding in `PROJECT.json` quotes it.

### What the properties except

Each exception is what the code does, found by a run of the property without it
(but for that of `EndIsSeen`, which keeps to what the code's comments promise):

* `FramesInOrder`, `TaskRests`: boards on which a command is lost (a failed
  write, or two commands closer than the chip takes). A lost RECV leaves RX_RD
  behind what the chip thinks, and the task counts a frame that is gone. And
  once a flush has gone by a corrupted header (`misread`): it reads the header
  for itself (`esp_eth_mac_w5500.c:774-779`, `esp_eth_mac_w6300.c:974`), so a
  second corruption there moves RX_RD between two frames.
* `FramesLeave`: a W5500 with corrupted headers keeps the frame until the next
  notification; the W6300 drops it, unless the header is corrupted on the
  flush's own read as well (`misread`): that frame stays until the next arrival,
  although `esp_eth_mac_w6300.c:1059` says it is not re-read for ever.
* `EndIsSeen`: is about the peer's FIN and a closed socket. After the
  application's own shutdown(SHUT_WR) the chip is in a closing state, and recv()
  reports the end as soon as the buffer is empty (`wiznet_toe.c:653-654`),
  although the peer may go on sending and `wiznet_toe.c:333-334` says "a
  half-closed socket must still be readable". The property demands neither; no
  run checks that sentence.
* `LinkSettles`: a failure while the link goes down (link_status is stored
  before the report, and nobody reports again), and a check overtaken by a stop.
* `StoppedIsQuiet`: the same check: it opens the socket of a stopped driver.
* `GroupsHeard`: groups the counter does not hold (their join failed, or
  set_all_multicast() cleared it, or it wrapped), and a call that comes between
  the other caller's read and write of Sn_MR. Each can block a joined group.
* `WholeFile`: files that reach the wrap of block numbers, and a short block left
  over from an earlier transfer, which ends this one whatever its number.
* `KeptAlive`: brokers that trickle, sockets that are busy.
* `OwnAddress`: a server that repeats its IPCP request after the NAK: its own
  address is taken for the client's.
* `SessionEnds`: an interface whose requests are answered with NAK for ever, since a
  NAK begins the exchange again uncounted (`dhcp_dns.c:355-358`), although
  `dhcp_dns/README.md:173` has the task exit after its last retry. That takes a
  server that refuses, or two servers that refuse no proper request: when the
  second one's offer is late, its identifier replaces the first one's (309) in
  the request that is sent again, and the round ends in a NAK. The run has both,
  and without the exception either refutes the property. And a TCP session whose
  peer is there and leaves a transmission unacknowledged for ever: SO_RCVTIMEO
  is the only bound these programs set, and send() waits for room without one
  (`wiznet_toe.c:592-617`).
* `Answered`: a TLS banner held back by a busy socket. A request that filled the
  buffer before its end is answered (`http_server.c:105`); the property says so.
* `TrueReport`: an answer that was cut or is none that a router gives (it counts as
  a refusal though the router may have obeyed, and an error whose code reads
  as 0 counts as a confirmation); a deletion that failed may have been done.
* `OwnReplies`: a NetBIOS responder whose socket could not be bound to its
  interface (`netbios.c:112` does not look) also answers what came in on the
  other.

Three statements are written down and not run. `Pppoe!Ends`: every PPPoE session
comes to a result; three waits neither send nor count, so it needs a server
that goes on. `TcpServers!TlsAnswered`: `Answered` without the banner's
exception. `EthLink!ModeTakes`: the PHY uses the mode that was set. It does not on
a W5500 whose negotiation is switched off, since that path writes PHYCFGR without
the reset that `esp_eth_phy_w5500.c:184` says is needed, and need not on a W6300
on which an access failed between writing the mode and the restart; that it does
everywhere else, `ModeKept`, is proved (section 4).

### Bounds

* `toe_tables`: two sockets are enough for a listener to lose its socket to a
  connection, take the other, and run out; three descriptors for a listener and
  two connections, or two listeners that compete; two clients for one to take
  the place of another. `toe_live` has two descriptors and one client.
* `toe_stream`: vectors of one and two buffers, chip buffers of two bytes, so
  that a buffer is filled in part and the TX buffer fills up; four bytes to
  write, so that a writer meets a full buffer at the start of a call.
* `spi_bus`: three tasks, so that one can wait while two contend.
* `dhcp`: two tries, two packets per poll, a receive buffer of two; seven
  transaction ids, so that there is always a fresh one.
* `eth`: three frames and RX memory for two, so that one arrives while one is
  read and one waits, and memory is full; two calls of transmit(), TX memory for
  two; two failures, of each kind at each access, so that the flush that
  follows one can meet the other. One failure on the link, since every error
  path goes back to a state in which the next is like the first. Two pulls of the
  cable and two calls of the application after the start; every failure point.
  The filter has a counter of three, so that it wraps with the third group.
* `firmware`: TFTP files of up to four blocks with `Wrap` = 4, so that the wrap is
  reached, two sessions, two retries. MQTT: a keep-alive of two units, bodies
  of up to two with buffers of one, two publications, so that their
  acknowledgements have an order; packet identifiers wrap at once. PPPoE: two
  sends, one retry, one loss (also while options are rejected), one repetition. DHCP/DNS: two interfaces with one
  server, or one with two; each message is sent up to twice. TCP: two connections,
  three chunks, of which an HTTP request's buffer holds two. UDP: two datagrams,
  two attempts, two hardware sockets, three descriptors and an offset of one, so
  that fd is a descriptor of the driver too, and another one.

`CHECK_DEADLOCK FALSE` in the ToeSockets configurations (every client connects at
most once, connect() may spin for ever, the application may stop calling), in
`MCEthernet` (frames and calls are used up) and in `MCFirmware` (programs end).
All other runs check deadlock.

### Fairness

* `ToeSockets`: tasks have one priority and FreeRTOS time-slices, so a task that
  can go on again and again does (strong, since another task's chip access
  disables it now and then). The chip ends a handshake by its own timeout. It
  is *not* assumed to end a closing handshake, nor the network, peer or
  application to do anything.
* `ToeStream`: calls go on, deadlines pass, and the application reads again.
  Nothing is assumed of the peer.
* `SpiBus`: mutex and bus are handed to waiters in turn (strong); another device
  gives the bus back; nobody has to begin an access.
* `MCEthernet`: the receive task runs (its priority is above the stack's), the
  chip takes commands, the poll timer of a board without interrupt line fires;
  the link is checked periodically, a PHY with a partner negotiates, and
  wiznet_net_init() runs to its end. Nothing of network, cable or application.
* `MCFirmware`: the program's task runs and its clock goes on. The other side is
  fair where a property is about reaching something with its help: the PPPoE
  server answers, a DHCP server answers what it heard and hears at last (strong)
  what is sent for ever. TFTP, MQTT, UPnP and SNTP sessions end without any fairness
  of the other side. So do TCP sessions, but for a peer that is there and never
  acknowledges: nothing is assumed of acknowledgements, and the chip's
  retransmissions to a peer that is silent time out (`TimesOut`).

## 4. Proofs

TLAPS checks every step of these theorems. Each holds for every value of the
constants, within the hypotheses it states and the named assumptions of the
modules. `toe_tables`, `toe_stream`, `spi_bus`, `dhcp`, `eth` and `firmware`
check the same properties on a small instance.

* `ToeSocketsProofs!TypeCorrect`: `Spec => []TypeOK` for all sizes and modes. A
  task in "open" or "listen" must name a descriptor and a socket (`TypeInv`).
* `ToeSocketsProofs!OwnershipKept`: in the serial mode (`Serial`: no preemption
  between chip accesses, no shared descriptor) `Spec => []Ownership`. The
  invariant `OwnInv` adds to the inverse tables what a task in the middle of a
  call knows (`Fits`), that two tasks are never in calls on one descriptor or
  reserved socket (`Apart`), and that at most one task is away from a yield
  (`OneRuns`). Without them `Release` and `ListenFail` could free a socket that
  has changed hands, which is what happens in `toe_shared` and `toe_preempt`.
* `ToeAcceptProofs!ConnectionIsKept`: with `Serial`, `Spec => []ConnectionKept`.
  `AcceptInv` adds to `OwnInv` what the chip holds for each client
  (`ChipHolds`), which descriptor's connection it is (`Mine`), and that a
  connection is closed before its socket is given up (`ClosedFirst`).
* `ToeAcceptProofs!ImplementsBsdAccept`: with `Serial`, `Spec => Accepts`, the
  refinement of `BsdAccept`: every step of the tables is a call, a delivery, an
  end of a connection, or invisible (`AccVisibleStep`, `AccQuietStep`).
* `ToeAcceptProofs!NoneUnowned`, `NoneForgotten`: with `Serial`,
  `Spec => []NoUnownedConnection` and `Spec => []NoForgottenListener`, both from
  `SockInv`. A socket on which a connection may appear belongs to a descriptor
  that is marked opened (`LiveOwned`), so the close that is skipped for the
  others skips nothing; what a task knows of its socket's status still holds
  after a yield (`Knows`). A listener without a socket means that none is free,
  that a client was refused, or that a task is re-arming and has every such
  listener ahead of it (`Repaired`, `Rearms`).
* `ToeStreamProofs!CountedIsTaken`: `Spec => []StreamOut`. The peer has the first
  bytes, the chip those that follow, and both together are what the calls have
  counted and the call in progress will (`Taken`).
* `ToeStreamProofs!SentIsHanded`: `Spec => []StreamIn`. The bytes read, those in
  the hands of the readv() in progress and those in the chip are what the peer
  has sent (`Handed`); a readv() that has something goes to the chip again only
  when there is more, and nobody else takes it away (`Reading`), so it cannot
  drop what it has on the way out.
* `SpiBusProofs!AccessesAreExclusive`, `NothingIsLeft`: with `~Timeouts`,
  `Spec => []FrameOwned`, `[]OneAccessPerFrame` and `[]LeavesNothing` for every
  set of tasks. The invariant ties the mutex's depth to the place of its holder
  (`Mutex`), chip select to a holder between select and deselect (`Selected`),
  the transfers on the wire to that place (`Wire`), and the resources to
  `initialized` (`Tidy`).
* `DhcpClientProofs!ChipKeepsLease`, `OnlyRequestedLease`, `LeaseIsKept`: the
  invariant `ChipHasLease` and the action properties `LeaseRequested` and
  `BoundKept`, for any number of servers and any loss, delay and repetition.
  `BoundKept` is about the flag alone, from step to step; what the chip uses
  while it is set is `ChipHasLease`.
  Whatever carries the round's id and asks for or grants an address (the last
  broadcast, what a server works on, the replies in the socket) is about the
  address on offer, and there is none before the client has left SELECTING
  (`Round`). It rests on `FreshXid`: with an id already on the LAN a new round
  could be granted the old one's address.
* `MacProofs!StackGetsFramesInOrder`: `BoardSpec => []FramesInOrder`. Every step
  of either driver is of one of seven kinds (`Kinds`, lemma `EveryStep`), and
  while no flush has misread a header each kind keeps `Good`: RX_RD stands at the first frame, or behind it from
  the reading of the frame until the chip takes RECV, and the task does not
  look at RX memory in between (`Place`); the frames passed on, the frame in
  the task's hands (`Held`) and those in the chip follow each other in the order
  of arrival (`Order`).
* `MacProofs!TransmitIsTrue`: `BoardSpec => []TransmitTells`, on either chip. A
  call has its frame not yet written, in TX memory, on its way or on the wire
  with SENDOK set, and no SENDOK is left from the frame before (`OneFrame`); every
  other step leaves that alone (`Aside`).
* `MacProofs!CountedAreHeard`: `MCFairSpec => []GroupsHeard`. While no call
  crosses another, what a call has read is what is there (`Alone`), and the
  counter holds the groups but the one being joined, with the bit clear while
  it holds any (`Exact`).
* `EthLinkProofs!AddressIsTaken`: `Spec => []AddressTakes`; invariant `Unlocked`:
  once the driver is installed no register is locked.
* `EthLinkProofs!StopIsQuiet`: for every natural `MaxGlitches`,
  `Spec => []StoppedIsQuiet`. While nothing has failed, socket, timer and flag are
  where link_status says, and in the middle of a check where the check has read
  the link (`Quiet`); a report of a changed link then cannot fail (`LinkIsSet`).
* `EthLinkProofs!ModeIsKept`: for every natural `MaxGlitches`,
  `Spec => []ModeKept`. A start that negotiates restarts the PHY (`RestartUses`),
  negotiation is switched only while the driver is stopped, and on a W6300 a step
  in which nothing fails leaves the mode in use (`RestartKeepsMode`, `ModeUsed`);
  the writes take because of `Unlocked`.
* `MacProofs!ChipTakesAddress`, `StopClosesSocket`: the first two of the
  composition `MCEthernet`, whose behaviours are behaviours of `EthLink`
  (`DrivesLink`), so that the theorems of the part hold of the whole.

The examples, in `FirmwareProofs`, each of the composition
(`FairSpec => []...`). Lemma `OneProgram`: a step of the board is a step of the
program on it and changes nothing of any other, so an invariant of one program
is one of the board.

* `ReceivedIsWhole` (`WholeFile`): every block that may arrive is numbered as it
  is in the file, the client is at most one block behind any session (`Behind`),
  its number is that of the last block saved, and "received" is reported after
  the last one only (`Stage`).
* `AcksAreInOrder` (`AcksInOrder`): the stream and what the client has in hand
  parse as whole packets from where the client is (`Framed`: some function gives
  each place in the stream its mark, and counts the publications), so the
  publication whose body is read is the one after those acknowledged (`Acking`).
* `BrokerHearsClient` (`KeptAlive`): time passes only between packets, and by less
  than an answer is waited for or a PINGREQ takes to be due (`Timely`).
* `LeaseIsOwn` (`OwnLease`): what an interface has asked for in its open transaction
  is what it was offered there (`AsksOffered`), and what it holds is what it
  asked for (`HoldsAsked`), whatever it overhears of the other's exchange.
* `SessionsAreAnswered` (`Answered`): what was heard is what has been sent back,
  what is in the buffer and what is still to be received (`EchoInv`); after the
  banner, and with the record mbedTLS keeps being the one that is tried again
  (`TlsInv`); a response is split between buffer and connection, and the request
  before it has been read to its end or has filled the buffer (`HttpInv`).
* `ReportIsTrue` (`TrueReport`): a whole answer comes from a router that has applied
  the request, an error from one that has not (`MappingInv`).
* `RepliesAreOwn` (`OwnReplies`): a queue holds datagrams in the order they came, a
  bound socket's those of its interface (`QueuesInv`), what has been answered is
  before them (`Answering`, `Echoing`), and only the socket behind fd has joined
  (`Joining`), whatever the offset.

* `AddressIsOwn` (`OwnAddress`): for any number of losses, sends and retries, with
  either authentication, wrong credentials and options to be rejected. The
  property looks at the last step only, so `SessionInv` says what may be on the
  wire, in both directions, in each state of the machine and for each flag a
  call may wait for (`Negotiating`). Frames are not reordered, and what
  asks for the server's own address is always before the NAK that brings the
  client's (`Assigned`), so the address is the client's from then on; a
  challenge may be left from an attempt that failed, and is not answered by
  the next (`Outdated`). `Settled` ties each flag to what the server has agreed
  to in the open session. The lemmas go by kind of step: the server's answers
  (`Answers`, `WireKeeps`), what a frame does to the client (`Hears...`), what a
  call begins and ends with (`BeginKeeps`, `EndKeeps`).

Two attempts failed for a reason and changed a model. `AcksInOrder` was false
with two publications: a PUBACK whose send failed was followed by the next one,
sent. The run had one publication and could not see it, and the property had
excepted busy sockets besides. TCP does not come back from a failed send, which
`gone` now says; the property holds without the exception, and the run has two
publications. `OwnAddress` was false with a loss and an unknown option together,
which no mode of the run combined: a lost PAP_ACK makes the client send PAP
again, and a server that then asked for the option again, after the client
had acknowledged a request without it, had its next request behind the NAK. The
server now stays with what it has asked for last, and the run has the two faults
together; a server that does repeat itself is the mode that the property
excepts.

What is assumed of the constants: sizes positive (`NumSocksAssumption`,
`TxRoomAssumption`, `SizeAssumption`, ...), a null value outside its set
(`ClientAssumption`, `TaskAssumption`, ...), bounds that are numbers
(`NumbersAssumption`, `FileAssumption`, `RequestAssumption`,
`SocketAssumption`), a board with an
interface (`BoardAssumption`), a segment whose servers are servers
(`SegmentAssumption`), a PPPoE frame that is sent at least once
(`SendAssumption`; PPP_MAX_RETRYSEND_COUNT is 5), and `KeepAliveAssumption`: the MQTT client waits less long
for an answer than the broker for the client. `net_config.h` of the example has
5 s, polls every second, and a keep-alive of 60 s.

Only model-checked: the liveness properties (`ListenerHeals`,
`ClientDelivered`, `CallsReturn`, `EndIsSeen`, `WritesEnd`, `AccessesEnd`,
`FramesLeave`, `TaskRests`, `LinkSettles`, `TransferEnds`, `DeadNoticed`,
`Connects`, `GetsLease`, `SessionEnds`), which this prover does not reach. Every
safety property a passing run checks is proved. No recursive operator is used.

## 5. What the models leave out

In modelled components: UDP datagrams and register-only options of the TOE; the
conversion of timeouts and its 32-bit limits (arithmetic on one value: a
bounded wait is one that may end at any turn); the W6300's QSPI framing, which
locks and selects as the SPI one does; IPv6 registers of
the W6300; texts (HTTP, XML, MQTT topics), options and checksums,
which are model values; `do_lcp_terminate()`, which nothing calls; reference
counts of ESP-IDF objects; MQTT of QoS 2, which is not in the code.

## 6. Not modelled

* DNS resolver of `wsm_dhcp.c`: a one-shot query without state; the same exchange
  is modelled where `dhcp_dns` makes it.
* TOE bring-up: straight-line, run once before there is a second task.
* Wi-Fi backend and socket vtables: forwarding to ESP-IDF.
* `network_install`: a poll of the link that prints it.

## 7. Plan

Done: the TOE tables with their refinement of BSD accept(), the data path, SPI,
the DHCP client, the MACRAW drivers of both chips, bring-up and link, and the
examples, with a proof of each safety property of theirs.

Next: `ModeTakes` as a disagreement of code and comment, with a run of its own, and
the resolver and TOE bring-up, if they come to share state with a task.

Each component's theorems are in a module of their own that extends the
component's; those of the examples are in one, since their frame lemma is one.
