# TLA+ models of bitchat-node-daemon

This directory holds TLA+ models of the daemon in `src/daemon`, of the library in
`src/bitchat` it is built on and of the chat client `src/bitchat.py`, the TLC
configurations that check them on small instances, and proofs that TLAPS checks
for every value of the constants. `PROJECT.json` maps every definition to the lines
it models and lists runs, mutants, findings, hazards and theorems.

Contents: [1 The system](#1-the-system), [2 Modules](#2-modules-and-the-code),
[3 Runs](#3-what-the-runs-check), [4 Fairness](#4-fairness),
[5 Proofs](#5-what-is-proved), [6 Deviations](#6-where-the-code-departs-from-what-is-said-of-it),
[7 Limits](#7-what-is-not-modelled), [8 Plan](#8-plan).

## 1 The system

A daemon is one Python process with one asyncio event loop. It keeps TCP
connections to other daemons, floods packets over them, keeps a Noise session
with each direct neighbour, and offers a REST and WebSocket API. A second
program in the repository, the chat client `src/bitchat.py`, speaks the same
packet format over Bluetooth LE and uses the same library.

| Component | State | Operations | Hard behaviour |
|---|---|---|---|
| Noise sessions (`bitchat/encryption.py`, `daemon/mesh.py`) | `handshake_states`, `sessions`, nonce counters, `pending_private_messages`, `delivery_tracker` | initiate, process handshake message, encrypt, decrypt, clear; announcements; submit, flush, acknowledge | crossed and restarted handshakes; handlers still scheduled when the connection is gone; two tasks that flush one queue |
| TCP transport (`daemon/transport.py`) | `_connections`, server, read-loop tasks | start, connect, accept, read loop, send, broadcast, disconnect, stop | check-then-await in `connect`; an old connection's end seen after a new one is filed; a send error racing the read loop |
| Peer table (`daemon/mesh.py`, `daemon/api.py`) | `peers`, `peer_addresses`, subscribers' view | announcement, LEAVE, connection up/down, events | packet handlers are tasks and run after the connection they came by may be gone |
| Relaying (`daemon/mesh.py`) | bloom filter and `processed_messages`, TTLs | send, receive, relay after a random delay | copies overtake each other; kinds of packet without duplicate detection |
| Life cycle (`daemon/__main__.py`, `discovery.py`, `api.py`) | start progress, `_ws_clients`, `_known` | start, signal, shutdown, mDNS callback thread | signals during start; a set changed while it is iterated; a start that does not return or raises; peers that do not read |
| State file (`bitchat/persistence.py`, `daemon/mesh.py`) | `state.json`, `AppState`, the mesh's copies of it | load, save, rename, channel announcement, stop | a process killed in a save or between two |
| Packet formats and fragments (`bitchat/protocol.py`, `bitchat.py`, `mesh.py`) | `FragmentCollector`, duplicate filter | create, parse, pad, unpad, cut, collect | lengths at the limit of their field; stripped zero bytes; interleaved, repeated and missing fragments |
| Client's Bluetooth link (`bitchat.py`) | `client`, `characteristic`, scanner tasks, `running` | connect, handshake, scan, disconnect callback, send, quit | every task reads `self.client` afresh after each await; two scanners; callbacks of links that are no longer in use |
| Client's channels (`bitchat.py`, `persistence.py`, `terminal_ux.py`) | owners, keys, protection, commitments, saved passwords, conversations | load, restore, `/j`, `/pass`, `/transfer`, `/leave`, announcements, messages | announcements handled between the awaits of a command; a save before the load or between load and restore; a kill in a save; restarts under a new peer id |
| Client's private messages (`bitchat.py`, `encryption.py`) | session, handshake, queue and attempt time of a peer | announcements, handshake handlers, send, flush, acknowledge, block, expire | handlers suspended in their sends while the session changes; two flushes; answers that cannot be sent |

How they interact:

* `transport` calls `on_connected`, `on_disconnected` and `on_packet` of the
  mesh. Reading a frame only creates a task for the handler. The mesh calls
  `send_to` and `broadcast_packet`, which may themselves drop a connection and
  call back.
* The encryption service calls `_on_peer_authenticated` of the mesh, which
  creates another task.
* `peers` is written by packet handlers and by the disconnection callback and
  read by the API; each event is one more task.
* `__main__` starts transport, discovery, API and mesh in this order, and a
  signal handler starts `stop` as a task of its own.
* In the client, bleak calls `notification_handler` as a task for each packet and
  `handle_disconnect` for each link lost; `run()`, the scanners, the handlers and
  the flushes share the fields of `BitchatClient` and meet in `send_packet`, which
  sleeps before it writes and may call `handle_disconnect` itself.
* `app_state` is read at start and saved by channel announcements, by the API
  (nickname) and at the end.

What makes each part correct is stated by the properties in section 3: no nonce
used twice and sessions that join the two ends of one handshake; a connection
table without dead entries and without unreported losses; a peer view that
agrees with the table; each message taken once and all traffic finite; a signal
that ends the process once peers read, with its state saved; state that survives a restart; packets
shown as they were sent; a client that never stops looking for a link and always
ends when told to, that keeps what was said under a password under that password,
and that sends each private message once.

## 2 Modules and the code

| Module | Models | Form |
|---|---|---|
| `NoiseMesh` | encryption service and the mesh handlers that drive it, any number of nodes | state machine |
| `Transport` | connection table of one node | state machine |
| `PeerTable` | peer table and events; extends `Transport` and conjoins the mesh callbacks with the transport actions that fire them | composition |
| `Broadcast` | what flooding promises | abstract specification |
| `Flood` | relaying with TTL and duplicate detection; implements `Broadcast` | state machine, refinement |
| `Lifecycle` | start, signals, stop, mDNS thread, WebSocket clients | state machine |
| `Persistence` | state file, load, save, crash, restart | state machine |
| `Wire` | packet, message, announcement and fragment formats byte by byte, with the real sizes | operators |
| `Delivery` | a daemon or a client receiving items made with `Wire` | state machine |
| `ClientLink` | how the client gets, keeps and loses its Bluetooth link, and the end of `run()` | state machine |
| `ClientChannels` | password-protected channels of several clients, their commands, files and restarts | state machine |
| `ClientNoise` | handshakes and private messages of a client and its peer | state machine |
| `*MC` | instances for TLC | constants only |
| `*Proofs` | theorems about the module of the name; those about `Transport` are in `PeerTableProofs`, which extends it, and those about `Flood`, `Lifecycle` and `Persistence`, one after the other, in `DaemonProofs` | proofs |

An action is the code between two suspension points of the event loop. A call
made on the way belongs to the action, callbacks included.

**NoiseMesh.** Each node has its handshake states, sessions, queues and tracker,
and a list `ready` of scheduled handlers. `Receive` is the read loop taking a
frame, `Handle` the handler at the head of the list. The sleeps in the
announcement after a connection and in the flush of queued messages split those
routines into several actions. Cryptography is symbolic: an ephemeral key is the
pair of its node and a running number, a ciphertext opens only with the key
pair, direction and nonce it was made with, and a Noise message read by a party
in the wrong state fails as the code's exception does. Modelling decisions:

* An address is a connection: what happens when an address is used again is the
  subject of `Transport`.
* Writing and draining a frame is one step; a send that fails is a handler that
  runs followed by the loss of the connection.
* Daemons answer `KEY_EXCHANGE` but never originate it, so it does not occur.
* A LEAVE is what a node that shuts down sends last, on each of its connections
  (`SendLeave`, `left`); at the other end `HandleLeave` takes the peer, its address,
  session and queue away. A node that has sent it may go on for a while or
  not. Nickname announcements and what a LEAVE does to the view are in `PeerTable`,
  how it is relayed in `Flood`.
* Peer ids do not end in a zero byte; section 6 says what happens when one does.

**Transport.** `phase[c]` is where the code that handles connection `c` stands.
`Accepted`, `ConnectFails` and `RemoteCloses` are the network; every other
action is code. `held[b]` are the connections that the running `broadcast_packet` `b`
has copied and not served, which is how its awaits interleave with the rest and with
each other. `Disconnect` closes what the address has; `DisconnectUnknown` is the same
call for an address that has nothing, which fires the callback all the same. `ups`,
`downs` and `strayed` are history: the callbacks fired, and those fired with None.

**PeerTable.** Every action of `Transport` that fires a callback is repeated with
what the mesh does in it. `ready` are handler tasks in the order of creation.
`shown` is what a subscriber who applies the events believes; the delivery of an event
to each WebSocket client (`api.py:174`) is taken as one step with the event, and
what its tasks may do to each other is not modelled. `peerAddresses` is the
dict `peer_addresses` as the sequence of its items, so that the first id at an
address is the one Python finds first. `heard` is history: the ids whose packets came
in over an address while it has a route. Packets of the ids in `Relayed` may come over
any connection.

**Flood and Broadcast.** A copy lies on a link with its TTL, and a relay that
waits for its random delay is a copy in the node's queue. The constants tell
which packets are messages (known again by id), LEAVE packets and
acknowledgements (not known again). `Capacity` is what the Bloom filter of a node is
made for: a node whose filter is full throws a message away in the middle of its
handler, as the exception of pybloom_live makes it. `Broadcast` knows only the messages sent and
who has them.

**Lifecycle.** `main` is the position of `run_forever`; each signal has its own
`stop` task, with a position in the loop over `_ws_clients`. Whether the set has
changed since the iterator was made decides if the next turn raises. The start of
the HTTP server is one step, being aiohttp's; it may raise, as the start of the TCP
server may, for a port that is taken, and `run_forever` raises with it. `unread` says
that some peer does not read or does not close: then neither the `drain` of the LEAVE
(`transport.py:188`) nor `wait_closed` (`transport.py:83`) returns.

**Persistence.** A save empties the file and then writes it, in two steps; the
process may be killed in between or anywhere else. A write that fails is only
logged, with the file emptied. An announcement changes protection, commitment, creator
and the list of discovered channels; the last is in no file. The file is also written by the chat
client, which is where encrypted passwords come from.

**Wire and Delivery.** The packet layout, PKCS#7-like padding to 256, 512, 1024 or
2048 bytes and its removal by the last byte, the payloads and the fragments are
written out with their real lengths. `Delivery` makes items into frames, relays
copies, and hands frames to a daemon or a client. A frame that stays in the air
is a lost one, so gaps need no action. `FragmentId` gives every item that is cut an
id of its own, as `os.urandom(8)` does in all likelihood; random padding bytes are a
constant byte. A packet of more than 65535 bytes is made and then raises in the daemon's
`send_packet`, which has two bytes for its length (`Framed`).

**ClientLink.** `at[t]` is the await at which task `t` is suspended: `run()` with
`connect` and `handshake` in it, the scanner `run()` makes, the scanner
`handle_disconnect` makes. Of the handlers, any number of which may be sending, `Reply`
keeps what touches the link: an answer that finds it gone gives up the client of that
moment; `answering` says that one may have been written to a link lost since. `send_packet` is a step up
to its sleep and one behind it, so the client it writes to need not be the one it
tested. The sleep and the write are one wait: `stale` are the sends since whose begin
the client has changed, which may still be writing to the link of before, and
may end as that write does while the client is a new one. `link` and `callbacks` are bleak: a link opens or fails, breaks at any
time, and its callback comes some time later. The ten rounds of `connect` are not
counted. What `handle_disconnect` clears besides the link is in `ClientNoise`.

**ClientChannels.** `mem` are the fields of the client and of its `app_state`, `file`
is its `state.json`. A key and its commitment are the password they come from.
Packets are a set and may be received late, again or never. The peer id of a
client is the pair of the client and the number of its run, as `os.urandom` makes
a new one in every process. A process starts in `connecting`, where it hears packets
with an empty `app_state`; `Load` and `Restore` are the two ends of `handshake`, and
`merged` is what an announcement in between makes of it: from its save on `app_state`
shares the fields of the client. `/pass` is split at its three sends. A save has no
await, so it is one step, and `Torn` is the kill in the middle of it, which leaves a file
nobody can read. `secured` and `leaked` are history: for each channel whether this run
has set or given its password, and rejoined it without one since, and which of these
got a message in plain.

**ClientNoise.** `st` are the fields that concern the peer, as one record, and
`tasks` a bag of suspended tasks: what each goes on with, the packet it is
writing and the messages it still has to send. Handshakes and sessions are told
apart by the ephemeral key the client made for them. `heard` is what has reached
the peer, which limits what it can send: a message 1 at any time, an answer only
to what it has. The counters of the peer are in `NoiseMesh`. A LEAVE takes all of it away, or only the entry in
`peers` when the nickname is empty. The second attempt at
a private message that was blocked (`bitchat.py:2294`) is the task that still has
its packet to write.

## 3 What the runs check

The runs of `ClientLink` check for deadlock: a client whose process has not ended always
has a step to take. The other runs do not, because each of their systems may become
idle: all connections closed, all packets delivered, the process ended. One run ends
in a violation, section 6.

| Run | Instance | States | Shows |
|---|---|---|---|
| `noise_messages` | two nodes, a connection that may break, two messages, fair | @noise_messages@ | `NonceUnique`, `EncryptedOnce`, `TrafficDies`, `LoneHandshakeCompletes`, `SentMeansAcked` |
| `noise_reconnect` | two connections that may break, one side blocks the other, a node that shuts down | @noise_reconnect@ | `SessionAuthentic`, `OneInitiator`, `SessionStable` |
| `noise_mutual` | both nodes dial each other | | `NoVainWait` is violated |
| `transport` | two outgoing connections to one address, one accepted, a broadcast, fair | @transport@ | `NoDeadEntry`, `DownsMatchUps`, `EvictionReported`, `LossReported` |
| `peers` | a connection to one node, one from another, whose packets are also relayed, fair | @peers@ | `ViewExact`, `RouteInSight`, `RoutesGoAway` |
| `flood` | triangle with a tail; any two of two messages, a LEAVE and an acknowledgement; one link that may break, one blocked origin, one full filter; fair | @flood@ | `MessageOnce`, `TTLRange`, `ImplementsBroadcast`, `FloodSettles` |
| `lifecycle` | mDNS off, failing or browsing, two bootstrap peers, two WebSocket clients, two signals, fair | @lifecycle@ | `NoSilentPeer`, `ExitSaved`, `SignalExits` |
| `persistence` | two channels, two creators, one nickname, three identities | @persistence@ | `ChannelsOnDisk`, `IdentityKept` |
| `delivery` | two long messages, an own one, the longest announcement, a message too long, one relayed copy, both programs | @delivery@ | `ShownExact`, `LargeShown`, `PeerAddressed` |
| `client_link` | two links, both scanners, handlers that answer, fair | @client_link@ | `NeverStranded`, `Introduced`, `QuitEnds`, `ScansAgain` |
| `client_channels` | two clients, three runs, one channel, two passwords, two packets | @client_channels@ | `OwnerReady`, `NoPlaintext`, `PasswordsKept` |
| `client_noise` | two messages of the client, one of the peer, two ephemeral keys, three suspended tasks | @client_noise@ | `SentOnce`, `ClientNoncesUnique`, `QueueServed`, `KeptUntilSent` |

`noise_messages` also checks `TypeOK` and `peers` checks `PeerTypeOK`, which contains
that of `Transport`. The type invariants of the other modules say what the
variables hold, for readers and for proofs; no run lists them. Every property has a mutant in `PROJECT.json`, a small fault
in a mapped definition under which TLC finds the property violated.

### Bounds

* **Noise.** Everything the handlers decide concerns one pair of neighbours, so
  two nodes suffice; both ends of a connection announce themselves, so that the
  tie-breaker meets the announcements in both orders. Two connections opened
  by one node give loss and reconnection with handlers of the old connection still
  scheduled, one by each gives mutual dialling. With `Leaver = {2}` the LEAVE of node 2
  goes out on both of its connections, so one copy is handled behind what came by the
  other. This run has no messages: handshakes forced by one are in `noise_messages`, and
  together with both connections they are beyond five minutes. Two messages are the fewest
  that let a flush be interrupted by a submission and let a nonce be out of step.
  Handshakes need no bound: each costs an announcement, a message or a
  connection, all of them finite.
* **Transport.** Two connections to one address are needed for the race in
  `connect` and for a late end of the first; `MaxOpening = 2` lets both calls
  be in `open_connection` at once. One broadcast at a time holds a copy of the
  table while entries come and go; two with copies of different times are beyond
  five minutes, and the theorems about the three safety properties hold for any number.
* **PeerTable.** One connection in each direction, `MaxReady = 1` packet handler waiting,
  besides the ends of read loops: a handler is behind the end of its connection or
  ahead of it. Packets of `q` come over the connection to `p` as well, so that two ids
  are heard at one address. Nicknames are not empty; an empty one leaves without
  an event (section 6).
* **Flood.** The code's TTL is 7 for messages and LEAVE, 3 for acknowledgements;
  the instance has 2 and 3, a cycle of length 3 and a node three links away, so that
  the cycle is closed, the TTL runs out inside the graph, and a copy by the
  longer path may come first. `MaxSent = 2` packets share the network in one
  behaviour, any two of the four; the filter at the junction `c` is full after one
  message, the others have the 5000 of the code. The count of handlings of one packet saturates at 2.
* **Lifecycle.** Two signals give two concurrent shutdown tasks, two clients
  one that is closed and one that changes the set meanwhile.
* **Persistence.** `MaxIdentity = 3` lets the identity be lost and made again
  twice; two creators let an announcement replace the creator of another.
* **Delivery.** The messages are long enough for fragments and fall on both sides
  of the padding rules, one of them encrypted for a channel, the announcement has
  the longest nickname its one-byte length allows, and the 65536-byte payload
  exceeds the two-byte length. One relayed copy is the fewest that repeats a
  frame. No id ends in a zero byte.
* **ClientLink.** Two `BleakClient` objects are the fewest for a callback of an old
  link that meets a new one and for two scanners that each open one; an object
  nobody holds any more is used again as a new one, so the number of links in a
  behaviour is not bounded. The number of handlers that answer is
  not bounded either.
* **ClientChannels.** Two clients that can each own the channel, two runs of one of them
  for a restart that finds another's announcements (`MaxRuns = 2`, and `MaxStarts = 3` in
  all), two passwords for a change,
  `MaxPackets = 2` packets that are not lost, each received any number of times.
  Channels do not influence each other but in `save_app_state`, which saves all of
  them: what that does to a second channel is told in section 6.
* **ClientNoise.** `MaxKeys = 2` lets a handshake fail or a session end and another
  follow; two messages let one wait in a flush while the other is queued again;
  `MaxTasks = 3` has both flushes and a handler suspended at once. The peer's single
  message is acknowledged in any of these states.

### Properties, in words

* `NonceUnique`: no two ciphertexts are made with the same key and nonce.
* `EncryptedOnce`: a message submitted once is not encrypted twice by two tasks
  that flush the same queue.
* `SessionAuthentic`: a session holds the keys of the two ends of one handshake
  that the peer took part in.
* `OneInitiator`: as long as no message has forced a handshake, two nodes that
  know each other's address are never both initiators.
  `LoneHandshakeCompletes`: over one lasting connection, with no message
  submitted, both ends get a session.
* `SessionStable`: a session ends only in a step that ends the connection the peer was
  last heard on, or in one that handles a LEAVE which this peer has sent.
* `TrafficDies`, `SentMeansAcked`: packets and tasks come to an end; over lasting
  connections, when no message has to wait for a session, each one sent is
  acknowledged.
* `NoDeadEntry`: no entry of the table whose code has finished.
  `DownsMatchUps`, `EvictionReported`, `LossReported`: the disconnection callback
  comes for what came up, for each entry that is removed, and eventually for each
  connection that breaks.
* `ViewExact`: applying the events gives the table. `RouteInSight`,
  `RoutesGoAway`: an entry of `peer_addresses` has a connection somebody reads,
  and goes when that does, unless a second id was heard over the address.
* `MessageOnce`, `TTLRange`, `FloodSettles`: one handling of a message per node,
  none farther away than the TTL, no traffic for ever. `ImplementsBroadcast` is
  the refinement.
* `NoSilentPeer`: peers connected during the start are announced to.
  `ExitSaved`: `run_forever` returns only with the state saved, and raises without a
  save only in a start that has not connected to anyone yet.
  `SignalExits`: with no WebSocket client and no browser at work, a signal ends
  the process if the peers read and close from some time on.
* `ChannelsOnDisk`, `IdentityKept`: as long as no save was cut short, between saves the
  file has protection, commitments and creators of the channels as the node has them,
  and the identity key stays the same.
* `ShownExact`, `LargeShown`, `PeerAddressed`: what is
  shown is what others sent, to the byte and once; a client that has all
  fragments of a packet has shown the message or knows the peer that it announces; a
  listed peer has an address.
* `NeverStranded`: a client at the prompt that is not connected has a scanner, or a
  callback that will make one, unless a scan raised. A client that is connected and could
  not subscribe is not covered, and does not look (section 6). `ScansAgain`: it does scan
  again. `Introduced`: a link the client listens on has heard its identity once no
  set-up is under way. `QuitEnds`: a client told to stop ends.
* `OwnerReady`: who takes itself for the owner has protection, key, commitment and
  password of the channel, all of one password. `NoPlaintext`: in one run, who has set or
  given the password of a channel, with `/pass` or either way of `/j`, sends nothing in
  plain to it before `/leave` or a `/j` without password to a channel it does not know as
  protected. `PasswordsKept`: besides `/leave` only a kill inside a save and an
  announcement handled before the state is loaded take a password from the file.
* `SentOnce`: a private message is held or encrypted at most once. `ClientNoncesUnique`:
  its ciphertexts and the acknowledgements have nonces of their own. `QueueServed`:
  with a session, what is queued has a flush on its way. `KeptUntilSent`: only the
  loss of the link or the removal of the peer by its LEAVE takes a waiting message away.

## 4 Fairness

Only weak fairness, and only of code:

* the event loop runs every ready task and timer in the end, so `Handle`,
  `Receive`, announcements, flushes, relays, `OnReadDone`, the steps of `stop`
  and of a broadcast are fair;
* a TCP read returns when data or the end of the connection is there, so
  `ReadLoopEnds`, `ClientEnds` and `Arrives` are fair;
* nothing is assumed of users, the network, other nodes, signals, or the mDNS
  browser reporting addresses. `BrowsingEnds` is the loop
  `while self._running: sleep(1)`, fair once `_running` is false;
* the steps of `stop` that wait for peers are enabled only while these read
  (`~unread`), so their fairness says nothing of a peer that never does: `SignalExits`
  has that as its premise;
* a node that has left runs nothing any more, so `NoiseMesh` is fair for the others.

In `ClientLink` `run()` and both scanners are fair, as their sleeps end and scans,
connection attempts and writes have time limits in bleak; so are the end of a
connection attempt and the callback of a lost link. The answers of handlers, the user
and the radio are not. `ClientChannels` and `ClientNoise` state safety only.

A link that may break never has to, and a broken link loses its copies.

## 5 What is proved

Every safety invariant and action property of the runs is a theorem for all values
of the constants under the assumptions listed below: those with a name TLC also
evaluates in the runs, the others are hypotheses of their theorem. The bounds (`MaxSent`, `MaxKeys`, `MaxTasks`, `MaxPackets`, `MaxRuns`,
`MaxReady`, ...) are constants as well, so the theorems hold for each of their
values. A proof shows an inductive
invariant with one lemma per action or kind of action, and derives the property.

| Module | Assumes | Theorem: property | Inductive invariant |
|---|---|---|---|
| `NoiseMeshProofs` | `NodeAssumption` (ids are numbers, hence ordered), `ConnAssumption` (a connection joins two different nodes), `BlockedAssumption` | `TypeCorrect`: `TypeOK` | `TypeOK` |
| | | `NoncesUnique`: `NonceUnique` | `NonceInv` |
| | | `SessionsAreStable`: `SessionStable` | `AuthInv`, `LeaveInv` |
| | | `SessionsAreAuthentic`: `SessionAuthentic` | `AuthInv` |
| | | `MessagesEncryptedOnce`: `EncryptedOnce` | `OnceInv` |
| | | `TieBreakerHolds`: `OneInitiator` | `LowerInv` |
| `PeerTableProofs` | `TransportAssumption` | `TransportTypeCorrect`; `TableIsLive`: `NoDeadEntry`; `CallbacksMatch`: `DownsMatchUps`; `EvictionsReported`: `EvictionReported` | `TransportInv` |
| | and `PeerTableAssumption` | `PeerTypeCorrect`: `PeerTypeOK`; `PeerTableRunsTransport`: `PeerSpec => TransportSpec` | `PeerInv` |
| | | `NoPeerIsMissing`: every entry of the table is in the view | `PeerInv`, `NoneMissing` |
| | | `RoutesInSight`: `RouteInSight` | `PeerInv`, `Routed` |
| | and no empty nickname | `ViewIsExact`: `ViewExact` | `PeerInv`, `ViewExact` |
| `DaemonProofs` | `FloodAssumption` (links go both ways, TTLs are positive) | `FloodTypeCorrect`; `MessagesOnce`: `MessageOnce`; `NothingBeyondTTL`: `TTLRange`; `FloodImplementsBroadcast`: `ImplementsBroadcast` | `FloodInv` |
| | `LifecycleAssumption` | `LifecycleTypeCorrect`; `NoPeerIsSilent`: `NoSilentPeer`; `ExitIsSaved`: `ExitSaved` | `LifecycleInv` |
| | `PersistenceAssumption` | `PersistenceTypeCorrect`; `ChannelsAreOnDisk`: `ChannelsOnDisk`; `IdentityIsKept`: `IdentityKept` | `PersistenceInv` |
| `WireProofs` | nothing | `PacketRoundTrip`, `MessageRoundTrip`, `IdentityRoundTrip`, `FragmentRoundTrip`: what is packed is read back, packets with and without a recipient; `ChunksJoin`: what is cut is joined again; `IdSurvives`: the ids `rstrip` leaves alone | |
| `DeliveryProofs` | `DeliveryAssumption` (fields have the types of the formats, no two items share a fragment id) | `DeliveryTypeCorrect`; `DeliveryInvariant`; `DeliveryLargeShown`: `LargeShown` | `DeliveryInv`, `CountInv` |
| | and the node's id does not end in 00 | `DeliveryShownExact`: `ShownExact` | `DeliveryInv` |
| | and nodes announce the ids they send under, which do not end in 00 | `DeliveryPeerAddressed`: `PeerAddressed` | `DeliveryInv`, `PeerAddressed` |
| `ClientChannelsProofs` | `ClientChannelsAssumption` | `ClientChannelsTypeCorrect`; `OwnersReady`: `OwnerReady`; `NothingInPlain`: `NoPlaintext`; `PasswordsAreKept`: `PasswordsKept` | `ChannelInv` |
| `ClientNoiseProofs` | `ClientNoiseAssumption` | `ClientNoiseTypeCorrect`; `ClientNoncesAreUnique`: `ClientNoncesUnique`; `QueuesAreServed`: `QueueServed`; `PrivateMessagesSentOnce`: `SentOnce`; `MessagesKeptUntilSent`: `KeptUntilSent` | `ClientNoiseInv` |
| `ClientLinkProofs` | `LinkAssumption` | `ClientLinkTypeCorrect`; `ClientNeverStranded`: `NeverStranded` | `LinkInv` |
| | | `LinksAreIntroduced`: `Introduced` | `LinkInv`, `IntroducedInv` |

Why these invariants are needed:

* **NonceInv.** `NonceUnique` says nothing about the counters the next ciphertext
  will use, nor about two sessions that could share keys. `NonceInv` follows every
  ephemeral key through its life: the own key of a handshake under way belongs to
  this node, is in no other handshake or session and has made no ciphertext; the own
  key of a session has made only ciphertexts of this session with nonces below its
  counter. A session takes its key from a handshake under way, so its counter may
  start at zero.
* **LeaveInv.** A LEAVE that was emitted names a node that has left. That is what makes
  the handler of one the end of its sender, and not of the neighbour it came through.
* **AuthInv.** A session is filed when a message is read, but who it is with was
  decided when that message was written. So the invariant speaks of what was
  written: all that is read or scheduled was emitted (`InFlight`), an emitted
  handshake message has the keys of its sender (`Honest`), and a session has an
  emitted message 2 or 3 of its peer behind it (`Vouched`).
* **OnceInv.** A message moves from the queue into a flush and perhaps back. It is
  in one place at a time: queues have no repetitions and share nothing
  (`QueuesApart`), nor do flushes with each other or with what was encrypted
  (`FlushesApart`). The step that matters is the second flush, which finds the queue
  popped.
* **LowerInv.** Without messages only the lower of two ids is an initiator.
* **TransportInv.** `NoDeadEntry` and `DownsMatchUps` need each other and `Progress`,
  which says what the code handling a connection has done in each phase: a
  connection that is not up was neither announced, closed nor reported. It makes
  harmless that `Dropped` takes out whatever has the address: the victim stays
  announced and its own code reports it.
* **PeerInv, Routed.** Every step of `PeerTable` is one of `Transport` or leaves it
  alone, so `TransportInv` carries over. `Routed` adds to `RouteInSight` that the id of a
  route is among those heard over its address. So if this is the only one heard, the
  route is the only one at the address: the end of the connection finds it first, and
  what is left at an address was heard together with another id.
* **FloodInv.** How far a copy can be depends on its TTL: a copy with TTL `t` starts
  from a node within `FirstTTL - t` links of the origin (`CopiesInReach`), and so
  does a relay that waits (`RelaysInReach`). `Ball` states the distance by
  paths, so one more link extends a path and no induction is needed. For the refinement, a node that files an id for the first time delivers;
  every other handling changes nothing that `Broadcast` sees.
* **LifecycleInv.** `SavedFirst` orders the end: a shutdown task past the components
  has saved, only such a task sets the event, only the event lets `run_forever` return;
  and a start that goes on after browsing has a shutdown behind it that saved.
  `StartsWired`: without a browser the start does not suspend between its first dial
  and the wiring of `on_connected`, and nothing is connected before it.
* **PersistenceInv.** `Unharmed` describes file and memory in each phase of a process
  as long as no save was cut short, the process that is down included, which
  is what the next start finds. `Forgetful`: a process that is down has no memory.
* **The formats.** `Holds(d, k, b)` says that the bytes `b` stand in `d` from position
  `k` on. Joined fields stand where the lengths of those before them add up to
  (`Fields5`, `Fields8`), a new TTL and padding at the end move nothing, and a parser
  that adds up the same lengths cuts the same fields. All of this is for fields of any
  length that fits its length byte or bytes: the bounds in `CanCreate`,
  `CanCreateMessage`, `CanEncodeIdentity` and `CanCount` are where the code raises. Where
  a fact has to be carried along a sequence, as in `ChunksJoin`, the proof takes the
  least index at which it fails (`LeastNat`) in place of induction.
* **DeliveryInv.** Each frame in the air is a packet or a part of what was sent
  (`AirInv`), so the formats say what is read from it. The collector holds parts of
  packets other nodes have cut (`StoreInv`), hence under one fragment id parts of one
  packet, and as many parts as the total are all of them. Each part handled is there
  or its packet is known (`KeptInv`), and no packet is complete in it
  (`IncompleteInv`): once each part was handled, the packet is known. `ShownInv` ties
  what is shown to items sent and to the ids filed. A message is shown under the
  stripped id of its sender; `rstrip` makes no other id into an own one
  (`StrippedSame`), but takes a byte of an own id that ends in 00, which is why
  `ShownExact` needs the hypothesis and `LargeShown` does not. `DeliveryInv` itself was
  checked by TLC on the instance of the run `delivery` before it was proved.
* **ChannelInv.** An owner's fields agree in each of the suspension points of `/pass`;
  announcements come from ids that have been in use and a new run has a new id, so no
  packet on the air makes a client the owner in a later run, and neither its memory nor
  its file can name it before `handshake` is over. What a client has secured it has the
  key of. From the load on, each channel with a password in the file has one in memory,
  which is what makes a save harmless to passwords.
* **ClientNoiseInv.** `NoncePart` is the argument of `NonceInv` for the client.
  `QueuePart`, `TaskPart` and `SealedPart` say where a private message can be: in the
  queue, in one flush that exists once, or in one ciphertext. All actions have one
  form, fields that change, tasks that end and tasks that start, so one lemma
  (`LawfulStep`) proves the step from three conditions that each action is shown to meet.
* **LinkInv.** `NeverStranded` speaks of the prompt. `Seeking` covers the way to it:
  in `connect` a client may be without a scanner, but then has no link
  object, or its own attempt is under way, or it has failed and the first scanner is
  due. `Placed` says which task can be at which await.

Only model-checked: liveness (`TrafficDies`, `LoneHandshakeCompletes`, `SentMeansAcked`,
`LossReported`, `RoutesGoAway`, `FloodSettles`, `SignalExits`, `QuitEnds`, `ScansAgain`),
which rests on fairness and `ENABLED`, outside the prover's logic.

## 6 Where the code departs from what is said of it

One run ends in a violation, with the counterexample as evidence.

* `noise_mutual`: nodes that dial each other announce twice; the second announcement
  restarts the handshake, both states are cleared, and the log's "Waiting for ... to
  initiate handshake" (`mesh.py:337`) is a wait in vain.

Others came up while modelling and have no run of their own. In the daemon:

* `disconnect` of an address without a connection fires the callback that is "called
  by Transport when a TCP connection is lost" (`mesh.py:160`) with None
  (`transport.py:162`), and it raises AttributeError.
* "State and peer data survive restarts" (`README.md:17`), but `discovered_channels` is
  never saved (`mesh.py:602`): after a restart the node has protection, commitment and
  creator of a channel and no longer lists it.
* Closing a WebSocket client changes the set `stop` iterates over (`api.py:69`); the
  next turn raises, and the shutdown task dies before the state is saved and the
  process ends. `SignalExits` is stated without WebSocket clients for this reason.
* `stop` waits without a limit for peers: for the LEAVE to be drained
  (`transport.py:188`), before it saves, and for connections to be closed
  (`transport.py:83`). A start that raises for a port that is taken leaves
  `run_forever` without the shutdown that saves (`__main__.py:58`, `73`).
* A process killed between the truncation and the write of `state.json`
  (`persistence.py:111`) starts again as a new node. `IdentityKept` and
  `ChannelsOnDisk` exclude this crash, and for the client, which then has lost its
  passwords too, `PasswordsKept` does.
* `parse_bitchat_packet` strips zero bytes from ids (`protocol.py:262`), so one node
  in 256, whose id ends in 00, is listed under one id and located under another, and
  cannot be addressed (`IdSurvives`). `PeerAddressed` holds for the others.
* Two overlapping `connect` calls to one address both succeed and the second
  replaces the first in the table; when the first ends, `_on_read_done`
  (`transport.py:167`) removes whatever is at the address, here the second, which
  stays open and cannot be used.
* An announcement handled after its connection is gone lists a peer that nothing
  removes (`mesh.py:219`), which is why `ViewExact` compares the view with the table
  and claims nothing of ghosts. A second id heard at an address stays in
  `peer_addresses` when the connection ends (`mesh.py:165`): `RouteInSight` and
  `RoutesGoAway` claim nothing of such addresses. A peer with an empty nickname leaves
  without an event (`mesh.py:572`), so the nicknames of `peers` are not empty.
* A ciphertext of a replaced session advances the receive nonce of the new one
  (`encryption.py:403`), which is then out of step for good. Messages that force a
  handshake can make both ends initiators.
* The id the API returns for a queued private message is not the one it is sent
  with (`mesh.py:733`).
* On a cycle, the copy that arrives first may be the one with the lower TTL, and
  nodes within range are missed. LEAVE packets are handled once per copy.
* The Bloom filter of 5000 ids (`mesh.py:80`) is written and never read or renewed;
  when it is full, pybloom_live's `add` raises (`mesh.py:456`) before the id is
  filed, and the node no longer shows or relays messages. `Flood` has such a node.
* With zeroconf browsing, `start` does not get past discovery
  (`discovery.py:104`), and peers found are not dialled because the callback runs
  in a thread without an event loop (`discovery.py:98`). A signal that comes
  before `start` is done shuts down what is not yet started.
* A nickname saved by the API is overridden by the configuration at the next
  start (`mesh.py:63`). Opening a channel leaves its password in the file
  (`mesh.py:599`).
* The daemon's `_handle_fragment` uses `struct`, which `mesh.py` does not import,
  so no fragment is ever collected or relayed. A repeated fragment of a packet
  that is complete opens a collection that is never removed (`protocol.py:177`).

In the chat client:

* Links. Two scanners can run at once (`bitchat.py:313`) and each open a link, of
  which one stays open unused. The late callback of an old link drops a healthy new
  one (`bitchat.py:290`). A scan that raises ends its scanner, which is not made
  again before the next disconnection, and makes `run()` raise at its end
  (`bitchat.py:2474`). An exception out of the fallback or the announcement of
  `handshake` ends `run()`, although "will work even without connection"
  (`bitchat.py:2442`). When `start_notify` fails in `connect` (`bitchat.py:369`) or there is no
  characteristic (`365`), the client keeps `self.client`, never listens, and never scans
  again, as it counts as connected (`2341`). A write on an old link that ends "not
  connected" drops the healthy new one (`497`). `/exit` sends LEAVE twice. A message typed while
  unconnected is announced as to be sent later and dropped (`bitchat.py:2119`).
* Channels. An announcement handled between the load and the restore of `handshake`
  saves the empty fields of the new client over the owners, protection and
  commitments that were loaded (`bitchat.py:389`, `449`, `1135`); the passwords stay.
  A member who joins announces itself as the creator, so the owner loses `/pass`
  and `/transfer`, which the help calls "(owner only)"; `/transfer` announces the old
  owner again. Ownership does not survive a restart, for the peer id is new. After
  `/pass` a member that still has the old key cannot give the new password: `/j`
  does not look at it (`bitchat.py:1761`, against 2065 "Members will need to rejoin
  with"). An exception in a send of `/pass` skips the save (`bitchat.py:2052`).
  `/j` with a password prints "Joined password-protected channel" (`1817`) and does not
  mark a channel nobody has announced as protected; a later `/j` without it drops the
  key (`1828`), and what is typed then goes out in plain. Handlers run from
  `start_notify` on (`369`): a channel announcement handled before "Load persisted
  state" (`388`) saves the empty state of the new process, and passwords, names and the
  identity are gone.
  Joined channels are saved and never restored. A kill inside a save
  (`persistence.py:111`) costs all passwords.
* Private messages. `handle_packet` has no branch for DELIVERY_ACK
  (`bitchat.py:617-638`) while the client encrypts each with the session's counter,
  so a peer of the same program is one nonce behind after the first message it
  sent, and opens nothing more. A blocked peer's ciphertexts are not decrypted, so
  the counter is out of step after `/unblock`. A key exchange with a peer not in
  `peers` gives up the session it has just made (`bitchat.py:862`). A message typed
  within `handshake_timeout` of a failed attempt waits until another is typed
  (`bitchat.py:2192`). The re-queuing in `send_pending_private_messages`
  (`bitchat.py:267`) is never reached, as `send_private_message` catches everything.

## 7 What is not modelled

* Cryptographic primitives (`bitchat/encryption.py` below the handshake pattern,
  PBKDF2, AES-GCM, SHA-256): calls into libraries with no state of their own.
* Compression: no sender in the code compresses.
* `bitchat/fragmentation.py`: imported, never called.
* Terminal output, help texts, JSON layout of the API, logging, packaging and the
  announcement test script.
* The copies of the library beside the client (`src/encryption.py` and others) equal
  the files in `src/bitchat`; `ClientNoise` and `ClientChannels` model them as the
  client uses them, `NoiseMesh` and `Persistence` as the daemon does.
* The merge of configuration dictionaries: pure and stateless. What is read from
  the configuration is a constant of the module that reads it.
* Direct messages as a mode of the prompt, and the client's commands that only print.
* The delivery of an event to each WebSocket client (`api.py:174-198`): `PeerTable` has
  the events of the mesh and one subscriber who gets them at once.
* The bytes in a saved file: a save is whole or torn.
* What several peers of one client do to each other: `ClientNoise` has one peer, since
  all its state is kept per peer.

## 8 Plan

Done: all parts modelled, and every safety property of the runs proved.

Next:

1. `ClientNoise` and `NoiseMesh` state the same life of a key; a common module for
   the lemmas about it.
2. An abstract specification of the two flushes of private messages that both
   programs implement.

To check a run: `tlc -workers 2 -config Transport.cfg TransportMC`. To check the
proofs of a module: `tlapm ClientLinkProofs.tla`; the longest take some minutes.
