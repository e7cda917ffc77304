----------------------------- MODULE ClientLink -----------------------------
(***************************************************************************)
(* How the chat client of bitchat.py gets, keeps and loses its Bluetooth   *)
(* link. One event loop runs its tasks over the shared fields client and   *)
(* characteristic: run() itself ("main"), the scanner run() starts when    *)
(* connect() brought no link ("first"), the scanner handle_disconnect()    *)
(* starts ("again"), and a notification handler for each packet.  A step   *)
(* is what a task does between two awaits, so every field read before an   *)
(* await may be stale after it.  Of the handlers only one thing is told    *)
(* apart: that the answer of one finds its link gone.                      *)
(*                                                                         *)
(* Outside the model: what the packets say, and the peers, sessions and    *)
(* pending messages that handle_disconnect() clears with the link. The     *)
(* Bluetooth library is external: a BleakClient object is a member of      *)
(* Link, a scan may find a device, find none or raise, a connection        *)
(* attempt may fail, a link may go at any time and its callback runs some  *)
(* time later.                                                             *)
(***************************************************************************)
EXTENDS FiniteSets

CONSTANTS
    Link,  \* the BleakClient objects that exist at one time
    None

ASSUME LinkAssumption == IsFiniteSet(Link) /\ None \notin Link

VARIABLES
    running,         \* self.running
    client,          \* self.client
    characteristic,  \* self.characteristic: the link it was discovered on
    link,            \* the state of each BleakClient
    introduced,      \* the links on which the identity was sent: a history
    callbacks,       \* links whose disconnected_callback has yet to run
    at,              \* the await at which each task is suspended
    phase,           \* inside send_packet(): which of its awaits
    mine,            \* the BleakClient on which a task awaits
    answering,       \* an answer written to a link lost by now may be under way
    stale            \* the sends under way since whose begin client has changed

stepVars == <<running, client, characteristic, link, introduced,
              callbacks, at, phase, mine>>
vars == <<stepVars, answering, stale>>

Scanners == {"first", "again"}
Tasks == Scanners \cup {"main"}
Sends == {"identity", "fallback", "announce", "leave", "bye"}

\* A scanner task that is not there: not made, returned, or died of an exception.
Gone == {"none", "due", "broken"}

IsConnected(l) == l # None /\ link[l] \in {"up", "listening"}

Alive == at["main"] \notin {"ended", "crashed"}

-----------------------------------------------------------------------------
(* Where a task goes on.                                                   *)

EndHandshakeAnyway(a, c) ==
    IF a["main"] # "ready" THEN a
    ELSE [a EXCEPT !["main"] = "input",
                   !["first"] = IF a["first"] = "due" THEN "rest" ELSE "none"]

\* run() behind handshake(): there is no await up to the input prompt, so
\* the test "not connected or not self.client" is part of the step that ends
\* the handshake; c is self.client in that moment. That connect() returned False
\* is kept as a first scanner that is "due".
EndHandshake(a, c) ==
    IF a["main"] # "ready" THEN a
    ELSE [a EXCEPT !["main"] = "input",
                   !["first"] = IF a["first"] = "due" \/ c = None
                                THEN "rest" ELSE "none"]

DisconnectOnly(a) ==
    /\ client' = None
    /\ characteristic' = None
    /\ at' = EndHandshake(a, None)

\* handle_disconnect() ignores which client it is called for.
handle_disconnect(a) ==
    /\ client' = None
    /\ characteristic' = None
    /\ at' = EndHandshake(IF a["again"] \in Gone
                          THEN [a EXCEPT !["again"] = "rest"] ELSE a, None)

\* The next await of task t once its send_packet() has returned.
After(t, step) ==
    CASE step \in {"identity", "fallback"} -> "pause"
      [] step = "announce" -> IF t = "main" THEN "ready" ELSE "rest"
      [] step = "leave" -> "leaving"
      [] step = "bye" -> "reap"

\* send_packet() up to its first await.
send_packet(a, t, step) ==
    LET back == [a EXCEPT ![t] = After(t, step)]
    IN  \/ /\ client = None \/ characteristic = None
           /\ at' = EndHandshake(back, client)
           /\ phase' = [phase EXCEPT ![t] = "none"]
           /\ UNCHANGED <<client, characteristic>>
        \/ /\ client # None /\ characteristic # None
           /\ ~IsConnected(client)
           /\ handle_disconnect(back)
           /\ phase' = [phase EXCEPT ![t] = "none"]
        \/ /\ IsConnected(client) /\ characteristic # None
           /\ at' = [a EXCEPT ![t] = step]
           /\ phase' = [phase EXCEPT ![t] = "write"]
           /\ UNCHANGED <<client, characteristic>>

\* handshake(), as far as the link is concerned.
handshake(a) ==
    \/ /\ client # None /\ characteristic # None
       /\ send_packet(a, "main", "identity")
    \/ /\ client = None \/ characteristic = None
       /\ at' = EndHandshake([a EXCEPT !["main"] = "ready"], client)
       /\ UNCHANGED <<client, characteristic, phase>>

\* An exception while a link is made: connect() returns False and leaves both
\* fields as they are, a scanner forgets the link without closing it.
Fail(t) ==
    \/ /\ t = "main"
       /\ handshake([at EXCEPT !["first"] = "due"])
    \/ /\ t \in Scanners
       /\ client' = None
       /\ characteristic' = None
       /\ at' = [at EXCEPT ![t] = "rest"]
       /\ phase' = [phase EXCEPT ![t] = "none"]

RaiseIgnored(t, step) ==
    /\ at' = [at EXCEPT ![t] = IF step = "identity" THEN "pause" ELSE After(t, step)]
    /\ phase' = [phase EXCEPT ![t] = "none"]
    /\ UNCHANGED <<client, characteristic>>

\* An exception out of send_packet(), by the handler it reaches.
Raise(t, step) ==
    \/ /\ step = "identity"
       /\ send_packet(at, t, "fallback")
    \/ /\ step \in {"fallback", "announce"}
       /\ t \in Scanners
       /\ Fail(t)
    \/ /\ \/ step \in {"fallback", "announce"} /\ t \notin Scanners
          \/ step \in {"leave", "bye"}
       /\ at' = [at EXCEPT ![t] =
                    CASE step \in {"fallback", "announce"} -> "crashed"
                      [] step = "leave" -> "input"
                      [] step = "bye" -> "reap"]
       /\ phase' = [phase EXCEPT ![t] = "none"]
       /\ UNCHANGED <<client, characteristic>>

-----------------------------------------------------------------------------
(* Getting a link: connect() and background_scanner().                     *)

\* The head of a scanner's loop: the task was just made, or its sleep is over.
ScannerHead(t) ==
    /\ t \in Scanners
    /\ at[t] = "rest"
    /\ at' = [at EXCEPT ![t] = IF ~running THEN "none"
                               ELSE IF ~IsConnected(client) THEN "scan"
                               ELSE "rest"]
    /\ UNCHANGED <<running, client, characteristic, link, introduced,
                   callbacks, phase, mine>>

\* A BleakClient nobody holds any more stands for a new one, and any is as good
\* as any other.
Fresh(l) ==
    /\ ~IsConnected(l)
    /\ l \notin {client, characteristic} \cup callbacks
    /\ \A t \in Tasks : mine[t] # l

\* find_device() returned a device: the field is overwritten whatever it holds.
Found(t) ==
    /\ at[t] = "scan"
    /\ \E l \in Link : Fresh(l)
    /\ LET l == CHOOSE new \in Link : Fresh(new)
       IN  /\ client' = l
           /\ link' = [link EXCEPT ![l] = "opening"]
           /\ mine' = [mine EXCEPT ![t] = l]
    /\ at' = [at EXCEPT ![t] = "open"]
    /\ UNCHANGED <<running, characteristic, introduced, callbacks, phase>>

\* It returned none. A scanner sleeps; connect() scans again, and after ten
\* rounds returns True without a link (the rounds are not counted).
FoundNone(t) ==
    /\ at[t] = "scan"
    /\ \/ /\ t \in Scanners
          /\ at' = [at EXCEPT ![t] = "rest"]
          /\ UNCHANGED <<client, characteristic, phase>>
       \/ /\ t = "main"
          /\ handshake(at)
    /\ UNCHANGED <<running, link, introduced, callbacks, mine>>

\* It raised: the scan is outside every try, in connect() and in the scanner.
ScanRaises(t) ==
    /\ at[t] = "scan"
    /\ at' = [at EXCEPT ![t] = IF t = "main" THEN "crashed" ELSE "broken"]
    /\ UNCHANGED <<running, client, characteristic, link, introduced,
                   callbacks, phase, mine>>

\* connect() of the BleakClient is over. The services are those of self.client,
\* which need not be the object this task has connected. A device without the
\* characteristic leaves the field as it was.
Opened(t) ==
    /\ at[t] = "open"
    /\ link[mine[t]] # "opening"
    /\ \/ /\ link[mine[t]] = "down" \/ ~IsConnected(client)
          /\ Fail(t)
          /\ mine' = [mine EXCEPT ![t] = None]
       \/ /\ link[mine[t]] # "down" /\ IsConnected(client)
          /\ \E char \in {client, characteristic} \ {None} :
               characteristic' = char
          /\ at' = [at EXCEPT ![t] = "notify"]
          /\ mine' = [mine EXCEPT ![t] = client]
          /\ UNCHANGED <<client, phase>>
       \/ /\ link[mine[t]] # "down" /\ IsConnected(client)
          /\ characteristic = None
          /\ \/ t = "main" /\ Fail(t)
             \/ /\ t \in Scanners
                /\ at' = [at EXCEPT ![t] = "rest"]
                /\ UNCHANGED <<client, characteristic, phase>>
          /\ mine' = [mine EXCEPT ![t] = None]
    /\ UNCHANGED <<running, link, introduced, callbacks>>

\* start_notify() is over: the identity goes out, or the exception is handled.
Notified(t) ==
    /\ at[t] = "notify"
    /\ mine' = [mine EXCEPT ![t] = None]
    /\ \/ /\ IsConnected(mine[t])
          /\ link' = [link EXCEPT ![mine[t]] = "listening"]
          /\ IF t = "main" THEN handshake(at) ELSE send_packet(at, t, "identity")
       \/ /\ Fail(t)
          /\ UNCHANGED link
    /\ UNCHANGED <<running, introduced, callbacks>>

\* Half a second after the identity the announcement is sent.
Announce(t) ==
    /\ at[t] = "pause"
    /\ send_packet(at, t, "announce")
    /\ UNCHANGED <<running, link, introduced, callbacks, mine>>

-----------------------------------------------------------------------------
(* send_packet() and send_packet_with_fragmentation() behind their tests:   *)
(* a sleep, then a write to the link that is self.client by then. Both are  *)
(* one wait here; the write is on the client, or, when the field has        *)
(* changed since the sleep began, perhaps on a link it held before.         *)

\* The identity, or the key exchange in its place, has left send_packet().
Introduce(t) ==
    introduced' = IF at[t] \in {"identity", "fallback"}
                  THEN introduced \cup {client} ELSE introduced

\* send_packet() returns to its task and the client stays.
Returns(t) ==
    /\ at' = EndHandshake([at EXCEPT ![t] = After(t, at[t])], client)
    /\ phase' = [phase EXCEPT ![t] = "none"]
    /\ UNCHANGED <<running, client, characteristic, link, callbacks, mine>>

\* The write went through.
Written(t) ==
    /\ at[t] \in Sends
    /\ Returns(t)
    /\ \/ IsConnected(client) /\ characteristic # None /\ Introduce(t)
       \/ t \in stale /\ UNCHANGED introduced

\* "not connected", of the link written to. It is the client of this moment
\* that is given up, a healthy one too.
NotConnected(t) ==
    /\ at[t] \in Sends
    /\ t \in stale \/ ~IsConnected(client)
    /\ \/ /\ client # None
          /\ handle_disconnect([at EXCEPT ![t] = After(t, at[t])])
          /\ phase' = [phase EXCEPT ![t] = "none"]
          /\ UNCHANGED <<running, link, callbacks, mine>>
       \/ client = None /\ t \in stale /\ Returns(t)
    /\ UNCHANGED introduced

BlockedForever(t) ==
    /\ at[t] \in Sends
    /\ IsConnected(client) \/ t \in stale
    /\ phase' = [phase EXCEPT ![t] = IF phase[t] = "write" THEN "retry" ELSE "write"]
    /\ UNCHANGED <<running, client, characteristic, link, introduced, callbacks,
                   at, mine>>

\* "could not complete without blocking": one retry behind a longer sleep, then
\* the packet is dropped.
Blocked(t) ==
    /\ at[t] \in Sends
    /\ \/ /\ phase[t] = "write"
          /\ IsConnected(client) \/ t \in stale
          /\ phase' = [phase EXCEPT ![t] = "retry"]
          /\ UNCHANGED <<running, client, characteristic, link, introduced,
                         callbacks, at, mine>>
       \/ /\ phase[t] = "retry"
          /\ Returns(t)
          /\ \/ IsConnected(client) /\ Introduce(t)
             \/ t \in stale /\ UNCHANGED introduced

\* Any other error: a client that is None by now, a link that is opening, a
\* fragment that is blocked.
WriteRaises(t) ==
    /\ at[t] \in Sends
    /\ Raise(t, at[t])
    /\ UNCHANGED <<running, link, introduced, callbacks, mine>>

\* A send under way while client changes goes stale, until it is over or
\* sleeps again for its retry.
Aging ==
    stale' = {t \in Tasks : /\ at[t] \in Sends
                            /\ at'[t] = at[t] /\ phase'[t] = phase[t]
                            /\ t \in stale \/ client' # client}

-----------------------------------------------------------------------------
(* The user, the handler and the end of run().                             *)

\* A handler's answer finds its link gone, and the client of this moment is given
\* up for it: the answer is begun now, or its write was begun before the loss of
\* the link.  Any number of answers may be under way; one that is written, is
\* dropped as blocked or raises another error leaves no trace here.  A message
\* typed at the prompt takes the same way, in fragments when it is long.
Reply ==
    /\ client # None
    /\ \/ answering
       \/ /\ \E l \in Link : link[l] = "listening"
          /\ characteristic # None /\ ~IsConnected(client)
    /\ handle_disconnect(at)
    /\ UNCHANGED <<running, link, introduced, callbacks, phase, mine>>

\* The finally of run(), up to its first await.
Disconnecting ==
    /\ running' = FALSE
    /\ IF IsConnected(client)
       THEN send_packet(at, "main", "bye")
       ELSE /\ at' = [at EXCEPT !["main"] = "reap"]
            /\ UNCHANGED <<client, characteristic, phase>>

\* The user types /exit.
Exit ==
    /\ at["main"] = "input"
    /\ IF IsConnected(client)
       THEN send_packet(at, "main", "leave") /\ UNCHANGED running
       ELSE Disconnecting
    /\ UNCHANGED <<link, introduced, callbacks, mine>>

\* Control-C at the prompt.
Interrupt ==
    /\ at["main"] = "input"
    /\ Disconnecting
    /\ UNCHANGED <<link, introduced, callbacks, mine>>

\* /exit has waited for its packet.
ExitLeft ==
    /\ at["main"] = "leaving"
    /\ Disconnecting
    /\ UNCHANGED <<link, introduced, callbacks, mine>>

\* The second LEAVE is out; scanner_task is cancelled and awaited. One that
\* died of an exception raises it here.
Reap ==
    /\ at["main"] = "reap"
    /\ at' = [at EXCEPT
                !["main"] = IF at["first"] = "broken" THEN "crashed" ELSE "closing",
                !["first"] = IF at["first"] \in Gone THEN at["first"] ELSE "none"]
    /\ phase' = [phase EXCEPT !["first"] = "none"]
    /\ mine' = [mine EXCEPT !["first"] = None]
    /\ UNCHANGED <<running, client, characteristic, link, introduced,
                   callbacks>>

\* The link is closed and run() returns.
Close ==
    /\ at["main"] = "closing"
    /\ link' = IF IsConnected(client) THEN [link EXCEPT ![client] = "down"] ELSE link
    /\ at' = [at EXCEPT !["main"] = "ended"]
    /\ UNCHANGED <<running, client, characteristic, introduced,
                   callbacks, phase, mine>>

-----------------------------------------------------------------------------
(* The Bluetooth library and the radio.                                    *)

OpenEnds(l) ==
    /\ link[l] = "opening"
    /\ \E s \in {"up", "down"} : link' = [link EXCEPT ![l] = s]
    /\ UNCHANGED <<running, client, characteristic, introduced,
                   callbacks, at, phase, mine>>

LinkLost(l) ==
    /\ IsConnected(l)
    /\ link' = [link EXCEPT ![l] = "lost"]
    /\ callbacks' = callbacks \cup {l}
    /\ introduced' = introduced \ {l}
    /\ answering' = (answering \/ \E k \in Link : link[k] = "listening")
    /\ UNCHANGED <<running, client, characteristic, at, phase, mine>>

Callback(l) ==
    /\ l \in callbacks
    /\ callbacks' = callbacks \ {l}
    /\ handle_disconnect(at)
    /\ UNCHANGED <<running, link, introduced, phase, mine>>

-----------------------------------------------------------------------------
Init ==
    /\ running = TRUE
    /\ client = None
    /\ characteristic = None
    /\ link = [l \in Link |-> "down"]
    /\ introduced = {}
    /\ callbacks = {}
    /\ at = [t \in Tasks |-> IF t = "main" THEN "scan" ELSE "none"]
    /\ phase = [t \in Tasks |-> "none"]
    /\ mine = [t \in Tasks |-> None]
    /\ answering = FALSE
    /\ stale = {}

\* What a task does by itself once its await is over.
Step(t) ==
    \/ ScannerHead(t) \/ Found(t) \/ FoundNone(t) \/ ScanRaises(t)
    \/ Opened(t) \/ Notified(t) \/ Announce(t)
    \/ Written(t) \/ NotConnected(t) \/ Blocked(t) \/ WriteRaises(t)
    \/ t = "main" /\ (ExitLeft \/ Reap \/ Close)

User == Exit \/ Interrupt

\* The process has ended.
Stopped == ~Alive /\ UNCHANGED vars

Next ==
    \/ /\ Alive
       /\ \/ /\ \/ \E t \in Tasks : Step(t)
                \/ User
                \/ Reply
                \/ \E l \in Link : OpenEnds(l) \/ Callback(l)
             /\ UNCHANGED answering
          \/ \E l \in Link : LinkLost(l)
       /\ Aging
    \/ Stopped

(* The event loop resumes every task whose await is over; scans, connection *)
(* attempts and writes have time limits; callbacks run.  Nothing is assumed *)
(* of the user, of the radio or of the handlers' answers.                   *)
Fairness ==
    /\ \A t \in Tasks : WF_stepVars(Alive /\ Step(t))
    /\ WF_stepVars(Alive /\ \E l \in Link : OpenEnds(l) \/ Callback(l))

Spec == Init /\ [][Next]_vars /\ Fairness

-----------------------------------------------------------------------------
(* Properties.                                                             *)

\* The variables have their types.
ClientLinkTypeOK ==
    /\ running \in BOOLEAN
    /\ client \in Link \cup {None} /\ characteristic \in Link \cup {None}
    /\ link \in [Link -> {"down", "opening", "up", "listening", "lost"}]
    /\ introduced \subseteq Link
    /\ callbacks \subseteq Link
    /\ at \in [Tasks -> Sends \cup Gone \cup
                 {"scan", "open", "notify", "pause", "input", "leaving",
                  "reap", "closing", "ended", "crashed", "rest"}]
    /\ phase \in [Tasks -> {"none", "write", "retry"}]
    /\ mine \in [Tasks -> Link \cup {None}]
    /\ answering \in BOOLEAN
    /\ stale \subseteq Tasks

\* A client at the prompt that is not connected is looking for a link, or the
\* callback that makes it look is on its way: however handle_disconnect(), the
\* attempts to connect and the two scanners interleave, only an exception of the
\* scan itself ends the search (bitchat.py:313, 2447, 2341). A client that is
\* connected but could not subscribe, since start_notify() raised (369) or there
\* is no characteristic (365), does not look: it counts as connected at 2341.
NeverStranded ==
    (/\ at["main"] = "input" /\ running
     /\ ~IsConnected(client)
     /\ \A t \in Scanners : at[t] # "broken")
    => (callbacks # {} \/ \E t \in Scanners : at[t] \notin Gone)

\* Once nothing is being set up any more, a subscribed link has had the
\* identity or the key exchange (or send_packet() dropped it as blocked),
\* although the writer takes self.client afresh after every await
\* (bitchat.py:488, 2360-2396).
Introduced ==
    (/\ running /\ Alive
     /\ IsConnected(client) /\ characteristic = client
     /\ link[client] = "listening"
     /\ \A t \in Tasks : at[t] \notin {"open", "notify", "identity", "fallback"})
    => client \in introduced

\* Once the program is told to stop, run() returns or dies: no send, no
\* scanner and no late callback keeps it (bitchat.py:2455-2479).
QuitEnds == ~running ~> ~Alive

\* A client without a link scans again, if it is not stopped first and no scan
\* has raised (bitchat.py:313, 2341-2343).
ScansAgain ==
    (Alive /\ client = None) ~>
        \/ ~Alive \/ ~running
        \/ \E t \in Tasks : at[t] \in {"scan", "broken"}

=============================================================================
