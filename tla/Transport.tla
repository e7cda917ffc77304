------------------------------ MODULE Transport ------------------------------
(***************************************************************************)
(* daemon/transport.py: the table of TCP connections of one node, keyed by *)
(* address, and the callbacks it fires.  Everything runs on one event      *)
(* loop, so an action is the code between two suspension points.  The peer *)
(* at the other end and the network are the actions Accepted, ConnectFails *)
(* and RemoteCloses.                                                       *)
(***************************************************************************)
EXTENDS Naturals, FiniteSets

CONSTANTS
    Conn,       \* PeerConnection objects
    Addr,       \* "host:port"
    Outgoing,   \* the connections made by connect; the others are accepted
    AddrOf,     \* AddrOf[c]: the address c is filed under
    Broadcast,  \* tasks that may be in broadcast_packet at the same time
    MaxOpening  \* bound: calls of connect awaiting open_connection at once

ASSUME TransportAssumption ==
    /\ Outgoing \subseteq Conn
    /\ AddrOf \in [Conn -> Addr]
    /\ MaxOpening \in Nat

VARIABLES
    server,         \* "off", "up" or "down"
    phase,          \* phase[c]: where the code handling c stands
    connections,    \* _connections[a]: {} or {c}
    closed,         \* connections whose writer was closed here
    lost,           \* connections the other end or the network ended
    held,           \* held[b]: connections broadcast_packet b still has to serve
    ups,            \* connections for which on_connected fired
    downs,          \* downs[c]: times on_disconnected(c) fired
    strayed         \* on_disconnected(None) fired

transportVars == <<server, phase, connections, closed, lost, held, ups, downs, strayed>>

(* opening: connect awaits; open: _read_loop runs; ended: the read task is *)
(* done and _on_read_done scheduled; gone: nothing of c runs any more.     *)
Phase == {"idle", "opening", "open", "ended", "gone"}

TransportTypeOK ==
    /\ server \in {"off", "up", "down"}
    /\ phase \in [Conn -> Phase]
    /\ connections \in [Addr -> {{}} \cup {{c} : c \in Conn}]
    /\ closed \in SUBSET Conn
    /\ lost \in SUBSET Conn
    /\ held \in [Broadcast -> SUBSET Conn]
    /\ ups \in SUBSET Conn
    /\ downs \in [Conn -> Nat]
    /\ strayed \in BOOLEAN

TransportInit ==
    /\ server = "off"
    /\ phase = [c \in Conn |-> "idle"]
    /\ connections = [a \in Addr |-> {}]
    /\ closed = {}
    /\ lost = {}
    /\ held = [b \in Broadcast |-> {}]
    /\ ups = {}
    /\ downs = [c \in Conn |-> 0]
    /\ strayed = FALSE

----------------------------------------------------------------------------
StartServer ==
    /\ server = "off"
    /\ server' = "up"
    /\ UNCHANGED <<phase, connections, closed, lost, held, ups, downs, strayed>>

(* Filing c overwrites whatever has its address; on_connected fires.       *)
Filed(c) ==
    /\ phase' = [phase EXCEPT ![c] = "open"]
    /\ connections' = [connections EXCEPT ![AddrOf[c]] = {c}]
    /\ ups' = ups \cup {c}

(* _handle_client up to its read loop.  Two live sockets never have the    *)
(* same remote address.                                                    *)
Accepted(c) ==
    /\ server = "up"
    /\ c \notin Outgoing /\ phase[c] = "idle"
    /\ \A d \in Conn \ Outgoing :
         AddrOf[d] = AddrOf[c] => phase[d] = "idle" \/ d \in closed \cup lost
    /\ Filed(c)
    /\ UNCHANGED <<server, closed, lost, held, downs, strayed>>

(* connect: an address in the table is returned as it is, any other is     *)
(* opened, and the table not looked at again.                              *)
Connect(c) ==
    /\ c \in Outgoing /\ phase[c] = "idle"
    /\ Cardinality({d \in Conn : phase[d] = "opening"}) < MaxOpening
    /\ connections[AddrOf[c]] = {}
    /\ phase' = [phase EXCEPT ![c] = "opening"]
    /\ UNCHANGED <<server, connections, closed, lost, held, ups, downs, strayed>>

ConnectSucceeds(c) ==
    /\ phase[c] = "opening"
    /\ Filed(c)
    /\ UNCHANGED <<server, closed, lost, held, downs, strayed>>

ConnectFails(c) ==
    /\ phase[c] = "opening"
    /\ phase' = [phase EXCEPT ![c] = "gone"]
    /\ UNCHANGED <<server, connections, closed, lost, held, ups, downs, strayed>>

RemoteCloses(c) ==
    /\ phase[c] = "open" /\ c \notin lost
    /\ lost' = lost \cup {c}
    /\ UNCHANGED <<server, phase, connections, closed, held, ups, downs, strayed>>

----------------------------------------------------------------------------
DroppedKeepingEntry(c) ==
    /\ UNCHANGED connections
    /\ closed' = closed \cup {c}
    /\ downs' = [downs EXCEPT ![c] = downs[c] + 1]

DroppedSilently(c) ==
    /\ connections' = [connections EXCEPT ![AddrOf[c]] = {}]
    /\ closed' = closed \cup {c}
    /\ UNCHANGED downs

(* _on_read_done, and the finally of _handle_client: what the table has at *)
(* the address goes, whether or not it is c; on_disconnected fires.        *)
Dropped(c) ==
    /\ connections' = [connections EXCEPT ![AddrOf[c]] = {}]
    /\ closed' = closed \cup {c}
    /\ downs' = [downs EXCEPT ![c] = downs[c] + 1]

(* _read_loop of an outgoing connection ends; the event loop will call     *)
(* _on_read_done later.                                                    *)
ReadLoopEnds(c) ==
    /\ phase[c] = "open" /\ c \in Outgoing
    /\ c \in lost \cup closed
    /\ phase' = [phase EXCEPT ![c] = "ended"]
    /\ UNCHANGED <<server, connections, closed, lost, held, ups, downs, strayed>>

(* _handle_client from the end of its read loop on.                        *)
ClientEnds(c) ==
    /\ phase[c] = "open" /\ c \notin Outgoing
    /\ c \in lost \cup closed
    /\ phase' = [phase EXCEPT ![c] = "gone"]
    /\ Dropped(c)
    /\ UNCHANGED <<server, lost, held, ups, strayed>>

OnReadDone(c) ==
    /\ phase[c] = "ended"
    /\ phase' = [phase EXCEPT ![c] = "gone"]
    /\ Dropped(c)
    /\ UNCHANGED <<server, lost, held, ups, strayed>>

(* send_packet to a connection of the table that turns out to be dead.     *)
SendFails(c) ==
    /\ connections[AddrOf[c]] = {c}
    /\ c \in lost \cup closed
    /\ Dropped(c)
    /\ UNCHANGED <<server, phase, lost, held, ups, strayed>>

(* broadcast_packet copies the table, then sends with an await each.       *)
BroadcastPacket(b) ==
    /\ held[b] = {}
    /\ held' = [held EXCEPT ![b] = UNION {connections[a] : a \in Addr}]
    /\ held' # held
    /\ UNCHANGED <<server, phase, connections, closed, lost, ups, downs, strayed>>

BroadcastSend(b, c) ==
    /\ c \in held[b]
    /\ held' = [held EXCEPT ![b] = held[b] \ {c}]
    /\ UNCHANGED <<server, phase, connections, closed, lost, ups, downs, strayed>>

BroadcastSendFails(b, c) ==
    /\ c \in held[b]
    /\ c \in lost \cup closed
    /\ held' = [held EXCEPT ![b] = held[b] \ {c}]
    /\ Dropped(c)
    /\ UNCHANGED <<server, phase, lost, ups, strayed>>

(* disconnect of an address in the table.                                  *)
Disconnect(a, c) ==
    /\ connections[a] = {c}
    /\ connections' = [connections EXCEPT ![a] = {}]
    /\ closed' = closed \cup {c}
    /\ downs' = [downs EXCEPT ![c] = downs[c] + 1]
    /\ UNCHANGED <<server, phase, lost, held, ups, strayed>>

(* disconnect of any other address: pop gives None, the callback is fired  *)
(* with it, and mesh.py:161 raises before it changes anything.             *)
DisconnectUnknown(a) ==
    /\ connections[a] = {}
    /\ strayed' = TRUE
    /\ UNCHANGED <<server, phase, connections, closed, lost, held, ups, downs>>

(* stop and stop_server                                                    *)
Stop ==
    /\ server = "up"
    /\ server' = "down"
    /\ closed' = closed \cup UNION {connections[a] : a \in Addr}
    /\ connections' = [a \in Addr |-> {}]
    /\ UNCHANGED <<phase, lost, held, ups, downs, strayed>>

----------------------------------------------------------------------------
TransportNext ==
    \/ StartServer \/ Stop
    \/ \E c \in Conn :
         \/ Accepted(c) \/ Connect(c) \/ ConnectSucceeds(c) \/ ConnectFails(c)
         \/ RemoteCloses(c) \/ ReadLoopEnds(c) \/ OnReadDone(c) \/ ClientEnds(c)
         \/ SendFails(c)
    \/ \E b \in Broadcast : \/ BroadcastPacket(b)
                            \/ \E c \in Conn : BroadcastSend(b, c) \/ BroadcastSendFails(b, c)
    \/ \E a \in Addr : DisconnectUnknown(a) \/ \E c \in Conn : Disconnect(a, c)

TransportSpec == TransportInit /\ [][TransportNext]_transportVars

(* The event loop runs what is ready: a read loop whose stream ended, a    *)
(* callback that is scheduled.  Nothing makes a peer connect, read, close, *)
(* or a call of the API happen.                                            *)
TransportFairness ==
    \A c \in Conn :
      /\ WF_transportVars(ReadLoopEnds(c) \/ ClientEnds(c))
      /\ WF_transportVars(OnReadDone(c))

FairTransportSpec == TransportSpec /\ TransportFairness

----------------------------------------------------------------------------
(* Properties                                                              *)

(* No dead entry: whatever get_connections (transport.py:247) returns has  *)
(* code behind it that will take it out again, through races of connect,   *)
(* send errors, disconnect and stop.                                       *)
NoDeadEntry ==
    \A a \in Addr : \A c \in connections[a] :
      AddrOf[c] = a /\ phase[c] \in {"open", "ended"} /\ c \notin closed

(* on_disconnected (transport.py:169) names only connections that were     *)
(* announced with on_connected, and a connection nobody works on any more  *)
(* has been reported and closed: the mesh never keeps a peer for want of a *)
(* callback, nor the process a socket.  A callback that names none         *)
(* (strayed) comes from a disconnect of an unknown address.                *)
DownsMatchUps ==
    \A c \in Conn : /\ downs[c] > 0 => c \in ups
                    /\ phase[c] = "gone" /\ c \in ups => downs[c] > 0 /\ c \in closed

(* A connection that breaks is reported in the end.                        *)
LossReported == \A c \in Conn : c \in lost ~> downs[c] > 0

(* The mesh is told of every entry that goes: an entry leaves _connections *)
(* with an on_disconnected for its address (transport.py:162, 169), or to  *)
(* make room for another connection, or with the whole server.             *)
EvictionReported ==
    [][\A a \in Addr :
         connections[a] # {} /\ connections'[a] = {} /\ server' = server
           => \E c \in Conn : AddrOf[c] = a /\ downs'[c] > downs[c]
      ]_transportVars

=============================================================================
