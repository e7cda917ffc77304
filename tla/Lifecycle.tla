------------------------------ MODULE Lifecycle ------------------------------
(***************************************************************************)
(* daemon/__main__.py with the parts of discovery.py and api.py it starts  *)
(* and stops: the start coroutine, one shutdown task for each signal, the  *)
(* WebSocket handlers and the zeroconf thread.  An action is the code from *)
(* one await that suspends to the next.  zeroconf, aiohttp and the network *)
(* appear as what they do to this code.                                    *)
(***************************************************************************)
EXTENDS Naturals, FiniteSets

CONSTANTS
    Mdns,       \* what mDNS may be: "off", "failing" (not installed, refused)
                \* or "browsing"
    Bootstrap,  \* addresses of mesh.bootstrap_nodes
    Nearby,     \* addresses the zeroconf browser will report
    Ws,         \* WebSocket clients
    Signal      \* signals that may come, one shutdown task each

ASSUME LifecycleAssumption ==
    /\ Mdns \subseteq {"off", "failing", "browsing"}
    /\ IsFiniteSet(Ws)

VARIABLES
    mdns,         \* the configuration and the installed zeroconf decide
    main,         \* where run_forever stands
    listening,    \* the TCP server accepts
    discovering,  \* discovery._running
    known,        \* discovery._known
    dialled,      \* addresses for which a _connect_to_peer task was created
    connected,    \* addresses whose connection came up
    silent,       \* of these, the ones whose on_connected sent no announcement
    unread,       \* some peer leaves unread what it is sent, or its end open
    wired,        \* transport.on_connected sends the announcements
    api,          \* "off", "on", "cleaned"
    wsClients,    \* api._ws_clients
    stop,         \* stop[s]: where the shutdown task of s stands
    todo,         \* todo[s]: clients its loop over _ws_clients has yet to visit
    size,         \* size[s]: size of _ws_clients when that loop began
    saved,        \* save_state was called
    stopEvent

lifecycleVars == <<mdns, main, listening, discovering, known, dialled, connected,
                   silent, unread, wired, api, wsClients, stop, todo, size, saved,
                   stopEvent>>

Address == Bootstrap \cup Nearby
StopPhase == {"none", "leaving", "closing", "cleaning", "draining", "done",
              "failed"}

LifecycleTypeOK ==
    /\ mdns \in Mdns
    /\ main \in {"starting", "browsing", "waiting", "exited", "raised"}
    /\ {listening, discovering, unread, wired, saved, stopEvent} \subseteq BOOLEAN
    /\ known \subseteq Address /\ dialled \subseteq known
    /\ connected \subseteq dialled /\ silent \subseteq connected
    /\ api \in {"off", "on", "cleaned"}
    /\ wsClients \subseteq Ws /\ (wsClients # {} => api = "on")
    /\ stop \in [Signal -> StopPhase]
    /\ todo \in [Signal -> SUBSET Ws]
    /\ size \in [Signal -> 0..Cardinality(Ws)]

LifecycleInit ==
    /\ mdns \in Mdns
    /\ main = "starting"
    /\ listening = FALSE /\ discovering = FALSE /\ wired = FALSE
    /\ known = {} /\ dialled = {} /\ connected = {} /\ silent = {}
    /\ unread = FALSE
    /\ api = "off"
    /\ wsClients = {}
    /\ stop = [s \in Signal |-> "none"]
    /\ todo = [s \in Signal |-> {}]
    /\ size = [s \in Signal |-> 0]
    /\ saved = FALSE /\ stopEvent = FALSE

stopVars == <<stop, todo, size, saved, stopEvent>>
peerVars == <<mdns, known, dialled, connected, silent, unread>>

(* run_forever has neither returned nor raised.                            *)
Running == main \notin {"exited", "raised"}

----------------------------------------------------------------------------
(* Starting                                                                *)

ServingUnwired ==
    /\ wired' = FALSE
    /\ api' = "on"
    /\ main' = "waiting"

(* The end of start: on_connected is wired and the HTTP server started.    *)
(* Its port may be taken: api.start raises, run_forever with it, and       *)
(* asyncio.run cancels every other task.                                   *)
WiredAndServing ==
    /\ wired' = TRUE
    /\ \/ api' = "on" /\ main' = "waiting"
       \/ UNCHANGED api /\ main' = "raised"

(* The port of the mesh is taken: start_server raises.                     *)
PortTaken ==
    /\ main = "starting"
    /\ main' = "raised"
    /\ UNCHANGED <<listening, discovering, wired, api, wsClients>>
    /\ UNCHANGED peerVars
    /\ UNCHANGED stopVars

(* start from the end of start_server to its next suspension: discovery    *)
(* takes in the bootstrap list, and waits only if mDNS browses.            *)
Start ==
    /\ main = "starting"
    /\ listening' = TRUE
    /\ discovering' = TRUE
    /\ known' = Bootstrap /\ dialled' = Bootstrap
    /\ \/ mdns = "browsing" /\ main' = "browsing" /\ UNCHANGED <<wired, api>>
       \/ mdns # "browsing" /\ WiredAndServing
    /\ UNCHANGED <<mdns, connected, silent, unread, wsClients>>
    /\ UNCHANGED stopVars

(* The loop at the end of _start_mdns looks at _running once a second.     *)
BrowsingEnds ==
    /\ main = "browsing" /\ ~discovering
    /\ WiredAndServing
    /\ UNCHANGED <<listening, discovering, wsClients>>
    /\ UNCHANGED peerVars
    /\ UNCHANGED stopVars

(* on_change runs in the thread of zeroconf: the address is known, and     *)
(* create_task raises because that thread has no event loop.               *)
MdnsFound(a) ==
    /\ main = "browsing" /\ a \in Nearby \ known
    /\ known' = known \cup {a}
    /\ UNCHANGED <<mdns, main, listening, discovering, dialled, connected, silent,
                   unread, wired, api, wsClients>>
    /\ UNCHANGED stopVars

(* _connect_to_peer succeeds; an attempt that fails is not repeated.       *)
ConnectToPeer(a) ==
    /\ Running
    /\ a \in dialled \ connected
    /\ connected' = connected \cup {a}
    /\ silent' = IF wired THEN silent ELSE silent \cup {a}
    /\ UNCHANGED <<mdns, main, listening, discovering, known, dialled, unread, wired,
                   api, wsClients>>
    /\ UNCHANGED stopVars

(* Peers stop reading or leave a closed connection half open, and they go  *)
(* on: neither has a limit of time in this code.                           *)
PeersStallOrRead ==
    /\ Running
    /\ unread' = ~unread
    /\ UNCHANGED <<mdns, main, listening, discovering, known, dialled, connected,
                   silent, wired, api, wsClients>>
    /\ UNCHANGED stopVars

----------------------------------------------------------------------------
(* WebSocket clients                                                       *)

HandleWs(w) ==
    /\ api = "on" /\ Running
    /\ w \notin wsClients
    /\ wsClients' = wsClients \cup {w}
    /\ UNCHANGED <<main, listening, discovering, wired, api>>
    /\ UNCHANGED peerVars
    /\ UNCHANGED stopVars

(* The finally of _handle_ws, when the client goes or stop closes it.      *)
WsEnds(w) ==
    /\ w \in wsClients /\ Running
    /\ wsClients' = wsClients \ {w}
    /\ UNCHANGED <<main, listening, discovering, wired, api>>
    /\ UNCHANGED peerVars
    /\ UNCHANGED stopVars

----------------------------------------------------------------------------
(* Stopping                                                                *)

(* A signal starts _shutdown, which first waits for the LEAVE packet.      *)
Shutdown(s) ==
    /\ stop[s] = "none" /\ Running
    /\ stop' = [stop EXCEPT ![s] = "leaving"]
    /\ UNCHANGED <<main, listening, discovering, wired, api, wsClients,
                   todo, size, saved, stopEvent>>
    /\ UNCHANGED peerVars

(* The for loop of HttpServer.stop goes on with the clients in left: it    *)
(* awaits the close of one, or clears the set and cleans up the server.    *)
NextWs(s, left) ==
    \/ \E w \in left :
         /\ todo' = [todo EXCEPT ![s] = left \ {w}]
         /\ stop' = [stop EXCEPT ![s] = "closing"]
         /\ UNCHANGED <<wsClients, api>>
    \/ /\ left = {}
       /\ wsClients' = {}
       /\ api' = IF api = "on" THEN "cleaned" ELSE api
       /\ stop' = [stop EXCEPT ![s] = "cleaning"]
       /\ UNCHANGED todo

(* drain waits for peers that do not read (transport.py:188).              *)
LeaveSent(s) ==
    /\ stop[s] = "leaving" /\ Running /\ ~unread
    /\ size' = [size EXCEPT ![s] = Cardinality(wsClients)]
    /\ NextWs(s, wsClients)
    /\ UNCHANGED <<main, listening, discovering, wired, saved, stopEvent>>
    /\ UNCHANGED peerVars

(* ws.close returns and the iterator is asked for the next client.  A set  *)
(* that has changed its size raises RuntimeError, which ends the task.     *)
WsClosed(s) ==
    /\ stop[s] = "closing" /\ Running
    /\ \/ /\ Cardinality(wsClients) = size[s]
          /\ NextWs(s, todo[s])
       \/ /\ Cardinality(wsClients) # size[s]
          /\ stop' = [stop EXCEPT ![s] = "failed"]
          /\ UNCHANGED <<todo, wsClients, api>>
    /\ UNCHANGED <<main, listening, discovering, wired, size, saved, stopEvent>>
    /\ UNCHANGED peerVars

ComponentsStoppedUnsaved(s) ==
    /\ stop[s] = "cleaning" /\ Running
    /\ discovering' = FALSE
    /\ listening' = FALSE
    /\ stop' = [stop EXCEPT ![s] = "draining"]
    /\ UNCHANGED <<main, wired, api, wsClients, todo, size, saved, stopEvent>>
    /\ UNCHANGED peerVars

(* runner.cleanup is over: discovery.stop, save_state and transport.stop   *)
(* up to wait_closed.                                                      *)
ComponentsStopped(s) ==
    /\ stop[s] = "cleaning" /\ Running
    /\ discovering' = FALSE
    /\ saved' = TRUE
    /\ listening' = FALSE
    /\ stop' = [stop EXCEPT ![s] = "draining"]
    /\ UNCHANGED <<main, wired, api, wsClients, todo, size, stopEvent>>
    /\ UNCHANGED peerVars

StopDoneNoEvent(s) ==
    /\ stop[s] = "draining" /\ Running /\ ~unread
    /\ stop' = [stop EXCEPT ![s] = "done"]
    /\ UNCHANGED <<main, listening, discovering, wired, api, wsClients, todo, size,
                   saved, stopEvent>>
    /\ UNCHANGED peerVars

(* wait_closed waits for connections to end (transport.py:83).             *)
StopDone(s) ==
    /\ stop[s] = "draining" /\ Running /\ ~unread
    /\ stop' = [stop EXCEPT ![s] = "done"]
    /\ stopEvent' = TRUE
    /\ UNCHANGED <<main, listening, discovering, wired, api, wsClients, todo, size, saved>>
    /\ UNCHANGED peerVars

Exit ==
    /\ main = "waiting" /\ stopEvent
    /\ main' = "exited"
    /\ UNCHANGED <<listening, discovering, wired, api, wsClients>>
    /\ UNCHANGED peerVars
    /\ UNCHANGED stopVars

----------------------------------------------------------------------------
StopStep(s) ==
    LeaveSent(s) \/ WsClosed(s) \/ ComponentsStopped(s) \/ StopDone(s)

LifecycleNext ==
    \/ Start \/ PortTaken \/ BrowsingEnds \/ Exit \/ PeersStallOrRead
    \/ \E a \in Address : MdnsFound(a) \/ ConnectToPeer(a)
    \/ \E w \in Ws : HandleWs(w) \/ WsEnds(w)
    \/ \E s \in Signal : Shutdown(s) \/ StopStep(s)

LifecycleSpec == LifecycleInit /\ [][LifecycleNext]_lifecycleVars

(* The event loop goes on with what is awaited once that is there.  What   *)
(* waits for peers is fair only while they read (~unread in its guard).    *)
LifecycleFairness ==
    /\ WF_lifecycleVars(Start \/ PortTaken)
    /\ WF_lifecycleVars(BrowsingEnds)
    /\ WF_lifecycleVars(Exit)
    /\ \A s \in Signal : WF_lifecycleVars(StopStep(s))

FairLifecycleSpec == LifecycleSpec /\ LifecycleFairness

----------------------------------------------------------------------------
(* Properties                                                              *)

(* __main__.py:67, "On new transport connections, send our identity": no   *)
(* connection comes up before the callback that does so is wired, as long  *)
(* as start does not hang in the mDNS browser.                             *)
NoSilentPeer == mdns # "browsing" => silent = {}

(* However signals, the WebSocket loop and a failing start interleave, a   *)
(* process that leaves run_forever has saved its state (__main__.py:78-90, *)
(* 119-121), or its start raised before any peer it dialled was connected  *)
(* (58, 73): a start that raises after a time in the mDNS browser has a    *)
(* shutdown behind it that saved.                                          *)
ExitSaved ==
    ~Running => saved \/ (main = "raised" /\ connected = {})

(* __main__.py:105, "Run until a shutdown signal is received": a signal    *)
(* ends the process, whenever it comes (109-121), even before start has    *)
(* got anywhere, if from some time on the peers read what they are sent    *)
(* and close their ends.  A WebSocket client that changes the set stop     *)
(* iterates over, and the mDNS browser, can keep it from ending.           *)
SignalExits ==
    mdns # "browsing" /\ [](wsClients = {}) /\ <>[](~unread) =>
      ((\E s \in Signal : stop[s] # "none") ~> ~Running)
=============================================================================
