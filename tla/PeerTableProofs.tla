--------------------------- MODULE PeerTableProofs ---------------------------
(***************************************************************************)
(* Machine-checked facts about Transport and PeerTable for any set of      *)
(* connections, addresses and peers and any way connections are filed.     *)
(* Transport: the table has no dead entry, the callbacks match, and every  *)
(* entry that goes is reported.  PeerTable: it runs the transport          *)
(* unchanged, the events add up to the peer table, and a route without a   *)
(* connection somebody reads is at an address two ids were heard over.     *)
(***************************************************************************)
EXTENDS PeerTable, SequenceTheorems, TLAPS

USE TransportAssumption

(* What the code handling a connection has done so far.  A connection that *)
(* is not up yet was neither announced nor closed nor reported; one that   *)
(* is being read, or is still to be served by a broadcast, was announced.  *)
Progress ==
    \A c \in Conn :
      /\ phase[c] \in {"idle", "opening"} =>
           /\ c \notin closed /\ c \notin ups /\ downs[c] = 0
           /\ \A b \in Broadcast : c \notin held[b]
      /\ phase[c] \in {"open", "ended"} => c \in ups
      /\ \A b \in Broadcast : c \in held[b] => c \in ups

TransportInv == TransportTypeOK /\ NoDeadEntry /\ DownsMatchUps /\ Progress

----------------------------------------------------------------------------
(* Filing a connection that is not up puts a live entry into the table and *)
(* announces it; what it overwrites is not in the table any more.          *)
LEMMA FiledInv ==
    ASSUME TransportInv, NEW c \in Conn, phase[c] \in {"idle", "opening"},
           Filed(c), UNCHANGED <<server, closed, lost, held, downs, strayed>>
    PROVE  TransportInv'
<1>1. TransportTypeOK'
  BY DEF TransportInv, TransportTypeOK, Filed, Phase
<1>2. NoDeadEntry'
  BY DEF TransportInv, TransportTypeOK, NoDeadEntry, Progress, Filed, Phase
<1>3. DownsMatchUps'
  BY DEF TransportInv, TransportTypeOK, DownsMatchUps, Progress, Filed, Phase
<1>4. Progress'
  BY DEF TransportInv, TransportTypeOK, Progress, Filed, Phase
<1> QED
  BY <1>1, <1>2, <1>3, <1>4 DEF TransportInv

(* Dropping a connection that was announced takes the entry of its address *)
(* out, whoever it belongs to, and reports it.                             *)
LEMMA DroppedInv ==
    ASSUME TransportInv, NEW c \in Conn, c \in ups, Dropped(c),
           UNCHANGED <<server, lost, ups, strayed>>,
           held' \in [Broadcast -> SUBSET Conn],
           \A b \in Broadcast : held'[b] \subseteq held[b],
           \/ phase' = phase
           \/ phase' = [phase EXCEPT ![c] = "gone"]
    PROVE  TransportInv'
<1>1. TransportTypeOK'
  BY DEF TransportInv, TransportTypeOK, Dropped, Phase
<1>2. NoDeadEntry'
  BY DEF TransportInv, TransportTypeOK, NoDeadEntry, Dropped, Phase
<1>3. DownsMatchUps'
  BY DEF TransportInv, TransportTypeOK, DownsMatchUps, Dropped, Phase
<1>4. Progress'
  BY DEF TransportInv, TransportTypeOK, Progress, Dropped, Phase
<1> QED
  BY <1>1, <1>2, <1>3, <1>4 DEF TransportInv

(* An entry of the table is a connection that was announced.               *)
LEMMA EntryUp ==
    ASSUME TransportInv, NEW a \in Addr, NEW c \in connections[a]
    PROVE  c \in Conn /\ c \in ups /\ AddrOf[c] = a
BY DEF TransportInv, TransportTypeOK, NoDeadEntry, Progress

----------------------------------------------------------------------------
(* One lemma per kind of step.                                             *)
LEMMA ConnectingStep ==
    ASSUME TransportInv, NEW c \in Conn,
           \/ Accepted(c) \/ Connect(c) \/ ConnectSucceeds(c) \/ ConnectFails(c)
    PROVE  TransportInv'
<1>1. CASE Accepted(c) \/ ConnectSucceeds(c)
  BY <1>1, FiledInv DEF Accepted, ConnectSucceeds
<1>2. CASE Connect(c)
  BY <1>2 DEF Connect, TransportInv, TransportTypeOK, NoDeadEntry, DownsMatchUps,
              Progress, Phase
<1>3. CASE ConnectFails(c)
  BY <1>3 DEF ConnectFails, TransportInv, TransportTypeOK, NoDeadEntry,
              DownsMatchUps, Progress, Phase
<1> QED
  BY <1>1, <1>2, <1>3

LEMMA EndingStep ==
    ASSUME TransportInv, NEW c \in Conn,
           \/ RemoteCloses(c) \/ ReadLoopEnds(c) \/ OnReadDone(c) \/ ClientEnds(c)
    PROVE  TransportInv'
<1>1. CASE RemoteCloses(c)
  BY <1>1 DEF RemoteCloses, TransportInv, TransportTypeOK, NoDeadEntry,
              DownsMatchUps, Progress
<1>2. CASE ReadLoopEnds(c)
  BY <1>2 DEF ReadLoopEnds, TransportInv, TransportTypeOK, NoDeadEntry,
              DownsMatchUps, Progress, Phase
<1>3. CASE OnReadDone(c) \/ ClientEnds(c)
  <2>1. c \in ups
    BY <1>3 DEF OnReadDone, ClientEnds, TransportInv, Progress
  <2> QED
    BY <1>3, <2>1, DroppedInv DEF OnReadDone, ClientEnds, TransportInv, TransportTypeOK
<1> QED
  BY <1>1, <1>2, <1>3

LEMMA SendingStep ==
    ASSUME TransportInv, NEW c \in Conn, SendFails(c)
    PROVE  TransportInv'
<1>1. AddrOf[c] \in Addr /\ c \in connections[AddrOf[c]]
  BY DEF SendFails
<1> QED
  BY <1>1, EntryUp, DroppedInv DEF SendFails, TransportInv, TransportTypeOK

LEMMA BroadcastingStep ==
    ASSUME TransportInv, NEW b \in Broadcast, NEW c \in Conn,
           \/ BroadcastSend(b, c) \/ BroadcastSendFails(b, c)
    PROVE  TransportInv'
<1> DEFINE next == [held EXCEPT ![b] = held[b] \ {c}]
<1>1. held' = next /\ c \in held[b]
  BY DEF BroadcastSend, BroadcastSendFails
<1>2. next \in [Broadcast -> SUBSET Conn]
      /\ \A d \in Broadcast : next[d] \subseteq held[d]
  BY DEF TransportInv, TransportTypeOK
<1> HIDE DEF next
<1>3. CASE BroadcastSend(b, c)
  <2>1. UNCHANGED <<server, phase, connections, closed, lost, ups, downs, strayed>>
    BY <1>3 DEF BroadcastSend
  <2> QED
    BY <1>1, <1>2, <2>1 DEF TransportInv, TransportTypeOK, NoDeadEntry,
                           DownsMatchUps, Progress
<1>4. CASE BroadcastSendFails(b, c)
  <2>1. c \in ups
    BY <1>1 DEF TransportInv, Progress
  <2> QED
    BY <1>1, <1>2, <1>4, <2>1, DroppedInv DEF BroadcastSendFails
<1> QED
  BY <1>3, <1>4

LEMMA DisconnectStep ==
    ASSUME TransportInv, NEW a \in Addr, NEW c \in Conn, Disconnect(a, c)
    PROVE  TransportInv'
<1>1. c \in ups /\ AddrOf[c] = a
  BY EntryUp DEF Disconnect
<1>2. Dropped(c)
  BY <1>1 DEF Disconnect, Dropped
<1> QED
  BY <1>1, <1>2, DroppedInv DEF Disconnect, TransportInv, TransportTypeOK

(* A disconnect of an unknown address changes no connection.               *)
LEMMA StrayStep ==
    ASSUME TransportInv, NEW a \in Addr, DisconnectUnknown(a)
    PROVE  TransportInv'
BY DEF DisconnectUnknown, TransportInv, TransportTypeOK, NoDeadEntry,
       DownsMatchUps, Progress

LEMMA ServerStep ==
    ASSUME TransportInv,
           StartServer \/ Stop \/ \E b \in Broadcast : BroadcastPacket(b)
    PROVE  TransportInv'
<1>1. CASE StartServer
  BY <1>1 DEF StartServer, TransportInv, TransportTypeOK, NoDeadEntry,
              DownsMatchUps, Progress
<1> DEFINE all == UNION {connections[a] : a \in Addr}
<1>2. \A c \in all : c \in Conn /\ c \in ups
  BY EntryUp
<1>3. all \in SUBSET Conn
  BY <1>2
<1>4. \A c \in all : phase[c] \notin {"idle", "opening"}
  BY DEF TransportInv, NoDeadEntry
<1>5. CASE Stop
  <2>1. closed' = closed \cup all /\ connections' = [a \in Addr |-> {}]
        /\ server' = "down" /\ UNCHANGED <<phase, lost, held, ups, downs, strayed>>
    BY <1>5 DEF Stop
  <2> HIDE DEF all
  <2> QED
    BY <1>3, <1>4, <2>1 DEF TransportInv, TransportTypeOK, NoDeadEntry,
                          DownsMatchUps, Progress
<1>6. ASSUME NEW b \in Broadcast, BroadcastPacket(b)
      PROVE  TransportInv'
  <2>1. held' = [held EXCEPT ![b] = all]
        /\ UNCHANGED <<server, phase, connections, closed, lost, ups, downs, strayed>>
    BY <1>6 DEF BroadcastPacket
  <2> HIDE DEF all
  <2> QED
    BY <1>2, <1>3, <1>4, <2>1 DEF TransportInv, TransportTypeOK, NoDeadEntry,
                          DownsMatchUps, Progress
<1> QED
  BY <1>1, <1>5, <1>6

LEMMA TransportInitial == TransportInit => TransportInv
<1> SUFFICES ASSUME TransportInit PROVE TransportInv
  OBVIOUS
<1>1. TransportTypeOK
  BY DEF TransportInit, TransportTypeOK, Phase
<1>2. NoDeadEntry /\ DownsMatchUps /\ Progress
  BY DEF TransportInit, NoDeadEntry, DownsMatchUps, Progress
<1> QED
  BY <1>1, <1>2 DEF TransportInv

LEMMA TransportPreserved ==
    ASSUME TransportInv, TransportNext \/ UNCHANGED transportVars
    PROVE  TransportInv'
<1>1. CASE UNCHANGED transportVars
  BY <1>1 DEF transportVars, TransportInv, TransportTypeOK, NoDeadEntry,
              DownsMatchUps, Progress
<1>2. CASE TransportNext
  BY <1>2, ServerStep, ConnectingStep, EndingStep, SendingStep, BroadcastingStep,
     DisconnectStep, StrayStep
  DEF TransportNext
<1> QED
  BY <1>1, <1>2

(* The invariant holds of every reachable state.                           *)
THEOREM TransportInvariant == TransportSpec => []TransportInv
<1>1. TransportInv /\ [TransportNext]_transportVars => TransportInv'
  BY TransportPreserved
<1> QED
  BY <1>1, TransportInitial, PTL DEF TransportSpec

----------------------------------------------------------------------------
(* The state of the transport is well typed, whatever the network does.    *)
THEOREM TransportTypeCorrect == TransportSpec => []TransportTypeOK
BY TransportInvariant, PTL DEF TransportInv

(* NoDeadEntry for any number of racing connections: get_connections       *)
(* (transport.py:247) never returns one that nothing will take out again.  *)
THEOREM TableIsLive == TransportSpec => []NoDeadEntry
BY TransportInvariant, PTL DEF TransportInv

(* DownsMatchUps: on_disconnected names a connection only after            *)
(* on_connected did, and by the time the last code that handles it ends    *)
(* the connection is reported and closed.                                  *)
THEOREM CallbacksMatch == TransportSpec => []DownsMatchUps
BY TransportInvariant, PTL DEF TransportInv

(* EvictionReported: an entry that goes without the server is reported.    *)
THEOREM EvictionsReported == TransportSpec => EvictionReported
<1> DEFINE Told ==
      \A a \in Addr :
        connections[a] # {} /\ connections'[a] = {} /\ server' = server
          => \E c \in Conn : AddrOf[c] = a /\ downs'[c] > downs[c]
<1>1. TransportInv /\ [TransportNext]_transportVars => [Told]_transportVars
  <2> SUFFICES ASSUME TransportInv, TransportNext PROVE Told
    OBVIOUS
  <2>1. ASSUME NEW c \in Conn, Filed(c) PROVE Told
    BY <2>1 DEF Filed, TransportInv, TransportTypeOK
  <2>2. ASSUME NEW c \in Conn, Dropped(c) PROVE Told
    <3>1. downs'[c] > downs[c]
      BY <2>2 DEF Dropped, TransportInv, TransportTypeOK
    <3> QED
      BY <2>2, <3>1 DEF Dropped, TransportInv, TransportTypeOK
  <2>3. ASSUME NEW a \in Addr, NEW c \in Conn, Disconnect(a, c) PROVE Told
    <3>1. Dropped(c)
      BY <2>3, EntryUp DEF Disconnect, Dropped
    <3> QED
      BY <3>1, <2>2
  <2>4. ASSUME UNCHANGED connections PROVE Told
    BY <2>4
  <2>5. CASE \/ StartServer
             \/ \E b \in Broadcast :
                  BroadcastPacket(b) \/ \E c \in Conn : BroadcastSend(b, c)
             \/ \E a \in Addr : DisconnectUnknown(a)
    BY <2>4, <2>5 DEF StartServer, BroadcastPacket, BroadcastSend, DisconnectUnknown
  <2>6. CASE Stop
    BY <2>6 DEF Stop
  <2>7. ASSUME NEW c \in Conn, Accepted(c) \/ ConnectSucceeds(c) PROVE Told
    BY <2>1, <2>7 DEF Accepted, ConnectSucceeds
  <2>8. ASSUME NEW c \in Conn,
               \/ Connect(c) \/ ConnectFails(c) \/ RemoteCloses(c)
               \/ ReadLoopEnds(c)
        PROVE  Told
    BY <2>4, <2>8 DEF Connect, ConnectFails, RemoteCloses, ReadLoopEnds
  <2>9. ASSUME NEW c \in Conn,
               \/ OnReadDone(c) \/ ClientEnds(c) \/ SendFails(c)
               \/ \E b \in Broadcast : BroadcastSendFails(b, c)
        PROVE  Told
    BY <2>2, <2>9 DEF OnReadDone, ClientEnds, SendFails, BroadcastSendFails
  <2> HIDE DEF Told
  <2> QED
    BY <2>3, <2>5, <2>6, <2>7, <2>8, <2>9 DEF TransportNext
<1> QED
  BY <1>1, TransportInvariant, PTL DEF TransportSpec, EvictionReported

----------------------------------------------------------------------------
(* peer_addresses as a sequence of pairs.                                  *)

(* Deleting a position of a sequence.                                      *)
LEMMA RemoveAtFacts ==
    ASSUME NEW S, NEW s \in Seq(S), NEW k \in DOMAIN s
    PROVE  /\ RemoveAt(s, k) \in Seq(S)
           /\ Len(RemoveAt(s, k)) = Len(s) - 1
           /\ \A i \in DOMAIN RemoveAt(s, k) :
                RemoveAt(s, k)[i] = IF i < k THEN s[i] ELSE s[i + 1]
<1> DEFINE l == SubSeq(s, 1, k - 1)
           r == SubSeq(s, k + 1, Len(s))
<1>1. k \in 1 .. Len(s) /\ Len(s) \in Nat
  OBVIOUS
<1>2. l \in Seq(S) /\ Len(l) = k - 1 /\ \A i \in 1 .. k - 1 : l[i] = s[i]
  BY <1>1
<1>3. r \in Seq(S) /\ Len(r) = Len(s) - k
      /\ \A i \in 1 .. Len(s) - k : r[i] = s[k + i]
  BY <1>1
<1>4. RemoveAt(s, k) = l \o r
  BY DEF RemoveAt
<1> HIDE DEF l, r
<1>5. l \o r \in Seq(S) /\ Len(l \o r) = Len(s) - 1
  BY <1>1, <1>2, <1>3
<1>6. \A i \in 1 .. Len(s) - 1 :
        (l \o r)[i] = IF i < k THEN s[i] ELSE s[i + 1]
  <2> TAKE i \in 1 .. Len(s) - 1
  <2>1. (l \o r)[i] = IF i <= k - 1 THEN l[i] ELSE r[i - (k - 1)]
    BY <1>1, <1>2, <1>3, ConcatProperties
  <2>2. CASE i < k
    BY <1>1, <1>2, <2>1, <2>2
  <2>3. CASE ~(i < k)
    <3>1. i - (k - 1) \in 1 .. Len(s) - k /\ k + (i - (k - 1)) = i + 1
      BY <1>1, <2>3
    <3> QED
      BY <1>1, <1>3, <2>1, <2>3, <3>1
  <2> QED
    BY <2>2, <2>3
<1>7. DOMAIN (l \o r) = 1 .. Len(s) - 1
  BY <1>5
<1> QED
  BY <1>4, <1>5, <1>6, <1>7

(* Each id has one address.                                                *)
Keyed(s) == \A i, j \in DOMAIN s : s[i][1] = s[j][1] => i = j

(* A packet of p gives p the address it came from and leaves the others.   *)
LEMMA LocatedFacts ==
    ASSUME NEW p \in Peer, NEW a \in Addr,
           peerAddresses \in Seq(Peer \X Addr), Keyed(peerAddresses)
    PROVE  /\ Located(p, a) \in Seq(Peer \X Addr)
           /\ Keyed(Located(p, a))
           /\ \A i \in DOMAIN Located(p, a) :
                \/ Located(p, a)[i] = <<p, a>>
                \/ \E j \in DOMAIN peerAddresses :
                     Located(p, a)[i] = peerAddresses[j]
<1>0. <<p, a>> \in Peer \X Addr /\ <<p, a>>[1] = p
  OBVIOUS
<1> DEFINE s == peerAddresses
<1>1. CASE \E i \in DOMAIN s : s[i][1] = p
  <2> DEFINE t == [i \in DOMAIN s |-> IF s[i][1] = p THEN <<p, a>> ELSE s[i]]
  <2>1. Located(p, a) = t
    BY <1>1 DEF Located
  <2>2. Len(s) \in Nat /\ DOMAIN s = 1 .. Len(s)
    OBVIOUS
  <2>3. \A i \in DOMAIN s : t[i] \in Peer \X Addr /\ t[i][1] = s[i][1]
    BY <1>0
  <2>4. DOMAIN t = DOMAIN s
    OBVIOUS
  <2>5. \A i \in DOMAIN t : t[i] = <<p, a>> \/ t[i] = s[i]
    OBVIOUS
  <2> HIDE DEF t
  <2>6. t \in Seq(Peer \X Addr)
    <3>1. t = [i \in 1 .. Len(s) |-> t[i]]
      BY <2>2, <2>4 DEF t
    <3> QED
      BY <2>2, <2>3, <2>4, <3>1
  <2>7. Keyed(t)
    BY <2>3, <2>4 DEF Keyed
  <2> QED
    BY <2>1, <2>4, <2>5, <2>6, <2>7
<1>2. CASE ~\E i \in DOMAIN s : s[i][1] = p
  <2>1. Located(p, a) = Append(s, <<p, a>>)
    BY <1>2 DEF Located
  <2>2. Append(s, <<p, a>>) \in Seq(Peer \X Addr)
    BY <1>0
  <2>3. \A i \in DOMAIN Append(s, <<p, a>>) :
          \/ i \in DOMAIN s /\ Append(s, <<p, a>>)[i] = s[i]
          \/ i = Len(s) + 1 /\ Append(s, <<p, a>>)[i] = <<p, a>>
    BY <1>0
  <2>4. Keyed(Append(s, <<p, a>>))
    BY <1>0, <1>2, <2>3 DEF Keyed
  <2> QED
    BY <2>1, <2>2, <2>3, <2>4
<1> QED
  BY <1>1, <1>2

(* pop takes p out and keeps the rest.                                     *)
LEMMA UnlocatedFacts ==
    ASSUME NEW p \in Peer,
           peerAddresses \in Seq(Peer \X Addr), Keyed(peerAddresses)
    PROVE  /\ Unlocated(p) \in Seq(Peer \X Addr)
           /\ Keyed(Unlocated(p))
           /\ \A i \in DOMAIN Unlocated(p) :
                /\ Unlocated(p)[i][1] # p
                /\ \E j \in DOMAIN peerAddresses :
                     Unlocated(p)[i] = peerAddresses[j]
<1> DEFINE s == peerAddresses
<1>1. CASE \E i \in DOMAIN s : s[i][1] = p
  <2> DEFINE k == CHOOSE i \in DOMAIN s : s[i][1] = p
             t == RemoveAt(s, k)
  <2>1. k \in DOMAIN s /\ s[k][1] = p
    BY <1>1
  <2>2. Unlocated(p) = t
    BY <1>1 DEF Unlocated
  <2> HIDE DEF k
  <2>3. t \in Seq(Peer \X Addr) /\ Len(t) = Len(s) - 1
        /\ \A i \in DOMAIN t : t[i] = IF i < k THEN s[i] ELSE s[i + 1]
    BY <2>1, RemoveAtFacts
  <2> HIDE DEF t
  <2>4. k \in 1 .. Len(s) /\ Len(s) \in Nat /\ DOMAIN t = 1 .. Len(s) - 1
        /\ DOMAIN s = 1 .. Len(s)
    BY <2>1, <2>3
  <2> DEFINE at(i) == IF i < k THEN i ELSE i + 1
  <2>5. \A i \in DOMAIN t : at(i) \in DOMAIN s /\ at(i) # k /\ t[i] = s[at(i)]
    BY <2>3, <2>4
  <2>6. \A i, j \in DOMAIN t : at(i) = at(j) => i = j
    BY <2>4
  <2> HIDE DEF at
  <2>7. Keyed(t)
    BY <2>5, <2>6 DEF Keyed
  <2>8. \A i \in DOMAIN t : t[i][1] # p
    BY <2>1, <2>5 DEF Keyed
  <2> QED
    BY <2>2, <2>3, <2>5, <2>7, <2>8
<1>2. CASE ~\E i \in DOMAIN s : s[i][1] = p
  BY <1>2 DEF Unlocated
<1> QED
  BY <1>1, <1>2

----------------------------------------------------------------------------
(* What a step of the table does to the transport is a step of it.         *)
LEMMA TransportStepTaken ==
    ASSUME PeerTypeOK, PeerNext
    PROVE  TransportNext \/ UNCHANGED transportVars
<1>1. CASE TransportOnly
  BY <1>1 DEF TransportOnly, TransportNext
<1>2. CASE HandlerRuns
  BY <1>2 DEF HandlerRuns
<1>3. CASE TableReadDone
  <2>1. Head(ready) \in Task
    BY <1>3 DEF PeerTypeOK, TableReadDone
  <2>2. Head(ready).of \in Conn
    BY <1>3, <2>1, PeerTableAssumption DEF TableReadDone, Task
  <2> QED
    BY <1>3, <2>2 DEF TableReadDone, TransportNext
<1>4. ASSUME NEW c \in Conn, TableReadLoopEnds(c) \/ TableDrop(c)
      PROVE  TransportNext
  BY <1>4 DEF TableReadLoopEnds, TableDrop, TransportNext
<1>5. ASSUME NEW c \in Conn, NEW p \in Peer,
             NEW kind \in Nick \cup {"leave", "other"}, PacketReceived(c, p, kind)
      PROVE  UNCHANGED transportVars
  BY <1>5 DEF PacketReceived
<1> QED
  BY <1>1, <1>2, <1>3, <1>4, <1>5 DEF PeerNext

----------------------------------------------------------------------------
(* The types of the entries, which tasks do not touch, and of the table.   *)
EntriesOK ==
    /\ peers \in [Peer -> {"absent"} \cup Nick]
    /\ peerAddresses \in Seq(Peer \X Addr)
    /\ Keyed(peerAddresses)
    /\ shown \in SUBSET Peer

TableTypeOK ==
    EntriesOK /\ ready \in Seq(Task) /\ heard \in [Addr -> SUBSET Peer]

LEMMA PeerTypes == PeerTypeOK <=> TransportTypeOK /\ TableTypeOK
BY DEF PeerTypeOK, TableTypeOK, EntriesOK, Keyed

LEMMA RemovePeerTypes ==
    ASSUME EntriesOK, NEW p \in Peer, RemovePeer(p)
    PROVE  EntriesOK'
BY UnlocatedFacts DEF EntriesOK, RemovePeer, Keyed

LEMMA DisconnectedTypes ==
    ASSUME EntriesOK, NEW c \in Conn, OnPeerDisconnected(c)
    PROVE  EntriesOK'
<1>1. CASE UNCHANGED <<peers, peerAddresses, shown>>
  BY <1>1 DEF EntriesOK, Keyed
<1>2. ASSUME NEW i \in DOMAIN peerAddresses, RemovePeer(peerAddresses[i][1])
      PROVE  EntriesOK'
  <2>1. peerAddresses[i][1] \in Peer
    BY DEF EntriesOK
  <2> QED
    BY <1>2, <2>1, RemovePeerTypes
<1> QED
  BY <1>1, <1>2 DEF OnPeerDisconnected

(* What is remembered of an address is what was heard over it.             *)
LEMMA HeardTypes ==
    ASSUME TableTypeOK, PeerNext
    PROVE  heard' \in [Addr -> SUBSET Peer]
<1>1. ASSUME NEW STATE now, now \in [Addr -> SUBSET Peer], Recalls(now)
      PROVE  heard' \in [Addr -> SUBSET Peer]
  BY <1>1 DEF Recalls
<1>2. CASE UNCHANGED heard
  BY <1>2 DEF TableTypeOK
<1>3. CASE Recalls(heard)
  BY <1>1, <1>3 DEF TableTypeOK
<1>4. ASSUME NEW c \in Conn, NEW p \in Peer,
             Recalls([heard EXCEPT ![AddrOf[c]] = heard[AddrOf[c]] \cup {p}])
      PROVE  heard' \in [Addr -> SUBSET Peer]
  <2>1. [heard EXCEPT ![AddrOf[c]] = heard[AddrOf[c]] \cup {p}]
          \in [Addr -> SUBSET Peer]
    BY DEF TableTypeOK
  <2> QED
    BY <1>1, <1>4, <2>1
<1> QED
  BY <1>2, <1>3, <1>4 DEF PeerNext, TransportOnly, tableVars, HandlerRuns,
     TableReadDone, TableReadLoopEnds, TableDrop, PacketReceived

LEMMA TableTypeStep ==
    ASSUME TransportTypeOK, TableTypeOK, PeerNext
    PROVE  TableTypeOK'
<1> USE PeerTableAssumption
<1>0. EntriesOK /\ ready \in Seq(Task)
  BY DEF TableTypeOK
<1>q. SUFFICES EntriesOK' /\ ready' \in Seq(Task)
  BY HeardTypes DEF TableTypeOK
<1>1. CASE TransportOnly
  BY <1>0, <1>1 DEF TransportOnly, tableVars, EntriesOK, Keyed
<1>2. CASE HandlerRuns
  <2>1. Head(ready) \in Task /\ Tail(ready) \in Seq(Task)
    BY <1>0, <1>2 DEF HandlerRuns
  <2>2. Head(ready).of \in Peer
    BY <1>2, <2>1 DEF HandlerRuns, Task
  <2>3. ASSUME Head(ready).kind \in Nick, Announced(Head(ready).of, Head(ready).kind)
        PROVE  EntriesOK'
    BY <1>0, <2>2, <2>3 DEF Announced, EntriesOK, Keyed
  <2> QED
    BY <1>0, <1>2, <2>1, <2>2, <2>3, RemovePeerTypes DEF HandlerRuns
<1>3. CASE TableReadDone
  <2>1. Head(ready) \in Task /\ Tail(ready) \in Seq(Task)
    BY <1>0, <1>3 DEF TableReadDone
  <2>2. Head(ready).of \in Conn
    BY <1>3, <2>1 DEF TableReadDone, Task
  <2> QED
    BY <1>0, <1>3, <2>1, <2>2, DisconnectedTypes DEF TableReadDone
<1>4. ASSUME NEW c \in Conn, TableReadLoopEnds(c)
      PROVE  EntriesOK' /\ ready' \in Seq(Task)
  <2>1. [kind |-> "readDone", of |-> c] \in Task
    BY DEF Task
  <2> QED
    BY <1>0, <1>4, <2>1 DEF TableReadLoopEnds, EntriesOK, Keyed
<1>5. ASSUME NEW c \in Conn, TableDrop(c)
      PROVE  EntriesOK' /\ ready' \in Seq(Task)
  BY <1>0, <1>5, DisconnectedTypes DEF TableDrop
<1>6. ASSUME NEW c \in Conn, NEW p \in Peer,
             NEW kind \in Nick \cup {"leave", "other"}, PacketReceived(c, p, kind)
      PROVE  EntriesOK' /\ ready' \in Seq(Task)
  <2>1. AddrOf[c] \in Addr
    BY TransportAssumption
  <2>2. EntriesOK'
    <3> DEFINE t == Located(p, AddrOf[c])
    <3>1. t \in Seq(Peer \X Addr) /\ Keyed(t)
      BY <1>0, <2>1, LocatedFacts DEF EntriesOK
    <3>2. peerAddresses' = t /\ UNCHANGED <<peers, shown>>
      BY <1>6 DEF PacketReceived
    <3> HIDE DEF t
    <3> QED
      BY <1>0, <3>1, <3>2 DEF EntriesOK, Keyed
  <2>3. kind # "other" => [kind |-> kind, of |-> p] \in Task
    BY DEF Task
  <2>4. ready' \in Seq(Task)
    BY <1>0, <1>6, <2>3 DEF PacketReceived
  <2> QED
    BY <2>2, <2>4
<1> QED
  BY <1>1, <1>2, <1>3, <1>4, <1>5, <1>6 DEF PeerNext

(* Table and transport together: the invariant of the transport carries    *)
(* over because every step of the table is one of the transport or leaves  *)
(* it alone.                                                               *)
PeerInv == TransportInv /\ TableTypeOK

(* The invariant holds of every reachable state of the daemon's table.     *)
THEOREM PeerInvariant == PeerSpec => []PeerInv
<1>1. PeerInit => PeerInv
  <2>1. PeerInit => TransportInv
    BY TransportInitial DEF PeerInit
  <2>2. PeerInit => TableTypeOK
    BY DEF PeerInit, TableTypeOK, EntriesOK, Keyed
  <2> QED
    BY <2>1, <2>2 DEF PeerInv
<1>2. PeerInv /\ [PeerNext]_peerVars => PeerInv'
  <2> SUFFICES ASSUME PeerInv, [PeerNext]_peerVars PROVE PeerInv'
    OBVIOUS
  <2>1. CASE UNCHANGED peerVars
    <3>1. UNCHANGED transportVars
      BY <2>1 DEF peerVars, transportVars
    <3>2. TableTypeOK'
      BY <2>1 DEF peerVars, PeerInv, TableTypeOK, EntriesOK, Keyed
    <3> QED
      BY <3>1, <3>2, TransportPreserved DEF PeerInv
  <2>2. CASE PeerNext
    <3>1. TransportTypeOK /\ TableTypeOK /\ PeerTypeOK
      BY PeerTypes DEF PeerInv, TransportInv
    <3>2. TransportInv'
      BY <2>2, <3>1, TransportStepTaken, TransportPreserved DEF PeerInv
    <3> QED
      BY <2>2, <3>1, <3>2, TableTypeStep DEF PeerInv
  <2> QED
    BY <2>1, <2>2
<1> QED
  BY <1>1, <1>2, PTL DEF PeerSpec

(* PeerTypeOK: among others, peer_addresses keeps one address for an id.   *)
THEOREM PeerTypeCorrect == PeerSpec => []PeerTypeOK
<1>1. PeerInv => PeerTypeOK
  BY PeerTypes DEF PeerInv, TransportInv
<1> QED
  BY <1>1, PeerInvariant, PTL

(* The daemon's callbacks do not interfere with the transport: what is     *)
(* proved of Transport holds under PeerTable.                              *)
THEOREM PeerTableRunsTransport == PeerSpec => TransportSpec
<1>1. PeerInit => TransportInit
  BY DEF PeerInit
<1>2. PeerInv /\ [PeerNext]_peerVars => [TransportNext]_transportVars
  <2>1. PeerInv => PeerTypeOK
    BY PeerTypes DEF PeerInv, TransportInv
  <2>2. UNCHANGED peerVars => UNCHANGED transportVars
    BY DEF peerVars, transportVars
  <2> QED
    BY <2>1, <2>2, TransportStepTaken
<1> QED
  BY <1>1, <1>2, PeerInvariant, PTL DEF PeerSpec, TransportSpec

----------------------------------------------------------------------------
(* The subscriber's view.  An announcement is told when it makes an entry, *)
(* a removal when it takes one away that has a nickname.                   *)
LEMMA ViewRemove ==
    ASSUME EntriesOK, ViewExact, "nameless" \notin Nick, NEW p \in Peer, RemovePeer(p)
    PROVE  ViewExact'
BY DEF EntriesOK, ViewExact, RemovePeer, Present

LEMMA ViewDisconnect ==
    ASSUME EntriesOK, ViewExact, "nameless" \notin Nick, NEW c \in Conn,
           OnPeerDisconnected(c)
    PROVE  ViewExact'
<1>1. CASE UNCHANGED <<peers, peerAddresses, shown>>
  BY <1>1 DEF ViewExact, Present
<1>2. ASSUME NEW i \in DOMAIN peerAddresses, RemovePeer(peerAddresses[i][1])
      PROVE  ViewExact'
  <2>1. peerAddresses[i][1] \in Peer
    BY DEF EntriesOK
  <2> QED
    BY <1>2, <2>1, ViewRemove
<1> QED
  BY <1>1, <1>2 DEF OnPeerDisconnected

LEMMA ViewStep ==
    ASSUME PeerInv, ViewExact, "nameless" \notin Nick, PeerNext
    PROVE  ViewExact'
<1> USE PeerTableAssumption
<1>0. EntriesOK /\ ready \in Seq(Task)
  BY DEF PeerInv, TableTypeOK
<1>1. CASE TransportOnly
  BY <1>1 DEF TransportOnly, tableVars, ViewExact, Present
<1>2. CASE HandlerRuns
  <2>1. Head(ready) \in Task
    BY <1>0, <1>2 DEF HandlerRuns
  <2>2. Head(ready).of \in Peer
    BY <1>2, <2>1 DEF HandlerRuns, Task
  <2>3. ASSUME Head(ready).kind \in Nick, Announced(Head(ready).of, Head(ready).kind)
        PROVE  ViewExact'
    <3>1. Head(ready).kind # "absent"
      BY <2>3
    <3> QED
      BY <1>0, <2>2, <2>3, <3>1 DEF Announced, EntriesOK, ViewExact, Present
  <2> QED
    BY <1>0, <1>2, <2>2, <2>3, ViewRemove DEF HandlerRuns
<1>3. CASE TableReadDone
  <2>1. Head(ready) \in Task
    BY <1>0, <1>3 DEF TableReadDone
  <2>2. Head(ready).of \in Conn
    BY <1>3, <2>1 DEF TableReadDone, Task
  <2> QED
    BY <1>0, <1>3, <2>2, ViewDisconnect DEF TableReadDone
<1>4. ASSUME NEW c \in Conn, TableReadLoopEnds(c)
      PROVE  ViewExact'
  BY <1>4 DEF TableReadLoopEnds, ViewExact, Present
<1>5. ASSUME NEW c \in Conn, TableDrop(c)
      PROVE  ViewExact'
  BY <1>0, <1>5, ViewDisconnect DEF TableDrop
<1>6. ASSUME NEW c \in Conn, NEW p \in Peer,
             NEW kind \in Nick \cup {"leave", "other"}, PacketReceived(c, p, kind)
      PROVE  ViewExact'
  BY <1>6 DEF PacketReceived, ViewExact, Present
<1> QED
  BY <1>1, <1>2, <1>3, <1>4, <1>5, <1>6 DEF PeerNext

(* ViewExact: when every peer has a nickname, the joined and left events   *)
(* add up to the peer table, however many connections come and go and      *)
(* whatever is relayed (mesh.py:288, 327, 572).                            *)
THEOREM ViewIsExact ==
    ASSUME "nameless" \notin Nick
    PROVE  PeerSpec => []ViewExact
<1>1. PeerInit => ViewExact
  BY DEF PeerInit, ViewExact, Present
<1>2. PeerInv /\ ViewExact /\ [PeerNext]_peerVars => ViewExact'
  <2>1. ViewExact /\ UNCHANGED peerVars => ViewExact'
    BY DEF peerVars, ViewExact, Present
  <2> QED
    BY <2>1, ViewStep
<1> QED
  BY <1>1, <1>2, PeerInvariant, PTL DEF PeerSpec

(* Peers without a nickname are told of when they join and not when they   *)
(* leave, so that a view may have too many peers but never too few.        *)
NoneMissing == Present \subseteq shown

LEMMA MissingRemove ==
    ASSUME EntriesOK, NoneMissing, NEW p \in Peer, RemovePeer(p)
    PROVE  NoneMissing'
BY DEF EntriesOK, NoneMissing, RemovePeer, Present

LEMMA MissingDisconnect ==
    ASSUME EntriesOK, NoneMissing, NEW c \in Conn,
           OnPeerDisconnected(c)
    PROVE  NoneMissing'
<1>1. CASE UNCHANGED <<peers, peerAddresses, shown>>
  BY <1>1 DEF NoneMissing, Present
<1>2. ASSUME NEW i \in DOMAIN peerAddresses, RemovePeer(peerAddresses[i][1])
      PROVE  NoneMissing'
  <2>1. peerAddresses[i][1] \in Peer
    BY DEF EntriesOK
  <2> QED
    BY <1>2, <2>1, MissingRemove
<1> QED
  BY <1>1, <1>2 DEF OnPeerDisconnected

LEMMA MissingStep ==
    ASSUME PeerInv, NoneMissing, PeerNext
    PROVE  NoneMissing'
<1> USE PeerTableAssumption
<1>0. EntriesOK /\ ready \in Seq(Task)
  BY DEF PeerInv, TableTypeOK
<1>1. CASE TransportOnly
  BY <1>1 DEF TransportOnly, tableVars, NoneMissing, Present
<1>2. CASE HandlerRuns
  <2>1. Head(ready) \in Task
    BY <1>0, <1>2 DEF HandlerRuns
  <2>2. Head(ready).of \in Peer
    BY <1>2, <2>1 DEF HandlerRuns, Task
  <2>3. ASSUME Head(ready).kind \in Nick, Announced(Head(ready).of, Head(ready).kind)
        PROVE  NoneMissing'
    <3>1. Head(ready).kind # "absent"
      BY <2>3
    <3> QED
      BY <1>0, <2>2, <2>3, <3>1 DEF Announced, EntriesOK, NoneMissing, Present
  <2> QED
    BY <1>0, <1>2, <2>2, <2>3, MissingRemove DEF HandlerRuns
<1>3. CASE TableReadDone
  <2>1. Head(ready) \in Task
    BY <1>0, <1>3 DEF TableReadDone
  <2>2. Head(ready).of \in Conn
    BY <1>3, <2>1 DEF TableReadDone, Task
  <2> QED
    BY <1>0, <1>3, <2>2, MissingDisconnect DEF TableReadDone
<1>4. ASSUME NEW c \in Conn, TableReadLoopEnds(c)
      PROVE  NoneMissing'
  BY <1>4 DEF TableReadLoopEnds, NoneMissing, Present
<1>5. ASSUME NEW c \in Conn, TableDrop(c)
      PROVE  NoneMissing'
  BY <1>0, <1>5, MissingDisconnect DEF TableDrop
<1>6. ASSUME NEW c \in Conn, NEW p \in Peer,
             NEW kind \in Nick \cup {"leave", "other"}, PacketReceived(c, p, kind)
      PROVE  NoneMissing'
  BY <1>6 DEF PacketReceived, NoneMissing, Present
<1> QED
  BY <1>1, <1>2, <1>3, <1>4, <1>5, <1>6 DEF PeerNext

(* Whatever nicknames there are, the empty one too, every peer in the      *)
(* table is in the view of a subscriber who follows the events: only a     *)
(* departure can go untold (mesh.py:288, 327, 572).                        *)
THEOREM NoPeerIsMissing == PeerSpec => []NoneMissing
<1>1. PeerInit => NoneMissing
  BY DEF PeerInit, NoneMissing, Present
<1>2. PeerInv /\ NoneMissing /\ [PeerNext]_peerVars => NoneMissing'
  <2>1. NoneMissing /\ UNCHANGED peerVars => NoneMissing'
    BY DEF peerVars, NoneMissing, Present
  <2> QED
    BY <2>1, MissingStep
<1> QED
  BY <1>1, <1>2, PeerInvariant, PTL DEF PeerSpec

----------------------------------------------------------------------------
(* Routes.  A route's id was heard over its address since the address last *)
(* had no route.  While nothing is read at the address, another id was     *)
(* heard over it too: the end of a connection removes one route, which     *)
(* leaves only routes of other ids.                                        *)
Routed ==
    \A i \in DOMAIN peerAddresses :
      LET p == peerAddresses[i][1]
          a == peerAddresses[i][2]
      IN  /\ p \in heard[a]
          /\ \/ \E c \in Conn : AddrOf[c] = a /\ phase[c] \in {"open", "ended"}
             \/ heard[a] # {p}

(* The address of a route is recalled.                                     *)
LEMMA RouteRecalled ==
    ASSUME NEW STATE now, Recalls(now), EntriesOK', NEW i \in DOMAIN peerAddresses'
    PROVE  /\ peerAddresses'[i][2] \in Addr
           /\ heard'[peerAddresses'[i][2]] = now[peerAddresses'[i][2]]
<1>1. peerAddresses'[i][2] \in Addr
  BY DEF EntriesOK
<1>2. \A a \in Addr : a = peerAddresses'[i][2] => heard'[a] = now[a]
  BY DEF Recalls, RouteAt
<1> QED
  BY <1>1, <1>2

(* A route that was there before, while no connection stops being read.    *)
LEMMA RoutesStay ==
    ASSUME Routed, EntriesOK, EntriesOK', Recalls(heard) \/ UNCHANGED heard,
           \A i \in DOMAIN peerAddresses' :
             \E j \in DOMAIN peerAddresses : peerAddresses'[i] = peerAddresses[j],
           \A c \in Conn : phase[c] \in {"open", "ended"}
                             => phase'[c] \in {"open", "ended"}
    PROVE  Routed'
<1> SUFFICES ASSUME NEW i \in DOMAIN peerAddresses'
             PROVE  LET p == peerAddresses'[i][1]
                        a == peerAddresses'[i][2]
                    IN  /\ p \in heard'[a]
                        /\ \/ \E c \in Conn : /\ AddrOf[c] = a
                                              /\ phase'[c] \in {"open", "ended"}
                           \/ heard'[a] # {p}
  BY DEF Routed
<1>1. heard'[peerAddresses'[i][2]] = heard[peerAddresses'[i][2]]
  BY RouteRecalled
<1> QED
  BY <1>1 DEF Routed

LEMMA RemovedRoutes ==
    ASSUME EntriesOK, NEW p \in Peer, RemovePeer(p)
    PROVE  \A i \in DOMAIN peerAddresses' :
             /\ peerAddresses'[i][1] # p
             /\ \E j \in DOMAIN peerAddresses : peerAddresses'[i] = peerAddresses[j]
BY UnlocatedFacts DEF RemovePeer, EntriesOK

(* The end of c: a route that is left at its address is not the only one   *)
(* there was.                                                              *)
LEMMA DisconnectedRoutes ==
    ASSUME EntriesOK, Routed, NEW c \in Conn, OnPeerDisconnected(c)
    PROVE  \A i \in DOMAIN peerAddresses' :
             \E j \in DOMAIN peerAddresses :
               /\ peerAddresses'[i] = peerAddresses[j]
               /\ peerAddresses[j][2] = AddrOf[c]
                    => heard[AddrOf[c]] # {peerAddresses[j][1]}
<1> DEFINE at == {i \in DOMAIN peerAddresses : peerAddresses[i][2] = AddrOf[c]}
<1>1. CASE at = {} /\ UNCHANGED <<peers, peerAddresses, shown>>
  BY <1>1
<1>2. ASSUME NEW k \in at, RemovePeer(peerAddresses[k][1])
      PROVE  \A i \in DOMAIN peerAddresses' :
               \E j \in DOMAIN peerAddresses :
                 /\ peerAddresses'[i] = peerAddresses[j]
                 /\ peerAddresses[j][2] = AddrOf[c]
                      => heard[AddrOf[c]] # {peerAddresses[j][1]}
  <2>1. peerAddresses[k][1] \in Peer /\ peerAddresses[k][1] \in heard[AddrOf[c]]
    BY DEF EntriesOK, Routed
  <2> TAKE i \in DOMAIN peerAddresses'
  <2>2. PICK j \in DOMAIN peerAddresses :
          /\ peerAddresses'[i] = peerAddresses[j]
          /\ peerAddresses'[i][1] # peerAddresses[k][1]
    BY <1>2, <2>1, RemovedRoutes
  <2> QED
    BY <2>1, <2>2
<1> QED
  BY <1>1, <1>2 DEF OnPeerDisconnected

LEMMA RouteStep ==
    ASSUME PeerInv, PeerInv', Routed, PeerNext
    PROVE  Routed'
<1> USE PeerTableAssumption
<1>0. /\ EntriesOK /\ EntriesOK' /\ ready \in Seq(Task)
      /\ phase \in [Conn -> Phase] /\ heard \in [Addr -> SUBSET Peer]
  BY DEF PeerInv, TableTypeOK, TransportInv, TransportTypeOK
<1>1. CASE TransportOnly
  <2>1. UNCHANGED peerAddresses /\ UNCHANGED heard
    BY <1>1 DEF TransportOnly, tableVars
  <2>2. \A c \in Conn : phase[c] \in {"open", "ended"}
                          => phase'[c] \in {"open", "ended"}
    BY <1>0, <1>1 DEF TransportOnly, StartServer, Stop, BroadcastPacket, Accepted,
         Connect, ConnectSucceeds, ConnectFails, RemoteCloses, BroadcastSend, Filed,
         DisconnectUnknown
  <2> QED
    BY <1>0, <2>1, <2>2, RoutesStay
<1>2. CASE HandlerRuns
  <2>1. Head(ready) \in Task
    BY <1>0, <1>2 DEF HandlerRuns
  <2>2. Head(ready).of \in Peer
    BY <1>2, <2>1 DEF HandlerRuns, Task
  <2>3. UNCHANGED phase /\ Recalls(heard)
    BY <1>2 DEF HandlerRuns, transportVars
  <2>4. \A i \in DOMAIN peerAddresses' :
          \E j \in DOMAIN peerAddresses : peerAddresses'[i] = peerAddresses[j]
    BY <1>0, <1>2, <2>2, RemovedRoutes DEF HandlerRuns, Announced
  <2> QED
    BY <1>0, <2>3, <2>4, RoutesStay
<1>3. ASSUME NEW c \in Conn, OnPeerDisconnected(c), Recalls(heard),
             \/ UNCHANGED phase
             \/ phase' = [phase EXCEPT ![c] = "gone"]
      PROVE  Routed'
  <2>1. \A d \in Conn : AddrOf[d] # AddrOf[c] => phase'[d] = phase[d]
    BY <1>0, <1>3
  <2>2. \A i \in DOMAIN peerAddresses' :
          heard'[peerAddresses'[i][2]] = heard[peerAddresses'[i][2]]
    BY <1>0, <1>3, RouteRecalled
  <2> QED
    BY <1>0, <1>3, <2>1, <2>2, DisconnectedRoutes DEF Routed
<1>4. CASE TableReadDone
  <2>1. Head(ready) \in Task
    BY <1>0, <1>4 DEF TableReadDone
  <2>2. Head(ready).of \in Conn
    BY <1>4, <2>1 DEF TableReadDone, Task
  <2> QED
    BY <1>3, <1>4, <2>2 DEF TableReadDone, OnReadDone
<1>5. ASSUME NEW c \in Conn, TableReadLoopEnds(c)
      PROVE  Routed'
  <2>1. \A d \in Conn : phase[d] \in {"open", "ended"}
                          => phase'[d] \in {"open", "ended"}
    BY <1>0, <1>5 DEF TableReadLoopEnds, ReadLoopEnds
  <2>2. UNCHANGED peerAddresses /\ UNCHANGED heard
    BY <1>5 DEF TableReadLoopEnds
  <2> QED
    BY <1>0, <2>1, <2>2, RoutesStay
<1>6. ASSUME NEW c \in Conn, TableDrop(c)
      PROVE  Routed'
  BY <1>3, <1>6 DEF TableDrop, ClientEnds, SendFails, BroadcastSendFails, Disconnect
<1>7. ASSUME NEW c \in Conn, NEW p \in Peer,
             NEW kind \in Nick \cup {"leave", "other"}, PacketReceived(c, p, kind)
      PROVE  Routed'
  <2> DEFINE now == [heard EXCEPT ![AddrOf[c]] = heard[AddrOf[c]] \cup {p}]
  <2>1. phase[c] = "open" /\ UNCHANGED phase /\ Recalls(now)
        /\ peerAddresses' = Located(p, AddrOf[c])
    BY <1>7 DEF PacketReceived, transportVars
  <2>2. AddrOf[c] \in Addr
    BY TransportAssumption
  <2>3. \A i \in DOMAIN peerAddresses' :
          \/ peerAddresses'[i] = <<p, AddrOf[c]>>
          \/ \E j \in DOMAIN peerAddresses : peerAddresses'[i] = peerAddresses[j]
    <3>1. peerAddresses \in Seq(Peer \X Addr) /\ Keyed(peerAddresses)
      BY <1>0 DEF EntriesOK
    <3> DEFINE t == Located(p, AddrOf[c])
    <3>2. \A i \in DOMAIN t :
            \/ t[i] = <<p, AddrOf[c]>>
            \/ \E j \in DOMAIN peerAddresses : t[i] = peerAddresses[j]
      BY <2>2, <3>1, LocatedFacts
    <3>3. peerAddresses' = t
      BY <2>1
    <3> HIDE DEF t
    <3> QED
      BY <3>2, <3>3
  <2>4. <<p, AddrOf[c]>>[1] = p /\ <<p, AddrOf[c]>>[2] = AddrOf[c]
    OBVIOUS
  <2>5. p \in now[AddrOf[c]] /\ \A a \in Addr : heard[a] \subseteq now[a]
    BY <1>0, <2>2
  <2> HIDE DEF now
  <2>6. \A i \in DOMAIN peerAddresses' :
          /\ peerAddresses'[i][2] \in Addr
          /\ heard'[peerAddresses'[i][2]] = now[peerAddresses'[i][2]]
    BY <1>0, <2>1, RouteRecalled
  <2> SUFFICES ASSUME NEW i \in DOMAIN peerAddresses'
               PROVE  LET q == peerAddresses'[i][1]
                          a == peerAddresses'[i][2]
                      IN  /\ q \in heard'[a]
                          /\ \/ \E d \in Conn : /\ AddrOf[d] = a
                                                /\ phase'[d] \in {"open", "ended"}
                             \/ heard'[a] # {q}
    BY DEF Routed
  <2>7. CASE peerAddresses'[i] = <<p, AddrOf[c]>>
    BY <2>1, <2>4, <2>5, <2>6, <2>7
  <2>8. ASSUME NEW j \in DOMAIN peerAddresses, peerAddresses'[i] = peerAddresses[j]
        PROVE  LET q == peerAddresses'[i][1]
                   a == peerAddresses'[i][2]
               IN  /\ q \in heard'[a]
                   /\ \/ \E d \in Conn : /\ AddrOf[d] = a
                                         /\ phase'[d] \in {"open", "ended"}
                      \/ heard'[a] # {q}
    BY <2>1, <2>5, <2>6, <2>8 DEF Routed
  <2> QED
    BY <2>3, <2>7, <2>8
<1> QED
  BY <1>1, <1>2, <1>4, <1>5, <1>6, <1>7 DEF PeerNext

(* RouteInSight: a route has a connection somebody reads, unless two ids   *)
(* were heard over its address (mesh.py:159-169, 197), for any number of   *)
(* connections, whatever is relayed and whoever is behind an address.      *)
THEOREM RoutesInSight == PeerSpec => []RouteInSight
<1>1. PeerInit => Routed
  BY DEF PeerInit, Routed
<1>2. PeerInv /\ PeerInv' /\ Routed /\ [PeerNext]_peerVars => Routed'
  <2>1. Routed /\ UNCHANGED peerVars => Routed'
    BY DEF peerVars, Routed
  <2> QED
    BY <2>1, RouteStep
<1>3. Routed => RouteInSight
  BY DEF Routed, RouteInSight
<1> QED
  BY <1>1, <1>2, <1>3, PeerInvariant, PTL DEF PeerSpec
=============================================================================
