------------------------ MODULE ClientChannelsProofs ------------------------
(* Machine-checked facts about ClientChannels for any number of clients,   *)
(* channels, passwords, runs and packets: an owner is ready, nothing that  *)
(* a password protects is sent in plain, and saved passwords stay.         *)
EXTENDS ClientChannels, TLAPS

USE ClientChannelsAssumption

Place == {"off", "connecting", "greeting", "merged", "prompt", "notify", "announce",
          "init"}
Starting == {"connecting", "greeting", "merged"}
Marks == [Channel -> {"no", "yes", "reopened"}]

(* The peer ids that clients have had so far                               *)
Known == {id \in PeerId : id[2] <= runs[id[1]]}

(* A packet comes from an id that was in use, and every announcement says  *)
(* that its channel is protected.                                          *)
PacketsOK ==
    /\ packets \subseteq Packet
    /\ \A p \in packets : p.from \in Known /\ (p.kind = "announce" => p.protected)

(* What holds of client n when it stands at a with the memory m, the file  *)
(* f and the marks S on the channels whose password it has set or given in *)
(* this run. Only /pass makes a client own a channel: neither memory nor   *)
(* file can hold the id of this run before handshake() is over. What a     *)
(* client has secured it has the key of, and once the state is loaded no   *)
(* password is only in the file.                                           *)
ClientOK(n, a, m, f, S) ==
    /\ a # "off" => runs[n] > 0
    /\ m.mode \in m.active \cup {None}
    /\ \A c \in Channel : /\ m.creators[c] \in Known \cup {None}
                          /\ f.creators[c] \in Known \cup {None}
    /\ a \in Starting \cup {"off"} => S = Unsecured
    /\ a \in Starting => \A c \in Channel : /\ m.creators[c] # my_peer_id(n)
                                           /\ f.creators[c] # my_peer_id(n)
    /\ a # "off" => \A c \in Channel :
         /\ m.creators[c] = my_peer_id(n) =>
              /\ c \in m.protected
              /\ m.keys[c] # None
              /\ m.commitments[c] = m.keys[c]
              /\ m.passwords[c] = m.keys[c]
         /\ S[c] = "yes" => m.keys[c] # None
         /\ a # "connecting" /\ f.passwords[c] # None => m.passwords[c] # None

ChannelInv ==
    /\ ClientChannelsTypeOK
    /\ PacketsOK
    /\ \A n \in Client : ClientOK(n, at[n], mem[n], file[n], secured[n])
    /\ leaked \subseteq {"reopened"}

----------------------------------------------------------------------------
(* Types                                                                   *)

LEMMA StartTypes ==
    /\ NewAppState \in AppState
    /\ NewClient \in ClientState
    /\ Unsecured \in Marks /\ \A c \in Channel : Unsecured[c] = "no"
BY DEF NewAppState, NewClient, Nothing, AppState, ClientState, Unsecured, Marks

LEMMA SavedType ==
    ASSUME NEW m \in ClientState
    PROVE  /\ Saved(m) \in AppState
           /\ Saved(m).creators = m.creators /\ Saved(m).passwords = m.passwords
BY DEF Saved, AppState, ClientState

LEMMA NoneApart ==
    None \notin Password /\ None \notin Channel /\ None \notin PeerId
BY DEF PeerId

(* The id of a client that runs is known.                                  *)
LEMMA MyId ==
    ASSUME ClientChannelsTypeOK, NEW n \in Client, at[n] # "off"
    PROVE  my_peer_id(n) \in Known /\ my_peer_id(n) \in PeerId
BY DEF ClientChannelsTypeOK, my_peer_id, Known, PeerId

----------------------------------------------------------------------------
(* A step of one client                                                    *)

(* Nothing but client n has changed.                                       *)
Alone(n) ==
    /\ runs' = runs /\ leaked' \subseteq {"reopened"}
    /\ at' \in [Client -> Place]
    /\ mem' \in [Client -> ClientState] /\ file' \in [Client -> AppState]
    /\ job' \in [Client -> Job \cup {NoJob}] /\ secured' \in [Client -> Marks]
    /\ \A k \in Client \ {n} :
         /\ at'[k] = at[k] /\ mem'[k] = mem[k] /\ file'[k] = file[k]
         /\ secured'[k] = secured[k] /\ job'[k] = job[k]
    /\ at'[n] \in {"notify", "announce", "init"} => job'[n] \in Job
    /\ at'[n] = "notify" => job'[n].old # None

LEMMA StepOfOne ==
    ASSUME ChannelInv, NEW n \in Client, Alone(n), PacketsOK',
           ClientOK(n, at'[n], mem'[n], file'[n], secured'[n])
    PROVE  ChannelInv'
<1>1. \A k \in Client : ClientOK(k, at[k], mem[k], file[k], secured[k])
  BY DEF ChannelInv
<1>2. ASSUME NEW k \in Client
      PROVE  ClientOK(k, at[k], mem[k], file[k], secured[k])'
  <2>1. ClientOK(k, at'[k], mem'[k], file'[k], secured'[k])
    BY <1>1 DEF Alone
  <2> QED
    BY <2>1 DEF ClientOK, Known, my_peer_id, Alone
<1>3. ClientChannelsTypeOK'
  <2>1. runs' \in [Client -> 0..MaxRuns] /\ packets' \subseteq Packet
    BY DEF ChannelInv, ClientChannelsTypeOK, PacketsOK, Alone
  <2>2. ASSUME NEW k \in Client
        PROVE  /\ at'[k] # "off" => runs'[k] > 0
               /\ at'[k] \in {"notify", "announce", "init"} => job'[k] \in Job
               /\ at'[k] = "notify" => job'[k].old # None
               /\ mem'[k].mode \in mem'[k].active \cup {None}
    BY <1>2 DEF ChannelInv, ClientChannelsTypeOK, ClientOK, Alone, Place, Marks
  <2> QED
    BY <2>1, <2>2 DEF ClientChannelsTypeOK, Alone, Place, Marks
<1> QED
  BY <1>2, <1>3 DEF ChannelInv, Alone

LEMMA OneClient ==
    ASSUME ChannelInv, NEW n \in Client,
           NEW a \in Place,
           NEW m \in ClientState, NEW f \in AppState,
           NEW S \in Marks, NEW j \in Job \cup {NoJob},
           at' = [at EXCEPT ![n] = a], mem' = [mem EXCEPT ![n] = m],
           file' = [file EXCEPT ![n] = f], secured' = [secured EXCEPT ![n] = S],
           job' = [job EXCEPT ![n] = j], runs' = runs, leaked' \subseteq {"reopened"},
           a \in {"notify", "announce", "init"} => j \in Job,
           a = "notify" => j.old # None,
           PacketsOK', ClientOK(n, a, m, f, S)
    PROVE  ChannelInv'
<1>1. ClientChannelsTypeOK
  BY DEF ChannelInv
<1>2. at'[n] = a /\ mem'[n] = m /\ file'[n] = f /\ secured'[n] = S /\ job'[n] = j
  BY <1>1 DEF ClientChannelsTypeOK
<1>3. Alone(n)
  BY <1>1, <1>2 DEF ClientChannelsTypeOK, Alone, Place, Marks
<1> QED
  BY <1>2, <1>3, StepOfOne

(* The common case: only the memory changes, the client stays where it is. *)
LEMMA OnlyMemory ==
    ASSUME ChannelInv, NEW n \in Client, NEW m \in ClientState,
           mem' = [mem EXCEPT ![n] = m],
           UNCHANGED <<at, runs, file, job, secured, leaked>>,
           PacketsOK', ClientOK(n, at[n], m, file[n], secured[n])
    PROVE  ChannelInv'
<1>1. ClientChannelsTypeOK /\ leaked \subseteq {"reopened"}
  BY DEF ChannelInv
<1>2. mem'[n] = m
  BY <1>1 DEF ClientChannelsTypeOK
<1>3. Alone(n)
  BY <1>1, <1>2 DEF ClientChannelsTypeOK, Alone, Place, Marks
<1> QED
  BY <1>2, <1>3, StepOfOne

(* The memory and the file change, and what the run has secured.           *)
LEMMA MemoryAndFile ==
    ASSUME ChannelInv, NEW n \in Client, NEW m \in ClientState, NEW f \in AppState,
           NEW S \in Marks,
           mem' = [mem EXCEPT ![n] = m], file' = [file EXCEPT ![n] = f],
           secured' = [secured EXCEPT ![n] = S],
           UNCHANGED <<at, runs, job, leaked>>,
           PacketsOK', ClientOK(n, at[n], m, f, S)
    PROVE  ChannelInv'
<1>1. ClientChannelsTypeOK /\ leaked \subseteq {"reopened"}
  BY DEF ChannelInv
<1>2. mem'[n] = m /\ file'[n] = f /\ secured'[n] = S
  BY <1>1 DEF ClientChannelsTypeOK
<1>3. Alone(n)
  BY <1>1, <1>2 DEF ClientChannelsTypeOK, Alone, Place, Marks
<1> QED
  BY <1>2, <1>3, StepOfOne

(* Only the position in /pass and its local variables change.              *)
LEMMA OnlyPosition ==
    ASSUME ChannelInv, NEW n \in Client,
           NEW a \in {"prompt", "notify", "announce", "init"}, NEW j \in Job \cup {NoJob},
           at[n] \in {"prompt", "notify", "announce", "init"},
           at' = [at EXCEPT ![n] = a], job' = [job EXCEPT ![n] = j],
           UNCHANGED <<mem, runs, file, secured, leaked>>,
           a \in {"notify", "announce", "init"} => j \in Job,
           a # "notify", PacketsOK'
    PROVE  ChannelInv'
<1>1. ClientChannelsTypeOK /\ leaked \subseteq {"reopened"}
  BY DEF ChannelInv
<1>2. at'[n] = a /\ job'[n] = j
  BY <1>1 DEF ClientChannelsTypeOK
<1>3. Alone(n)
  BY <1>1, <1>2 DEF ClientChannelsTypeOK, Alone, Place, Marks
<1>4. ClientOK(n, at[n], mem[n], file[n], secured[n])
  BY DEF ChannelInv
<1>5. ClientOK(n, a, mem[n], file[n], secured[n])
  BY <1>4 DEF ClientOK, Starting
<1> QED
  BY <1>2, <1>3, <1>5, StepOfOne

LEMMA SamePackets ==
    ASSUME ChannelInv, UNCHANGED <<runs, packets>>
    PROVE  PacketsOK'
BY DEF ChannelInv, PacketsOK, Known

LEMMA SentPacket ==
    ASSUME ChannelInv, NEW p \in Packet, p.from \in Known,
           p.kind = "announce" => p.protected, Send(p), UNCHANGED runs
    PROVE  PacketsOK'
BY DEF ChannelInv, PacketsOK, Known, Send

(* What a step of client n starts from                                     *)
LEMMA Before ==
    ASSUME ChannelInv, NEW n \in Client
    PROVE  /\ ClientChannelsTypeOK /\ leaked \subseteq {"reopened"}
           /\ mem[n] \in ClientState /\ file[n] \in AppState
           /\ secured[n] \in Marks
           /\ secured = [secured EXCEPT ![n] = secured[n]]
           /\ ClientOK(n, at[n], mem[n], file[n], secured[n])
BY DEF ChannelInv, ClientChannelsTypeOK, Marks

----------------------------------------------------------------------------
(* Starting and stopping                                                   *)

LEMMA StartStep ==
    ASSUME ChannelInv, NEW n \in Client, Start(n)
    PROVE  ChannelInv'
<1>1. ClientChannelsTypeOK /\ PacketsOK /\ leaked \subseteq {"reopened"}
  BY DEF ChannelInv
<1>2. /\ runs' = [runs EXCEPT ![n] = runs[n] + 1] /\ runs[n] < MaxRuns
      /\ runs \in [Client -> 0..MaxRuns] /\ runs[n] \in Nat
  BY <1>1 DEF Start, ClientChannelsTypeOK
<1>3. runs' \in [Client -> 0..MaxRuns]
  BY <1>2
<1>4. Known \subseteq Known'
  BY <1>2 DEF Known, PeerId
<1>5. my_peer_id(n)' \notin Known \cup {None}
  <2>1. my_peer_id(n)' = <<n, runs[n] + 1>>
    BY <1>2 DEF my_peer_id
  <2>2. <<n, runs[n] + 1>> \notin Known
    BY <1>2 DEF Known
  <2>3. <<n, runs[n] + 1>> \in PeerId
    BY <1>2 DEF PeerId
  <2> QED
    BY <2>1, <2>2, <2>3, NoneApart
<1>6. /\ at' = [at EXCEPT ![n] = "connecting"]
      /\ UNCHANGED <<mem, file, job, packets, secured, leaked>> /\ at[n] = "off"
  BY DEF Start
<1>7. ClientChannelsTypeOK'
  BY <1>1, <1>2, <1>3, <1>6 DEF ClientChannelsTypeOK
<1>8. PacketsOK'
  BY <1>1, <1>4, <1>6 DEF PacketsOK
<1>9. ClientOK(n, "off", mem[n], file[n], secured[n])
  BY <1>6 DEF ChannelInv
<1>10. ClientOK(n, at[n], mem[n], file[n], secured[n])'
  <2>1. at'[n] = "connecting" /\ runs'[n] > 0
    BY <1>1, <1>2, <1>6 DEF ClientChannelsTypeOK
  <2>2. secured[n] = Unsecured /\ \A c \in Channel : secured[n][c] = "no"
    BY <1>9, StartTypes DEF ClientOK
  <2>3. /\ mem[n].mode \in mem[n].active \cup {None}
        /\ \A c \in Channel : /\ mem[n].creators[c] \in Known \cup {None}
                              /\ file[n].creators[c] \in Known \cup {None}
    BY <1>9 DEF ClientOK
  <2>4. ClientOK(n, at[n], mem[n], file[n], secured[n])' <=>
          ClientOK(n, "connecting", mem[n], file[n], secured[n])'
    BY <2>1
  <2>5. Unsecured' = Unsecured
    BY DEF Unsecured
  <2> QED
    BY <1>4, <1>5, <1>6, <2>1, <2>2, <2>3, <2>5 DEF ClientOK
<1>11. ASSUME NEW k \in Client, k # n
       PROVE  ClientOK(k, at[k], mem[k], file[k], secured[k])'
  <2>1. at'[k] = at[k] /\ runs'[k] = runs[k]
    BY <1>1, <1>2, <1>6, <1>11 DEF ClientChannelsTypeOK
  <2>2. ClientOK(k, at[k], mem[k], file[k], secured[k])
    BY DEF ChannelInv
  <2> QED
    BY <1>4, <1>6, <2>1, <2>2 DEF ClientOK, my_peer_id, Unsecured
<1> QED
  BY <1>1, <1>6, <1>7, <1>8, <1>10, <1>11 DEF ChannelInv

LEMMA LoadStep ==
    ASSUME ChannelInv, NEW n \in Client, Load(n)
    PROVE  ChannelInv'
<1>1. /\ mem[n] \in ClientState /\ file[n] \in AppState /\ secured[n] \in Marks
      /\ ClientOK(n, at[n], mem[n], file[n], secured[n])
      /\ ClientChannelsTypeOK /\ leaked \subseteq {"reopened"}
  BY Before
<1> DEFINE m == [mem[n] EXCEPT !.passwords = file[n].passwords]
<1>2. /\ at[n] = "connecting" /\ at' = [at EXCEPT ![n] = "greeting"]
      /\ mem' = [mem EXCEPT ![n] = m]
      /\ UNCHANGED <<runs, file, job, packets, secured, leaked>>
  <2>1. mem' = [mem EXCEPT ![n].passwords = file[n].passwords]
    BY DEF Load
  <2>2. mem' = [mem EXCEPT ![n] = m]
    BY <2>1
  <2> QED
    BY <2>2 DEF Load
<1>3. /\ m \in ClientState /\ m.passwords = file[n].passwords
      /\ m.creators = mem[n].creators /\ m.protected = mem[n].protected
      /\ m.keys = mem[n].keys /\ m.commitments = mem[n].commitments
      /\ m.mode = mem[n].mode /\ m.active = mem[n].active
  BY <1>1 DEF ClientState, AppState
<1> HIDE DEF m
<1>4. ClientOK(n, "greeting", m, file[n], secured[n])
  BY <1>1, <1>2, <1>3 DEF ClientOK, Starting
<1>5. /\ at'[n] = "greeting" /\ mem'[n] = m
      /\ file'[n] = file[n] /\ secured'[n] = secured[n]
  BY <1>1, <1>2 DEF ClientChannelsTypeOK
<1>6. Alone(n)
  BY <1>1, <1>2, <1>3 DEF ClientChannelsTypeOK, Alone, Place, Marks
<1>7. PacketsOK'
  BY <1>2, SamePackets
<1> QED
  BY <1>4, <1>5, <1>6, <1>7, StepOfOne

LEMMA RestoreStep ==
    ASSUME ChannelInv, NEW n \in Client, Restore(n)
    PROVE  ChannelInv'
<1>1. ClientChannelsTypeOK /\ leaked \subseteq {"reopened"}
  BY DEF ChannelInv
<1>2. mem[n] \in ClientState /\ file[n] \in AppState /\ at[n] \in {"greeting", "merged"}
      /\ job[n] \in Job \cup {NoJob} /\ secured[n] \in Marks
  BY <1>1 DEF ClientChannelsTypeOK, Restore, Marks
<1>3. ClientOK(n, at[n], mem[n], file[n], secured[n])
  BY <1>2 DEF ChannelInv
<1> DEFINE app == IF at[n] = "greeting" THEN file[n] ELSE Saved(mem[n])
           K == [c \in Channel |-> IF mem[n].passwords[c] # None
                                   THEN mem[n].passwords[c] ELSE mem[n].keys[c]]
           m == [mem[n] EXCEPT !.creators = app.creators, !.protected = app.protected,
                               !.commitments = app.commitments, !.keys = K]
<1>4. mem' = [mem EXCEPT ![n] = m]
  BY DEF Restore
<1>5. K \in [Channel -> Password \cup {None}]
  BY <1>2 DEF ClientState
<1>6. app \in AppState /\ app.creators \in {file[n].creators, mem[n].creators}
  BY <1>2, SavedType
<1> HIDE DEF K, app
<1>7. /\ m \in ClientState
      /\ m.creators = app.creators /\ m.passwords = mem[n].passwords
      /\ m.mode = mem[n].mode /\ m.active = mem[n].active
  BY <1>2, <1>5, <1>6 DEF ClientState, AppState
<1> HIDE DEF m
<1>8. ClientOK(n, "prompt", m, file[n], secured[n])
  <2>1. secured[n] = Unsecured /\ \A c \in Channel : secured[n][c] = "no"
    BY <1>2, <1>3, StartTypes DEF ClientOK, Starting
  <2>2. \A c \in Channel : m.creators[c] \in Known \cup {None}
                           /\ m.creators[c] # my_peer_id(n)
    BY <1>2, <1>3, <1>6, <1>7 DEF ClientOK, Starting
  <2> QED
    BY <1>2, <1>3, <1>7, <2>1, <2>2 DEF ClientOK, Starting
<1>9. /\ at' = [at EXCEPT ![n] = "prompt"] /\ file' = [file EXCEPT ![n] = file[n]]
      /\ secured' = [secured EXCEPT ![n] = secured[n]]
      /\ job' = [job EXCEPT ![n] = job[n]] /\ runs' = runs
      /\ leaked' \subseteq {"reopened"}
  BY <1>1 DEF Restore, ClientChannelsTypeOK
<1>10. PacketsOK' /\ "prompt" \in Place
  BY SamePackets DEF Restore, Place
<1> QED
  BY <1>2, <1>4, <1>7, <1>8, <1>9, <1>10, OneClient

LEMMA OffStep ==
    ASSUME ChannelInv, NEW n \in Client, NEW f \in AppState, Ends(n), PacketsOK',
           file' = [file EXCEPT ![n] = f],
           \A c \in Channel : f.creators[c] \in Known \cup {None}
    PROVE  ChannelInv'
<1>1. ClientChannelsTypeOK /\ leaked \subseteq {"reopened"}
  BY DEF ChannelInv
<1>2. /\ NewClient \in ClientState /\ NewClient.creators = Nothing
      /\ NewClient.mode = None /\ Unsecured \in Marks
  BY StartTypes DEF NewClient
<1>3. /\ at' = [at EXCEPT ![n] = "off"] /\ mem' = [mem EXCEPT ![n] = NewClient]
      /\ job' = [job EXCEPT ![n] = NoJob] /\ runs' = runs
      /\ secured' = [secured EXCEPT ![n] = Unsecured] /\ leaked' \subseteq {"reopened"}
  BY <1>1 DEF Ends
<1>4. \A c \in Channel : NewClient.creators[c] = None
  BY <1>2 DEF Nothing
<1>5. ClientOK(n, "off", NewClient, f, Unsecured)
  BY <1>2, <1>4 DEF ClientOK, Starting
<1>6. "off" \in Place /\ NoJob \in Job \cup {NoJob}
  BY DEF Place
<1> QED
  BY <1>2, <1>3, <1>5, <1>6, OneClient

----------------------------------------------------------------------------
(* Packets that arrive                                                     *)

LEMMA AnnounceStep ==
    ASSUME ChannelInv, NEW n \in Client, NEW p \in packets, handle_channel_announce(n, p)
    PROVE  ChannelInv'
<1>1. /\ p \in Packet /\ p.from \in Known /\ p.from # my_peer_id(n)
      /\ p.protected /\ at[n] # "off"
  BY DEF ChannelInv, PacketsOK, handle_channel_announce, Heard
<1>2. p.channel \in Channel /\ p.from \in PeerId /\ p.key \in Password \cup {None}
  BY <1>1 DEF Packet
<1> DEFINE c == p.channel
           m == [mem[n] EXCEPT !.creators[c] = p.from, !.active = mem[n].active \cup {c}]
           k == IF p.key # None THEN p.key ELSE m.commitments[c]
           told == [m EXCEPT !.protected = m.protected \cup {c}, !.commitments[c] = k]
           a == IF at[n] = "greeting" THEN "merged" ELSE at[n]
<1>3. /\ mem' = [mem EXCEPT ![n] = told] /\ file' = [file EXCEPT ![n] = Saved(told)]
      /\ at' = [at EXCEPT ![n] = a]
      /\ UNCHANGED <<runs, job, secured, leaked, packets>>
  BY <1>1 DEF handle_channel_announce
<1>4. /\ m \in ClientState /\ m.keys = mem[n].keys /\ m.passwords = mem[n].passwords
      /\ m.protected = mem[n].protected /\ m.mode = mem[n].mode
      /\ m.active = mem[n].active \cup {c} /\ m.commitments = mem[n].commitments
      /\ m.creators = [mem[n].creators EXCEPT ![c] = p.from]
  <2>1. mem[n] \in ClientState
    BY Before
  <2> QED
    BY <1>2, <2>1 DEF ClientState
<1> HIDE DEF m
<1>5. k \in Password \cup {None}
  BY <1>2, <1>4 DEF ClientState
<1> HIDE DEF k
<1>6. /\ told \in ClientState /\ told.keys = m.keys /\ told.passwords = m.passwords
      /\ told.protected = m.protected \cup {c} /\ told.mode = m.mode
      /\ told.active = m.active /\ told.creators = m.creators
      /\ told.commitments = [m.commitments EXCEPT ![c] = k]
  BY <1>2, <1>4, <1>5 DEF ClientState
<1> HIDE DEF told
<1>7. ClientOK(n, a, told, Saved(told), secured[n])
  <2>1. mem[n] \in ClientState /\ ClientOK(n, at[n], mem[n], file[n], secured[n])
    BY Before
  <2>2. \A d \in Channel : told.creators[d] = IF d = c THEN p.from ELSE mem[n].creators[d]
    BY <1>4, <1>6, <2>1 DEF ClientState
  <2>3. \A d \in Channel : d # c => told.commitments[d] = mem[n].commitments[d]
    BY <1>4, <1>6, <2>1 DEF ClientState
  <2>4. Saved(told).creators = told.creators /\ Saved(told).passwords = told.passwords
    BY <1>6, SavedType
  <2>5. /\ told.mode \in told.active \cup {None}
        /\ told.passwords = mem[n].passwords /\ told.keys = mem[n].keys
        /\ told.protected = mem[n].protected \cup {c}
    BY <1>4, <1>6, <2>1 DEF ClientOK
  <2>6. ClientOK(n, at[n], told, Saved(told), secured[n])
    BY <1>1, <2>1, <2>2, <2>3, <2>4, <2>5 DEF ClientOK
  <2> QED
    BY <2>6 DEF ClientOK, Starting
<1>8. PacketsOK'
  BY <1>3, SamePackets
<1>9. Saved(told) \in AppState /\ ClientChannelsTypeOK /\ leaked \subseteq {"reopened"}
  BY <1>6, SavedType, Before
<1>10. /\ a \in Place
       /\ a = "notify" => at[n] = "notify"
       /\ a \in {"notify", "announce", "init"} => at[n] \in {"notify", "announce", "init"}
  BY <1>9 DEF ClientChannelsTypeOK, Place
<1> HIDE DEF a
<1>11. /\ at'[n] = a /\ mem'[n] = told
       /\ file'[n] = Saved(told) /\ secured'[n] = secured[n]
  BY <1>3, <1>9 DEF ClientChannelsTypeOK
<1>12. Alone(n)
  BY <1>3, <1>6, <1>9, <1>10 DEF ClientChannelsTypeOK, Alone, Place, Marks
<1> QED
  BY <1>7, <1>8, <1>11, <1>12, StepOfOne

LEMMA MessageStep ==
    ASSUME ChannelInv, NEW n \in Client, NEW p \in packets, display_message(n, p)
    PROVE  ChannelInv'
<1>1. p.channel \in Channel
  BY DEF ChannelInv, PacketsOK, Packet
<1> DEFINE m == [mem[n] EXCEPT !.protected = mem[n].protected \cup {p.channel}]
<1>2. /\ mem' = [mem EXCEPT ![n] = m]
      /\ UNCHANGED <<at, runs, file, job, secured, leaked>> /\ UNCHANGED packets
  BY DEF display_message
<1>3. /\ m \in ClientState /\ m.protected = mem[n].protected \cup {p.channel}
      /\ m.creators = mem[n].creators /\ m.commitments = mem[n].commitments
      /\ m.passwords = mem[n].passwords /\ m.keys = mem[n].keys
      /\ m.active = mem[n].active /\ m.mode = mem[n].mode
  BY <1>1, Before DEF ClientState
<1> HIDE DEF m
<1>4. ClientOK(n, at[n], m, file[n], secured[n])
  BY <1>3, Before DEF ClientOK
<1>5. PacketsOK'
  BY <1>2, SamePackets
<1> QED
  BY <1>2, <1>3, <1>4, <1>5, OnlyMemory

----------------------------------------------------------------------------
(* Commands                                                                *)

LEMMA SwitchFields ==
    ASSUME NEW m \in ClientState, NEW c \in Channel
    PROVE  LET s == SwitchTo(m, c)
           IN  /\ s \in ClientState /\ s.mode = c /\ s.active = m.active \cup {c}
               /\ s.creators = m.creators /\ s.protected = m.protected
               /\ s.commitments = m.commitments /\ s.passwords = m.passwords
               /\ s.keys = m.keys
BY DEF SwitchTo, ClientState

(* The packets a client makes are packets of its own id.                   *)
LEMMA OwnPackets ==
    ASSUME ChannelInv, NEW n \in Client, at[n] # "off", NEW c \in Channel,
           NEW k \in Password \cup {None}
    PROVE  /\ ChannelAnnounce(n, c, TRUE, k) \in Packet
           /\ ChannelAnnounce(n, c, TRUE, k).from \in Known
           /\ ChannelAnnounce(n, c, TRUE, k).protected
           /\ ChannelMessage(n, c, k) \in Packet
           /\ ChannelMessage(n, c, k).from \in Known
           /\ ChannelMessage(n, c, k).kind # "announce"
<1>1. my_peer_id(n) \in Known /\ my_peer_id(n) \in PeerId
  BY MyId DEF ChannelInv
<1> QED
  BY <1>1 DEF ChannelAnnounce, ChannelMessage, Packet

LEMMA StopStep ==
    ASSUME ChannelInv, NEW n \in Client, Exit(n) \/ Crash(n) \/ Torn(n)
    PROVE  ChannelInv'
<1>1. /\ mem[n] \in ClientState /\ file[n] \in AppState
      /\ ClientOK(n, at[n], mem[n], file[n], secured[n]) /\ ClientChannelsTypeOK
  BY Before
<1>2. runs' = runs /\ Ends(n)
  BY DEF Exit, Crash, Torn, Ends
<1>3. CASE Exit(n)
  <2>1. Saved(mem[n]) \in AppState /\ Saved(mem[n]).creators = mem[n].creators
    BY <1>1, SavedType
  <2>2. PacketsOK' /\ file' = [file EXCEPT ![n] = Saved(mem[n])]
    BY <1>2, <1>3, SamePackets DEF Exit
  <2> QED
    BY <1>1, <1>2, <2>1, <2>2, OffStep DEF ClientOK
<1>4. CASE Crash(n)
  <2>1. PacketsOK' /\ file' = [file EXCEPT ![n] = file[n]]
    BY <1>1, <1>2, <1>4, SamePackets DEF Crash, ClientChannelsTypeOK
  <2> QED
    BY <1>1, <1>2, <2>1, OffStep DEF ClientOK
<1>5. CASE Torn(n)
  <2>1. PacketsOK'
    <3>1. CASE UNCHANGED packets
      BY <1>2, <3>1, SamePackets
    <3>2. CASE at[n] = "init" /\ Send(ChannelMessage(n, job[n].channel, job[n].key))
      <4>1. job[n] \in Job
        BY <1>1, <3>2 DEF ClientChannelsTypeOK
      <4>2. job[n].channel \in Channel /\ job[n].key \in Password \cup {None}
        BY <4>1 DEF Job
      <4> QED
        BY <1>2, <3>2, <4>2, OwnPackets, SentPacket
    <3> QED
      BY <1>5, <3>1, <3>2 DEF Torn
  <2>2. NewAppState \in AppState /\ \A c \in Channel : NewAppState.creators[c] = None
    BY StartTypes DEF NewAppState, Nothing
  <2>3. file' = [file EXCEPT ![n] = NewAppState]
    BY <1>5 DEF Torn
  <2> QED
    BY <1>2, <2>1, <2>2, <2>3, OffStep
<1> QED
  BY <1>3, <1>4, <1>5

LEMMA JoinStep ==
    ASSUME ChannelInv, NEW n \in Client, NEW c \in Channel,
           \/ JoinAgain(n, c)
           \/ \E p \in Password : JoinProtected(n, c, p)
           \/ \E p \in Password \cup {None} : JoinOpen(n, c, p)
    PROVE  ChannelInv'
<1>1. /\ mem[n] \in ClientState /\ file[n] \in AppState /\ secured[n] \in Marks
      /\ ClientOK(n, at[n], mem[n], file[n], secured[n])
  BY Before
<1>2. at[n] = "prompt"
  BY DEF JoinAgain, JoinProtected, JoinOpen
<1>3. CASE JoinAgain(n, c)
  <2> DEFINE m == SwitchTo(mem[n], c)
  <2>1. /\ mem' = [mem EXCEPT ![n] = m]
        /\ UNCHANGED <<at, runs, file, job, secured, leaked>> /\ UNCHANGED packets
    BY <1>3 DEF JoinAgain
  <2>2. /\ m \in ClientState /\ m.mode = c /\ m.active = mem[n].active \cup {c}
        /\ m.creators = mem[n].creators /\ m.protected = mem[n].protected
        /\ m.commitments = mem[n].commitments /\ m.passwords = mem[n].passwords
        /\ m.keys = mem[n].keys
    BY <1>1, SwitchFields
  <2> HIDE DEF m
  <2>3. ClientOK(n, at[n], m, file[n], secured[n])
    BY <1>1, <2>2 DEF ClientOK
  <2>4. PacketsOK'
    BY <2>1, SamePackets
  <2> QED
    BY <2>1, <2>2, <2>3, <2>4, OnlyMemory
<1>4. ASSUME NEW p \in Password, JoinProtected(n, c, p) PROVE ChannelInv'
  <2> DEFINE u == [mem[n] EXCEPT !.keys[c] = p, !.passwords[c] = p]
             m == SwitchTo(u, c)
             S == [secured[n] EXCEPT ![c] = "yes"]
  <2>1. /\ mem' = [mem EXCEPT ![n] = m] /\ file' = [file EXCEPT ![n] = Saved(u)]
        /\ secured' = [secured EXCEPT ![n] = S]
        /\ UNCHANGED <<at, runs, job, leaked>>
        /\ c \in mem[n].protected /\ mem[n].keys[c] = None
        /\ Send(ChannelAnnounce(n, c, TRUE, p)) \/ UNCHANGED packets
    <3>1. secured' = [secured EXCEPT ![n][c] = "yes"]
      BY <1>4 DEF JoinProtected
    <3>2. secured' = [secured EXCEPT ![n] = S]
      BY <3>1
    <3> QED
      BY <1>4, <3>2 DEF JoinProtected
  <2>2. /\ u \in ClientState /\ u.mode = mem[n].mode /\ u.active = mem[n].active
        /\ u.creators = mem[n].creators /\ u.protected = mem[n].protected
        /\ u.commitments = mem[n].commitments
        /\ u.passwords = [mem[n].passwords EXCEPT ![c] = p]
        /\ u.keys = [mem[n].keys EXCEPT ![c] = p]
    BY <1>1 DEF ClientState
  <2> HIDE DEF u
  <2>3. /\ m \in ClientState /\ m.mode = c /\ m.active = u.active \cup {c}
        /\ m.creators = u.creators /\ m.protected = u.protected
        /\ m.commitments = u.commitments /\ m.passwords = u.passwords /\ m.keys = u.keys
    BY <2>2, SwitchFields
  <2> HIDE DEF m
  <2>4. /\ Saved(u) \in AppState /\ Saved(u).creators = u.creators
        /\ Saved(u).passwords = u.passwords
    BY <2>2, SavedType
  <2>5. /\ \A d \in Channel \ {c} : /\ m.keys[d] = mem[n].keys[d]
                                    /\ m.passwords[d] = mem[n].passwords[d]
        /\ m.keys[c] = p /\ p # None
        /\ mem[n].creators[c] # my_peer_id(n)
        /\ \A d \in Channel \ {c} : S[d] = secured[n][d]
    BY <1>1, <1>2, <2>1, <2>2, <2>3, NoneApart DEF ClientState, ClientOK, Marks
  <2>6. ClientOK(n, at[n], m, Saved(u), S)
    BY <1>1, <1>2, <2>1, <2>2, <2>3, <2>4, <2>5 DEF ClientOK, Starting
  <2>7. PacketsOK'
    BY <1>2, <2>1, OwnPackets, SentPacket, SamePackets
  <2>8. S \in Marks
    BY <1>1 DEF Marks
  <2> HIDE DEF S
  <2> QED
    BY <2>1, <2>3, <2>4, <2>6, <2>7, <2>8, MemoryAndFile
<1>5. ASSUME NEW p \in Password \cup {None}, JoinOpen(n, c, p) PROVE ChannelInv'
  <2> DEFINE u == [mem[n] EXCEPT !.keys[c] = p]
             m == SwitchTo(u, c)
             x == IF p # None THEN "yes"
                  ELSE IF secured[n][c] = "no" THEN "no" ELSE "reopened"
             S == [secured[n] EXCEPT ![c] = x]
  <2>1. /\ mem' = [mem EXCEPT ![n] = m] /\ file' = file
        /\ secured' = [secured EXCEPT ![n] = S]
        /\ UNCHANGED <<at, runs, job, leaked>>
        /\ c \notin mem[n].protected
        /\ Send(ChannelAnnounce(n, c, TRUE, p)) \/ UNCHANGED packets
    <3>1. secured' = [secured EXCEPT ![n][c] = x]
      BY <1>5 DEF JoinOpen
    <3>2. secured' = [secured EXCEPT ![n] = S]
      BY <3>1
    <3> QED
      BY <1>5, <3>2 DEF JoinOpen
  <2>2. /\ u \in ClientState /\ u.mode = mem[n].mode /\ u.active = mem[n].active
        /\ u.creators = mem[n].creators /\ u.protected = mem[n].protected
        /\ u.commitments = mem[n].commitments /\ u.passwords = mem[n].passwords
        /\ u.keys = [mem[n].keys EXCEPT ![c] = p]
    BY <1>1 DEF ClientState
  <2> HIDE DEF u
  <2>3. /\ m \in ClientState /\ m.mode = c /\ m.active = u.active \cup {c}
        /\ m.creators = u.creators /\ m.protected = u.protected
        /\ m.commitments = u.commitments /\ m.passwords = u.passwords /\ m.keys = u.keys
    BY <2>2, SwitchFields
  <2> HIDE DEF m
  <2>4. x \in {"no", "yes", "reopened"} /\ (x = "yes" => p # None)
    OBVIOUS
  <2> HIDE DEF x
  <2>5. /\ S \in Marks /\ S[c] = x
        /\ \A d \in Channel \ {c} : m.keys[d] = mem[n].keys[d] /\ S[d] = secured[n][d]
        /\ m.keys[c] = p /\ mem[n].creators[c] # my_peer_id(n)
    BY <1>1, <1>2, <2>1, <2>2, <2>3, <2>4 DEF ClientState, ClientOK, Marks
  <2> HIDE DEF S
  <2>6. ClientOK(n, at[n], m, file[n], S)
    BY <1>1, <1>2, <2>2, <2>3, <2>4, <2>5 DEF ClientOK, Starting
  <2>7. PacketsOK'
    BY <1>2, <2>1, OwnPackets, SentPacket, SamePackets
  <2>8. file' = [file EXCEPT ![n] = file[n]]
    BY <2>1, Before DEF ClientChannelsTypeOK
  <2> QED
    BY <1>1, <2>1, <2>3, <2>5, <2>6, <2>7, <2>8, MemoryAndFile
<1> QED
  BY <1>3, <1>4, <1>5

LEMMA SwitchStep ==
    ASSUME ChannelInv, NEW n \in Client, NEW c \in Channel \cup {None}, Switch(n, c)
    PROVE  ChannelInv'
<1>1. /\ mem[n] \in ClientState
      /\ ClientOK(n, at[n], mem[n], file[n], secured[n])
  BY Before
<1> DEFINE m == [mem[n] EXCEPT !.mode = c]
<1>2. /\ mem' = [mem EXCEPT ![n] = m] /\ c \in mem[n].active \cup {None}
      /\ UNCHANGED <<at, runs, file, job, secured, leaked>> /\ UNCHANGED packets
  BY DEF Switch
<1>3. /\ m \in ClientState /\ m.mode = c /\ m.active = mem[n].active
      /\ m.creators = mem[n].creators /\ m.protected = mem[n].protected
      /\ m.commitments = mem[n].commitments /\ m.passwords = mem[n].passwords
      /\ m.keys = mem[n].keys
  BY <1>1 DEF ClientState
<1> HIDE DEF m
<1>4. ClientOK(n, at[n], m, file[n], secured[n])
  BY <1>1, <1>2, <1>3 DEF ClientOK
<1>5. PacketsOK'
  BY <1>2, SamePackets
<1> QED
  BY <1>2, <1>3, <1>4, <1>5, OnlyMemory

LEMMA LeaveStep ==
    ASSUME ChannelInv, NEW n \in Client, Leave(n)
    PROVE  ChannelInv'
<1>1. /\ mem[n] \in ClientState /\ secured[n] \in Marks
      /\ ClientOK(n, at[n], mem[n], file[n], secured[n])
  BY Before
<1> DEFINE c == mem[n].mode
           m == [mem[n] EXCEPT !.keys[c] = None, !.protected = mem[n].protected \ {c},
                               !.creators[c] = None, !.commitments[c] = None,
                               !.passwords[c] = None, !.active = mem[n].active \ {c},
                               !.mode = None]
           S == [secured[n] EXCEPT ![c] = "no"]
<1>2. /\ mem' = [mem EXCEPT ![n] = m] /\ file' = [file EXCEPT ![n] = Saved(m)]
      /\ secured' = [secured EXCEPT ![n] = S]
      /\ UNCHANGED <<at, runs, job, leaked>> /\ UNCHANGED packets
      /\ at[n] = "prompt" /\ c # None
  <2>1. secured' = [secured EXCEPT ![n][c] = "no"]
    BY DEF Leave
  <2>2. secured' = [secured EXCEPT ![n] = S]
    BY <2>1
  <2> QED
    BY <2>2 DEF Leave
<1>3. /\ c \in Channel /\ S \in Marks /\ S[c] = "no"
      /\ \A d \in Channel \ {c} : S[d] = secured[n][d]
  BY <1>1, <1>2 DEF ClientState, Marks
<1> HIDE DEF c, S
<1>4. /\ m \in ClientState /\ m.mode = None /\ m.protected = mem[n].protected \ {c}
      /\ m.creators = [mem[n].creators EXCEPT ![c] = None]
      /\ m.commitments = [mem[n].commitments EXCEPT ![c] = None]
      /\ m.passwords = [mem[n].passwords EXCEPT ![c] = None]
      /\ m.keys = [mem[n].keys EXCEPT ![c] = None]
  BY <1>1, <1>3 DEF ClientState
<1> HIDE DEF m
<1>5. /\ Saved(m) \in AppState /\ Saved(m).creators = m.creators
      /\ Saved(m).passwords = m.passwords
  BY <1>4, SavedType
<1>6. /\ m.creators[c] = None
      /\ \A d \in Channel \ {c} :
           /\ m.creators[d] = mem[n].creators[d] /\ m.keys[d] = mem[n].keys[d]
           /\ m.commitments[d] = mem[n].commitments[d]
           /\ m.passwords[d] = mem[n].passwords[d]
  BY <1>1, <1>3, <1>4 DEF ClientState
<1>7. my_peer_id(n) # None
  BY <1>2, MyId, NoneApart DEF ChannelInv
<1>8. ClientOK(n, at[n], m, Saved(m), S)
  BY <1>1, <1>2, <1>3, <1>4, <1>5, <1>6, <1>7 DEF ClientOK, Starting
<1>9. PacketsOK'
  BY <1>2, SamePackets
<1> QED
  BY <1>2, <1>3, <1>4, <1>5, <1>8, <1>9, MemoryAndFile

LEMMA PassStep ==
    ASSUME ChannelInv, NEW n \in Client, NEW p \in Password, Pass(n, p)
    PROVE  ChannelInv'
<1>1. /\ mem[n] \in ClientState /\ file[n] \in AppState /\ secured[n] \in Marks
      /\ ClientOK(n, at[n], mem[n], file[n], secured[n])
      /\ ClientChannelsTypeOK /\ leaked \subseteq {"reopened"}
  BY Before
<1> DEFINE c == mem[n].mode
           id == my_peer_id(n)
           m == [mem[n] EXCEPT !.creators[c] = id, !.keys[c] = p,
                               !.protected = mem[n].protected \cup {c},
                               !.passwords[c] = p, !.commitments[c] = p]
           S == [secured[n] EXCEPT ![c] = "yes"]
           j == [channel |-> c, key |-> p, old |-> mem[n].keys[c]]
           a == IF j.old # None THEN "notify" ELSE "announce"
<1>2. /\ mem' = [mem EXCEPT ![n] = m] /\ secured' = [secured EXCEPT ![n] = S]
      /\ job' = [job EXCEPT ![n] = j]
      /\ runs' = runs /\ file' = file /\ packets' = packets /\ leaked' \subseteq {"reopened"}
      /\ at[n] = "prompt" /\ c # None
  <2>1. secured' = [secured EXCEPT ![n][c] = "yes"]
    BY DEF Pass
  <2>2. secured' = [secured EXCEPT ![n] = S]
    BY <2>1
  <2> QED
    BY <1>1, <2>2 DEF Pass
<1>3. /\ c \in Channel /\ S \in Marks /\ j \in Job
      /\ \A d \in Channel \ {c} : S[d] = secured[n][d]
  BY <1>1, <1>2 DEF ClientState, Job, Marks
<1>4. at' = [at EXCEPT ![n] = a]
  <2>1. job'[n] = j
    BY <1>1, <1>2 DEF ClientChannelsTypeOK
  <2> QED
    BY <2>1 DEF Pass
<1>5. id \in PeerId /\ id \in Known
  BY <1>1, <1>2, MyId
<1> HIDE DEF c, id, S, j
<1>6. /\ m \in ClientState /\ m.mode = mem[n].mode /\ m.active = mem[n].active
      /\ m.protected = mem[n].protected \cup {c}
      /\ m.creators = [mem[n].creators EXCEPT ![c] = id]
      /\ m.commitments = [mem[n].commitments EXCEPT ![c] = p]
      /\ m.passwords = [mem[n].passwords EXCEPT ![c] = p]
      /\ m.keys = [mem[n].keys EXCEPT ![c] = p]
  BY <1>1, <1>3, <1>5 DEF ClientState
<1> HIDE DEF m
<1>7. /\ m.creators[c] = id /\ m.keys[c] = p /\ m.commitments[c] = p /\ m.passwords[c] = p
      /\ \A d \in Channel \ {c} :
           /\ m.creators[d] = mem[n].creators[d] /\ m.keys[d] = mem[n].keys[d]
           /\ m.commitments[d] = mem[n].commitments[d]
           /\ m.passwords[d] = mem[n].passwords[d]
  BY <1>1, <1>3, <1>6 DEF ClientState
<1>8. a \in Place /\ (a = "notify" => j.old # None) /\ a \in {"notify", "announce"}
  BY DEF Place
<1> HIDE DEF a
<1>9. ClientOK(n, a, m, file[n], S)
  BY <1>1, <1>2, <1>3, <1>5, <1>6, <1>7, <1>8, NoneApart DEF ClientOK, Starting
<1>10. PacketsOK'
  BY <1>2, SamePackets
<1>11. file' = [file EXCEPT ![n] = file[n]]
  BY <1>1, <1>2 DEF ClientChannelsTypeOK
<1> QED
  BY <1>1, <1>2, <1>3, <1>4, <1>6, <1>8, <1>9, <1>10, <1>11, OneClient

(* The sends of /pass that save nothing, and the exception in one of them. *)
LEMMA PassSendStep ==
    ASSUME ChannelInv, NEW n \in Client,
           PassNotify(n) \/ PassAnnounce(n) \/ PassRaises(n)
    PROVE  ChannelInv'
<1>1. ClientChannelsTypeOK
  BY DEF ChannelInv
<1>2. /\ at[n] \in {"notify", "announce", "init"}
      /\ UNCHANGED <<mem, runs, file, secured, leaked>>
  BY DEF PassNotify, PassAnnounce, PassRaises
<1>3. job[n] \in Job /\ job = [job EXCEPT ![n] = job[n]] /\ NoJob \in Job \cup {NoJob}
  BY <1>1, <1>2 DEF ClientChannelsTypeOK
<1>4. /\ job[n].channel \in Channel /\ job[n].key \in Password \cup {None}
      /\ job[n].old \in Password \cup {None}
  BY <1>3 DEF Job
<1>5. CASE PassNotify(n)
  <2>1. PacketsOK'
    BY <1>2, <1>4, <1>5, OwnPackets, SentPacket DEF PassNotify
  <2>2. at' = [at EXCEPT ![n] = "announce"] /\ job' = [job EXCEPT ![n] = job[n]]
    BY <1>3, <1>5 DEF PassNotify
  <2> QED
    BY <1>2, <1>3, <2>1, <2>2, OnlyPosition
<1>6. CASE PassAnnounce(n)
  <2>1. PacketsOK'
    BY <1>2, <1>4, <1>6, OwnPackets, SentPacket DEF PassAnnounce
  <2>2. at' = [at EXCEPT ![n] = "init"] /\ job' = [job EXCEPT ![n] = job[n]]
    BY <1>3, <1>6 DEF PassAnnounce
  <2> QED
    BY <1>2, <1>3, <2>1, <2>2, OnlyPosition
<1>7. CASE PassRaises(n)
  <2>1. PacketsOK'
    BY <1>7, SamePackets DEF PassRaises
  <2>2. at' = [at EXCEPT ![n] = "prompt"] /\ job' = [job EXCEPT ![n] = NoJob]
    BY <1>7 DEF PassRaises
  <2> QED
    BY <1>2, <1>3, <2>1, <2>2, OnlyPosition
<1> QED
  BY <1>5, <1>6, <1>7

LEMMA PassInitStep ==
    ASSUME ChannelInv, NEW n \in Client, PassInit(n)
    PROVE  ChannelInv'
<1>1. /\ mem[n] \in ClientState /\ secured[n] \in Marks
      /\ ClientOK(n, at[n], mem[n], file[n], secured[n])
      /\ ClientChannelsTypeOK /\ leaked \subseteq {"reopened"}
  BY Before
<1>2. /\ at[n] = "init" /\ at' = [at EXCEPT ![n] = "prompt"]
      /\ file' = [file EXCEPT ![n] = Saved(mem[n])] /\ job' = [job EXCEPT ![n] = NoJob]
      /\ runs' = runs /\ mem' = mem /\ secured' = secured /\ leaked' \subseteq {"reopened"}
      /\ Send(ChannelMessage(n, job[n].channel, job[n].key))
  BY <1>1 DEF PassInit
<1>3. PacketsOK'
  <2>1. job[n] \in Job
    BY <1>1, <1>2 DEF ClientChannelsTypeOK
  <2>2. job[n].channel \in Channel /\ job[n].key \in Password \cup {None}
    BY <2>1 DEF Job
  <2> QED
    BY <1>2, <2>2, OwnPackets, SentPacket
<1>4. /\ Saved(mem[n]) \in AppState /\ Saved(mem[n]).creators = mem[n].creators
      /\ Saved(mem[n]).passwords = mem[n].passwords
  BY <1>1, SavedType
<1>5. ClientOK(n, "prompt", mem[n], Saved(mem[n]), secured[n])
  BY <1>1, <1>2, <1>4 DEF ClientOK, Starting
<1>6. /\ mem' = [mem EXCEPT ![n] = mem[n]]
      /\ secured' = [secured EXCEPT ![n] = secured[n]]
  BY <1>1, <1>2 DEF ClientChannelsTypeOK
<1>7. Alone(n) /\ file'[n] = Saved(mem[n]) /\ at'[n] = "prompt"
  BY <1>1, <1>2, <1>4 DEF Alone, ClientChannelsTypeOK, Place, Marks
<1> QED
  BY <1>2, <1>3, <1>5, <1>7, StepOfOne

(* /transfer is for the owner, whose channel is protected: so is what it   *)
(* announces.                                                              *)
LEMMA TransferStep ==
    ASSUME ChannelInv, NEW n \in Client, NEW peer \in PeerId, Transfer(n, peer)
    PROVE  ChannelInv'
<1>1. /\ mem[n] \in ClientState /\ secured[n] \in Marks
      /\ secured = [secured EXCEPT ![n] = secured[n]]
      /\ ClientOK(n, at[n], mem[n], file[n], secured[n])
  BY Before
<1> DEFINE c == mem[n].mode
           m == [mem[n] EXCEPT !.creators[c] = peer]
<1>2. /\ at[n] = "prompt" /\ c # None /\ mem[n].creators[c] = my_peer_id(n)
      /\ peer[1] # n /\ peer \in Known
      /\ mem' = [mem EXCEPT ![n] = m] /\ file' = [file EXCEPT ![n] = Saved(m)]
      /\ UNCHANGED <<at, runs, job, leaked>> /\ secured' = secured
      /\ Send(ChannelAnnounce(n, c, c \in m.protected,
                              IF c \in m.protected THEN m.keys[c] ELSE None))
  BY DEF Transfer, Known
<1>3. c \in Channel
  BY <1>1, <1>2 DEF ClientState
<1>4. c \in mem[n].protected
  BY <1>1, <1>2, <1>3 DEF ClientOK
<1>5. peer # my_peer_id(n)
  BY <1>2 DEF my_peer_id
<1> HIDE DEF c
<1>6. /\ m \in ClientState /\ m.mode = mem[n].mode /\ m.active = mem[n].active
      /\ m.protected = mem[n].protected /\ m.keys = mem[n].keys
      /\ m.commitments = mem[n].commitments /\ m.passwords = mem[n].passwords
      /\ m.creators = [mem[n].creators EXCEPT ![c] = peer]
  BY <1>1, <1>3 DEF ClientState
<1> HIDE DEF m
<1>7. /\ m.creators[c] = peer
      /\ \A d \in Channel \ {c} : m.creators[d] = mem[n].creators[d]
      /\ m.keys[c] \in Password \cup {None}
  BY <1>1, <1>3, <1>6 DEF ClientState
<1>8. /\ Saved(m) \in AppState /\ Saved(m).creators = m.creators
      /\ Saved(m).passwords = m.passwords
  BY <1>6, SavedType
<1>9. ClientOK(n, at[n], m, Saved(m), secured[n])
  BY <1>1, <1>2, <1>5, <1>6, <1>7, <1>8 DEF ClientOK
<1>10. PacketsOK'
  <2>1. (c \in m.protected) = TRUE
    BY <1>4, <1>6
  <2>2. Send(ChannelAnnounce(n, c, TRUE, m.keys[c]))
    BY <1>2, <2>1
  <2> QED
    BY <1>2, <1>3, <1>7, <2>2, OwnPackets, SentPacket
<1>11. secured' = [secured EXCEPT ![n] = secured[n]]
  BY <1>1, <1>2
<1> QED
  BY <1>1, <1>2, <1>6, <1>8, <1>9, <1>10, <1>11, MemoryAndFile

LEMMA SayStep ==
    ASSUME ChannelInv, NEW n \in Client, SayEncrypted(n) \/ SayPlain(n)
    PROVE  ChannelInv'
<1>1. /\ mem[n] \in ClientState /\ secured[n] \in Marks
      /\ ClientOK(n, at[n], mem[n], file[n], secured[n])
      /\ ClientChannelsTypeOK /\ leaked \subseteq {"reopened"}
  BY Before
<1>2. /\ at[n] = "prompt" /\ mem[n].mode # None
      /\ UNCHANGED <<at, runs, mem, file, job, secured>>
  BY DEF SayEncrypted, SayPlain
<1>3. mem[n].mode \in Channel
  BY <1>1, <1>2 DEF ClientState
<1>4. mem[n].keys[mem[n].mode] \in Password \cup {None}
  BY <1>1, <1>3 DEF ClientState
<1>5. leaked' \subseteq {"reopened"}
  <2>1. CASE SayEncrypted(n)
    BY <1>1, <2>1 DEF SayEncrypted
  <2>2. CASE SayPlain(n)
    <3>1. secured[n][mem[n].mode] \in {"no", "reopened"}
      BY <1>1, <1>2, <1>3, <2>2 DEF SayPlain, ClientOK, Marks
    <3> QED
      BY <1>1, <2>2, <3>1 DEF SayPlain
  <2> QED
    BY <2>1, <2>2
<1>6. PacketsOK'
  <2>1. CASE SayEncrypted(n)
    BY <1>2, <1>3, <1>4, <2>1, OwnPackets, SentPacket DEF SayEncrypted
  <2>2. CASE SayPlain(n)
    BY <2>2, SamePackets DEF SayPlain
  <2> QED
    BY <2>1, <2>2
<1>7. Alone(n)
  BY <1>1, <1>2, <1>5 DEF Alone, ClientChannelsTypeOK, Place, Marks
<1> QED
  BY <1>1, <1>2, <1>6, <1>7, StepOfOne

----------------------------------------------------------------------------
(* The invariant holds of every reachable state.                           *)
THEOREM ChannelInvariant == Spec => []ChannelInv
<1>1. Init => ChannelInv
  <2> SUFFICES ASSUME Init PROVE ChannelInv
    OBVIOUS
  <2>1. NewClient \in ClientState /\ NewClient.mode = None /\ NewClient.creators = Nothing
    BY StartTypes DEF NewClient
  <2>2. NewAppState \in AppState /\ NewAppState.creators = Nothing
    BY StartTypes DEF NewAppState
  <2>3. Unsecured \in Marks
    BY StartTypes
  <2>4. ClientChannelsTypeOK
    BY <2>1, <2>2, <2>3 DEF Init, ClientChannelsTypeOK, Marks
  <2>5. ASSUME NEW n \in Client
        PROVE  ClientOK(n, at[n], mem[n], file[n], secured[n])
    <3>1. /\ at[n] = "off" /\ mem[n] = NewClient /\ file[n] = NewAppState
          /\ secured[n] = Unsecured
      BY DEF Init
    <3>2. \A c \in Channel : Nothing[c] = None
      BY DEF Nothing
    <3> QED
      BY <2>1, <2>2, <3>1, <3>2 DEF ClientOK, Starting
  <2> QED
    BY <2>4, <2>5 DEF Init, ChannelInv, PacketsOK
<1>2. ChannelInv /\ [Next]_vars => ChannelInv'
  <2> SUFFICES ASSUME ChannelInv, [Next]_vars PROVE ChannelInv'
    OBVIOUS
  <2>1. CASE UNCHANGED vars
    BY <2>1 DEF vars, ChannelInv, ClientChannelsTypeOK, PacketsOK, ClientOK, Known,
                my_peer_id, Unsecured
  <2>2. ASSUME NEW n \in Client, Command(n) PROVE ChannelInv'
    BY <2>2, JoinStep, SwitchStep, LeaveStep, PassStep, PassSendStep, PassInitStep,
       TransferStep, SayStep DEF Command
  <2> QED
    BY <2>1, <2>2, StartStep, LoadStep, RestoreStep, StopStep, AnnounceStep,
       MessageStep DEF Next
<1> QED
  BY <1>1, <1>2, PTL DEF Spec

(* The state of the clients is well typed.                                 *)
THEOREM ClientChannelsTypeCorrect == Spec => []ClientChannelsTypeOK
BY ChannelInvariant, PTL DEF ChannelInv

(* OwnerReady for any number of clients and channels: whoever takes itself *)
(* for the owner has the key, its commitment and the saved password        *)
(* (bitchat.py:2011, 2106).                                                *)
THEOREM OwnersReady == Spec => []OwnerReady
<1>1. ChannelInv => OwnerReady
  BY DEF ChannelInv, ClientOK, OwnerReady
<1> QED
  BY <1>1, ChannelInvariant, PTL

(* NoPlaintext for any number of clients and channels: after a password    *)
(* was set or given, with /pass or either way of /j, nothing goes out in   *)
(* plain before /leave or a /j without password to a channel that is not   *)
(* known as protected (bitchat.py:1130, 1763, 2127).                       *)
THEOREM NothingInPlain == Spec => []NoPlaintext
<1>1. ChannelInv => NoPlaintext
  BY DEF ChannelInv, NoPlaintext
<1> QED
  BY <1>1, ChannelInvariant, PTL

(* PasswordsKept: besides /leave only a kill in the middle of a save and   *)
(* an announcement before the state is loaded take a password from the     *)
(* file, for every order of saves, crashes, restarts and announcements     *)
(* (bitchat.py:389, 449, 1135).                                            *)
THEOREM PasswordsAreKept == Spec => PasswordsKept
<1> DEFINE Gone(n, c) == \/ mem[n].mode = c /\ Leave(n)
                         \/ Torn(n)
                         \/ at[n] = "connecting"
           Kept == \A n \in Client : \A c \in Channel :
              file[n].passwords[c] # None =>
                  \/ file'[n].passwords[c] # None
                  \/ mem[n].mode = c /\ Leave(n)
                  \/ Torn(n)
                  \/ at[n] = "connecting"
<1>1. ChannelInv /\ [Next]_vars => [Kept]_vars
  <2> SUFFICES ASSUME ChannelInv, Next PROVE Kept
    OBVIOUS
  <2>1. ASSUME file' = file PROVE Kept
    BY <2>1
  <2>2. ASSUME NEW n \in Client, NEW f, file' = [file EXCEPT ![n] = f],
               \A c \in Channel : mem[n].passwords[c] # None =>
                 f.passwords[c] # None \/ Gone(n, c),
               at[n] # "off"
        PROVE  Kept
    <3>1. \A k \in Client : file'[k] = IF k = n THEN f ELSE file[k]
      BY <2>2 DEF ChannelInv, ClientChannelsTypeOK
    <3>2. \A c \in Channel : file[n].passwords[c] # None =>
            mem[n].passwords[c] # None \/ Gone(n, c)
      BY <2>2 DEF ChannelInv, ClientOK
    <3> QED
      BY <2>2, <3>1, <3>2
  <2> HIDE DEF Kept
  <2>3. ASSUME NEW n \in Client, NEW m \in ClientState,
               file' = [file EXCEPT ![n] = Saved(m)], at[n] # "off",
               \A c \in Channel : mem[n].passwords[c] # None =>
                 m.passwords[c] # None \/ Gone(n, c)
        PROVE  Kept
    <3> DEFINE f == Saved(m)
    <3>1. f.passwords = m.passwords
      BY SavedType
    <3>2. file' = [file EXCEPT ![n] = f]
      BY <2>3
    <3> HIDE DEF f
    <3>3. \A c \in Channel : mem[n].passwords[c] # None =>
            f.passwords[c] # None \/ Gone(n, c)
      BY <2>3, <3>1
    <3> QED
      BY <2>2, <2>3, <3>2, <3>3, Zenon
  <2>4. ASSUME NEW n \in Client, Exit(n) \/ PassInit(n) PROVE Kept
    BY <2>3, <2>4, Before DEF Exit, PassInit
  <2>10. ASSUME NEW n \in Client, Torn(n) PROVE Kept
    <3>1. \A k \in Client : k # n => file'[k] = file[k]
      BY <2>10 DEF Torn, ChannelInv, ClientChannelsTypeOK
    <3> QED
      BY <2>10, <3>1 DEF Kept
  <2>5. ASSUME NEW n \in Client, NEW p \in packets, handle_channel_announce(n, p)
        PROVE  Kept
    <3> DEFINE c == p.channel
               u == [mem[n] EXCEPT !.creators[c] = p.from, !.active = mem[n].active \cup {c}]
               k == IF p.key # None THEN p.key ELSE u.commitments[c]
               m == [u EXCEPT !.protected = u.protected \cup {c}, !.commitments[c] = k]
    <3>1. p \in Packet /\ p.protected
      BY <2>5 DEF ChannelInv, PacketsOK, handle_channel_announce
    <3>2. file' = [file EXCEPT ![n] = Saved(m)] /\ at[n] # "off"
      BY <2>5, <3>1 DEF handle_channel_announce, Heard
    <3>3. c \in Channel /\ p.from \in PeerId /\ p.key \in Password \cup {None}
      BY <3>1 DEF Packet
    <3>4. mem[n] \in ClientState
      BY Before
    <3>5. u \in ClientState /\ u.passwords = mem[n].passwords
      BY <3>3, <3>4 DEF ClientState
    <3> HIDE DEF u
    <3>6. k \in Password \cup {None}
      BY <3>3, <3>5 DEF ClientState
    <3> HIDE DEF k
    <3>7. m \in ClientState /\ m.passwords = mem[n].passwords
      BY <3>3, <3>5, <3>6 DEF ClientState
    <3> HIDE DEF m
    <3> QED
      BY <2>3, <3>2, <3>7
  <2>6. ASSUME NEW n \in Client, NEW c \in Channel, NEW p \in Password,
               JoinProtected(n, c, p)
        PROVE  Kept
    <3> DEFINE m == [mem[n] EXCEPT !.keys[c] = p, !.passwords[c] = p]
    <3>1. file' = [file EXCEPT ![n] = Saved(m)] /\ at[n] # "off"
      BY <2>6 DEF JoinProtected
    <3>2. mem[n] \in ClientState
      BY Before
    <3>3. m \in ClientState /\ m.passwords = [mem[n].passwords EXCEPT ![c] = p]
      BY <3>2 DEF ClientState
    <3> HIDE DEF m
    <3>4. \A d \in Channel : mem[n].passwords[d] # None => m.passwords[d] # None
      BY <3>2, <3>3, NoneApart DEF ClientState
    <3> QED
      BY <2>3, <3>1, <3>3, <3>4
  <2>7. ASSUME NEW n \in Client, NEW peer \in PeerId, Transfer(n, peer) PROVE Kept
    <3> DEFINE c == mem[n].mode
               m == [mem[n] EXCEPT !.creators[c] = peer]
    <3>1. file' = [file EXCEPT ![n] = Saved(m)] /\ at[n] # "off" /\ c # None
      BY <2>7 DEF Transfer
    <3>2. mem[n] \in ClientState
      BY Before
    <3>0. c \in Channel
      BY <3>1, <3>2 DEF ClientState
    <3> HIDE DEF c
    <3>3. m \in ClientState /\ m.passwords = mem[n].passwords
      BY <3>0, <3>2 DEF ClientState
    <3> HIDE DEF m
    <3> QED
      BY <2>3, <3>1, <3>3
  <2>8. ASSUME NEW n \in Client, Leave(n) PROVE Kept
    <3> DEFINE c == mem[n].mode
               m == [mem[n] EXCEPT !.keys[c] = None,
                                   !.protected = mem[n].protected \ {c},
                                   !.creators[c] = None, !.commitments[c] = None,
                                   !.passwords[c] = None,
                                   !.active = mem[n].active \ {c}, !.mode = None]
    <3>1. file' = [file EXCEPT ![n] = Saved(m)] /\ at[n] # "off" /\ c # None
      BY <2>8 DEF Leave
    <3>2. mem[n] \in ClientState
      BY Before
    <3>3. m \in ClientState /\ m.passwords = [mem[n].passwords EXCEPT ![c] = None]
      BY <3>1, <3>2 DEF ClientState
    <3> HIDE DEF m
    <3>4. \A d \in Channel : d # c => m.passwords[d] = mem[n].passwords[d]
      BY <3>2, <3>3 DEF ClientState
    <3> QED
      BY <2>3, <2>8, <3>1, <3>3, <3>4
  <2>9. ASSUME NEW n \in Client,
               \/ Start(n) \/ Load(n) \/ Restore(n) \/ Crash(n)
               \/ \E p \in packets : display_message(n, p)
               \/ \E c \in Channel : \/ JoinAgain(n, c)
                                     \/ \E p \in Password \cup {None} : JoinOpen(n, c, p)
               \/ \E c \in Channel \cup {None} : Switch(n, c)
               \/ \E p \in Password : Pass(n, p)
               \/ PassNotify(n) \/ PassAnnounce(n) \/ PassRaises(n)
               \/ SayEncrypted(n) \/ SayPlain(n)
        PROVE  Kept
    <3>1. file' = file
      BY <2>9 DEF Start, Load, Restore, Crash, display_message, JoinAgain, JoinOpen, Switch, Pass,
                  PassNotify, PassAnnounce, PassRaises, SayEncrypted, SayPlain
    <3> QED
      BY <2>1, <3>1
  <2> QED
    BY <2>4, <2>5, <2>6, <2>7, <2>8, <2>9, <2>10 DEF Next, Command
<1> QED
  BY <1>1, ChannelInvariant, PTL DEF Spec, PasswordsKept
=============================================================================
