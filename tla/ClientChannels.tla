--------------------------- MODULE ClientChannels ---------------------------
(***************************************************************************)
(* Password-protected channels of the chat client, bitchat.py: owners,     *)
(* keys, commitments and saved passwords of several clients, the commands  *)
(* that change them, the announcements the clients make to each other, the *)
(* state file and restarts.                                                *)
(*                                                                         *)
(* Keys and commitments are symbolic: derive_channel_key() and SHA-256     *)
(* have no collisions, so the password of a channel stands for its key and *)
(* for the commitment to it. Packets are lost, delayed, repeated and       *)
(* reordered at will: a packet once sent may be received at any time.      *)
(* A client has a new random peer id in each run. Names of channels and    *)
(* passwords that a command refuses for their form are left out, so are    *)
(* direct messages. Nothing but the end of the process can come between    *)
(* the parts of a save, so a save is one step or a step of Torn.           *)
(***************************************************************************)
EXTENDS Naturals, FiniteSets

CONSTANTS
    Client, Channel, Password,
    None,
    MaxRuns,    \* bound: runs of one client
    MaxStarts,  \* bound: runs of all clients
    MaxPackets  \* bound: different packets that are not lost

ASSUME ClientChannelsAssumption ==
    /\ None \notin Password \cup Channel \cup (Client \X (1..MaxRuns))
    /\ MaxRuns \in Nat \ {0} /\ {MaxStarts, MaxPackets} \subseteq Nat

VARIABLES
    at,       \* where run() is: off, connecting (in connect()), greeting (in
              \* handshake()), merged (there, and app_state has been given the
              \* fields of the client), prompt, or in a send of /pass
    runs,     \* how often the client was started: this makes its peer id
    mem,      \* the fields of BitchatClient and of its app_state
    file,     \* the client's state.json
    job,      \* the local variables of /pass
    packets,  \* everything that was sent
    secured,  \* whether this run has set or given the password of a channel,
              \* and rejoined it without one since: a history
    leaked    \* the like of the channels that got a plain message: a history

vars == <<at, runs, mem, file, job, packets, secured, leaked>>

PeerId == Client \X (1..MaxRuns)
my_peer_id(n) == <<n, runs[n]>>

Nothing == [c \in Channel |-> None]

\* What load_state() gives without a file, and the part of it that is saved.
NewAppState == [creators |-> Nothing, protected |-> {}, commitments |-> Nothing,
                passwords |-> Nothing]

\* BitchatClient.__init__; passwords is app_state.encrypted_channel_passwords.
NewClient ==
    [creators |-> Nothing, protected |-> {}, commitments |-> Nothing,
     passwords |-> Nothing, keys |-> Nothing, active |-> {}, mode |-> None]

Unsecured == [c \in Channel |-> "no"]

Saved(m) == [creators |-> m.creators, protected |-> m.protected,
             commitments |-> m.commitments, passwords |-> m.passwords]

NoJob == [channel |-> None, key |-> None, old |-> None]

ChannelAnnounceSwapped(n, c, protected, commitment) ==
    [kind |-> "announce", from |-> my_peer_id(n), channel |-> c,
     protected |-> ~protected, key |-> commitment]

\* send_channel_announce(): the creator it names is the sender.
ChannelAnnounce(n, c, protected, commitment) ==
    [kind |-> "announce", from |-> my_peer_id(n), channel |-> c,
     protected |-> protected, key |-> commitment]
ChannelMessage(n, c, key) ==
    [kind |-> "message", from |-> my_peer_id(n), channel |-> c,
     protected |-> TRUE, key |-> key]

\* send_packet() without a link sends nothing.
Send(p) ==
    \/ UNCHANGED packets
    \/ /\ Cardinality(packets \cup {p}) <= MaxPackets
       /\ packets' = packets \cup {p}

\* switch_to_channel() and switch_to_channel_silent()
SwitchTo(m, c) == [m EXCEPT !.active = @ \cup {c}, !.mode = c]

-----------------------------------------------------------------------------
(* Starting and stopping.                                                  *)

\* __init__ and connect(), up to its last await: it has subscribed to the
\* notifications, and app_state is still an empty one.
Start(n) ==
    /\ at[n] = "off" /\ runs[n] < MaxRuns
    /\ Cardinality({id \in PeerId : id[2] <= runs[id[1]]}) < MaxStarts
    /\ runs' = [runs EXCEPT ![n] = @ + 1]
    /\ at' = [at EXCEPT ![n] = "connecting"]
    /\ UNCHANGED <<mem, file, job, packets, secured, leaked>>

LoadLater(n) ==
    /\ at[n] = "connecting"
    /\ at' = [at EXCEPT ![n] = "greeting"]
    /\ UNCHANGED <<runs, mem, file, job, packets, secured, leaked>>

\* The head of handshake(): app_state is loaded, the fields of the client stay
\* what they are.
Load(n) ==
    /\ at[n] = "connecting"
    /\ mem' = [mem EXCEPT ![n].passwords = file[n].passwords]
    /\ at' = [at EXCEPT ![n] = "greeting"]
    /\ UNCHANGED <<runs, file, job, packets, secured, leaked>>

\* The end of handshake(), after its sends. The fields are taken from app_state,
\* which is what the file has, unless a save has made it the fields themselves.
Restore(n) ==
    /\ at[n] \in {"greeting", "merged"}
    /\ LET app == IF at[n] = "greeting" THEN file[n] ELSE Saved(mem[n])
           m == [mem[n] EXCEPT
                   !.creators = app.creators,
                   !.protected = app.protected,
                   !.commitments = app.commitments,
                   !.keys = [c \in Channel |-> IF mem[n].passwords[c] # None
                                               THEN mem[n].passwords[c] ELSE @[c]]]
       IN  mem' = [mem EXCEPT ![n] = m]
    /\ at' = [at EXCEPT ![n] = "prompt"]
    /\ UNCHANGED <<runs, file, job, packets, secured, leaked>>

\* The end of the process. What the next one reads is as if it had just begun.
Ends(n) ==
    /\ at' = [at EXCEPT ![n] = "off"]
    /\ mem' = [mem EXCEPT ![n] = NewClient]
    /\ job' = [job EXCEPT ![n] = NoJob]
    /\ secured' = [secured EXCEPT ![n] = Unsecured]
    /\ UNCHANGED <<runs, leaked>>

\* /exit
Exit(n) ==
    /\ at[n] = "prompt"
    /\ Ends(n)
    /\ file' = [file EXCEPT ![n] = Saved(mem[n])]
    /\ UNCHANGED packets

\* Control-C, an exception out of run(), or a kill: nothing is saved.
Crash(n) ==
    /\ at[n] # "off"
    /\ Ends(n)
    /\ UNCHANGED <<file, packets>>

Heard(n, p) == at[n] # "off" /\ p.from # my_peer_id(n)

\* A kill while save_state() has truncated the file and not written it yet, in a
\* command, behind the last send of /pass, or in the handler of an announcement.
\* load_state() takes such a file for no file.
Torn(n) ==
    /\ \/ at[n] = "prompt" /\ UNCHANGED packets
       \/ at[n] = "init" /\ Send(ChannelMessage(n, job[n].channel, job[n].key))
       \/ /\ \E p \in packets : Heard(n, p) /\ p.kind = "announce"
          /\ UNCHANGED packets
    /\ Ends(n)
    /\ file' = [file EXCEPT ![n] = NewAppState]

-----------------------------------------------------------------------------
(* What other clients send.                                                *)

\* Whoever announces a channel is its owner from then on.
handle_channel_announce(n, p) ==
    /\ Heard(n, p) /\ p.kind = "announce"
    /\ LET c == p.channel
           m == [mem[n] EXCEPT !.creators[c] = p.from, !.active = @ \cup {c}]
           told == IF p.protected
                   THEN [m EXCEPT !.protected = @ \cup {c},
                                  !.commitments[c] = IF p.key # None THEN p.key ELSE @]
                   ELSE [m EXCEPT !.protected = @ \ {c},
                                  !.keys[c] = None, !.commitments[c] = None]
       IN  /\ mem' = [mem EXCEPT ![n] = told]
           /\ file' = [file EXCEPT ![n] = Saved(told)]
    /\ at' = [at EXCEPT ![n] = IF @ = "greeting" THEN "merged" ELSE @]
    /\ UNCHANGED <<runs, job, packets, secured, leaked>>

\* An encrypted message marks its channel as protected, without a save.
display_message(n, p) ==
    /\ Heard(n, p) /\ p.kind = "message"
    /\ mem' = [mem EXCEPT ![n] = [mem[n] EXCEPT !.protected = @ \cup {p.channel}]]
    /\ UNCHANGED <<at, runs, file, job, packets, secured, leaked>>

-----------------------------------------------------------------------------
(* The commands: /j, /pass, /transfer, /leave, switching and messages.     *)

\* /j of a protected channel the client has the key of: whatever password was
\* given is not looked at.
JoinAgain(n, c) ==
    /\ at[n] = "prompt"
    /\ c \in mem[n].protected /\ mem[n].keys[c] # None
    /\ mem' = [mem EXCEPT ![n] = SwitchTo(mem[n], c)]
    /\ UNCHANGED <<at, runs, file, job, packets, secured, leaked>>

\* /j of a protected channel with a password that fits the commitment, if
\* there is one. The announcement names the client itself as the creator.
JoinProtected(n, c, p) ==
    /\ at[n] = "prompt"
    /\ c \in mem[n].protected /\ mem[n].keys[c] = None
    /\ mem[n].commitments[c] \in {None, p}
    /\ LET m == [mem[n] EXCEPT !.keys[c] = p, !.passwords[c] = p]
       IN  \* save_app_state() comes before the switch to the channel
           /\ file' = [file EXCEPT ![n] = Saved(m)]
           /\ mem' = [mem EXCEPT ![n] = SwitchTo(m, c)]
    /\ IF mem[n].creators[c] # None
       THEN Send(ChannelAnnounce(n, c, TRUE, p)) ELSE UNCHANGED packets
    /\ secured' = [secured EXCEPT ![n][c] = "yes"]
    /\ UNCHANGED <<at, runs, job, leaked>>

\* /j of a channel not known as protected: with a password, the key is kept in
\* memory only; without one, a key is dropped.
JoinOpen(n, c, p) ==
    /\ at[n] = "prompt"
    /\ c \notin mem[n].protected
    /\ mem' = [mem EXCEPT ![n] = SwitchTo([mem[n] EXCEPT !.keys[c] = p], c)]
    /\ IF p # None /\ mem[n].creators[c] # None
       THEN Send(ChannelAnnounce(n, c, TRUE, p)) ELSE UNCHANGED packets
    /\ secured' = [secured EXCEPT ![n][c] = IF p # None THEN "yes"
                                            ELSE IF @ = "no" THEN "no" ELSE "reopened"]
    /\ UNCHANGED <<at, runs, file, job, leaked>>

\* A number picks an active channel, /public leaves it.
Switch(n, c) ==
    /\ at[n] = "prompt"
    /\ c \in mem[n].active \cup {None}
    /\ mem' = [mem EXCEPT ![n] = [mem[n] EXCEPT !.mode = c]]
    /\ UNCHANGED <<at, runs, file, job, packets, secured, leaked>>

LeaveAsOwner(n) ==
    /\ at[n] = "prompt" /\ mem[n].mode # None
    /\ LET c == mem[n].mode
           m == [mem[n] EXCEPT !.keys[c] = None, !.protected = @ \ {c},
                               !.commitments[c] = None, !.passwords[c] = None,
                               !.active = @ \ {c}, !.mode = None]
       IN  /\ mem' = [mem EXCEPT ![n] = m]
           /\ file' = [file EXCEPT ![n] = Saved(m)]
           /\ secured' = [secured EXCEPT ![n][c] = "no"]
    /\ UNCHANGED <<at, runs, job, packets, leaked>>

\* /leave: the send comes first, the channel was read before it.
Leave(n) ==
    /\ at[n] = "prompt" /\ mem[n].mode # None
    /\ LET c == mem[n].mode
           m == [mem[n] EXCEPT !.keys[c] = None, !.protected = @ \ {c},
                               !.creators[c] = None, !.commitments[c] = None,
                               !.passwords[c] = None, !.active = @ \ {c},
                               !.mode = None]
       IN  /\ mem' = [mem EXCEPT ![n] = m]
           /\ file' = [file EXCEPT ![n] = Saved(m)]
           /\ secured' = [secured EXCEPT ![n][c] = "no"]
    /\ UNCHANGED <<at, runs, job, packets, leaked>>

\* /pass up to its first send: the channel is claimed if it has no owner.
Pass(n, p) ==
    /\ at[n] = "prompt" /\ mem[n].mode # None
    /\ LET c == mem[n].mode
           m == [mem[n] EXCEPT !.creators[c] = my_peer_id(n), !.keys[c] = p,
                               !.protected = @ \cup {c}, !.passwords[c] = p,
                               !.commitments[c] = p]
       IN  /\ mem[n].creators[c] \in {None, my_peer_id(n)}
           /\ mem' = [mem EXCEPT ![n] = m]
           /\ job' = [job EXCEPT ![n] = [channel |-> c, key |-> p, old |-> mem[n].keys[c]]]
           /\ secured' = [secured EXCEPT ![n][c] = "yes"]
    /\ at' = [at EXCEPT ![n] = IF job'[n].old # None THEN "notify" ELSE "announce"]
    /\ UNCHANGED <<runs, file, packets, leaked>>

\* The notice under the old key; an exception here is ignored.
PassNotify(n) ==
    /\ at[n] = "notify"
    /\ Send(ChannelMessage(n, job[n].channel, job[n].old))
    /\ at' = [at EXCEPT ![n] = "announce"]
    /\ UNCHANGED <<runs, mem, file, job, secured, leaked>>

PassAnnounce(n) ==
    /\ at[n] = "announce"
    /\ Send(ChannelAnnounce(n, job[n].channel, TRUE, job[n].key))
    /\ at' = [at EXCEPT ![n] = "init"]
    /\ UNCHANGED <<runs, mem, file, job, secured, leaked>>

\* The message under the new key, and the save.
PassInit(n) ==
    /\ at[n] = "init"
    /\ Send(ChannelMessage(n, job[n].channel, job[n].key))
    /\ file' = [file EXCEPT ![n] = Saved(mem[n])]
    /\ at' = [at EXCEPT ![n] = "prompt"]
    /\ job' = [job EXCEPT ![n] = NoJob]
    /\ UNCHANGED <<runs, mem, secured, leaked>>

\* An exception in the second or third send ends the command without the save.
PassRaises(n) ==
    /\ at[n] \in {"announce", "init"}
    /\ at' = [at EXCEPT ![n] = "prompt"]
    /\ job' = [job EXCEPT ![n] = NoJob]
    /\ UNCHANGED <<runs, mem, file, packets, secured, leaked>>

\* /transfer to a peer: the announcement names the old owner again.
Transfer(n, peer) ==
    /\ at[n] = "prompt" /\ mem[n].mode # None
    /\ peer[1] # n /\ peer[2] <= runs[peer[1]]
    /\ LET c == mem[n].mode
           m == [mem[n] EXCEPT !.creators[c] = peer]
       IN  /\ mem[n].creators[c] = my_peer_id(n)
           /\ mem' = [mem EXCEPT ![n] = m]
           /\ file' = [file EXCEPT ![n] = Saved(m)]
           /\ Send(ChannelAnnounce(n, c, c \in m.protected,
                                   IF c \in m.protected THEN m.keys[c] ELSE None))
    /\ UNCHANGED <<at, runs, job, secured, leaked>>

\* send_public_message(): refused without the key of a protected channel,
\* encrypted with a key, plain otherwise.
SayEncrypted(n) ==
    /\ at[n] = "prompt" /\ mem[n].mode # None
    /\ mem[n].keys[mem[n].mode] # None
    /\ Send(ChannelMessage(n, mem[n].mode, mem[n].keys[mem[n].mode]))
    /\ UNCHANGED <<at, runs, mem, file, job, secured, leaked>>

SayPlain(n) ==
    /\ at[n] = "prompt" /\ mem[n].mode # None
    /\ mem[n].keys[mem[n].mode] = None
    /\ mem[n].mode \notin mem[n].protected
    /\ leaked' = leaked \cup ({secured[n][mem[n].mode]} \ {"no"})
    /\ UNCHANGED <<at, runs, mem, file, job, packets, secured>>

-----------------------------------------------------------------------------
Init ==
    /\ at = [n \in Client |-> "off"]
    /\ runs = [n \in Client |-> 0]
    /\ mem = [n \in Client |-> NewClient]
    /\ file = [n \in Client |-> NewAppState]
    /\ job = [n \in Client |-> NoJob]
    /\ packets = {}
    /\ secured = [n \in Client |-> Unsecured]
    /\ leaked = {}

Command(n) ==
    \/ \E c \in Channel : \/ JoinAgain(n, c)
                          \/ \E p \in Password : JoinProtected(n, c, p)
                          \/ \E p \in Password \cup {None} : JoinOpen(n, c, p)
    \/ \E c \in Channel \cup {None} : Switch(n, c)
    \/ Leave(n)
    \/ \E p \in Password : Pass(n, p)
    \/ PassNotify(n) \/ PassAnnounce(n) \/ PassInit(n) \/ PassRaises(n)
    \/ \E peer \in PeerId : Transfer(n, peer)
    \/ SayEncrypted(n) \/ SayPlain(n)

Next ==
    \E n \in Client :
        \/ Start(n) \/ Load(n) \/ Restore(n) \/ Exit(n) \/ Crash(n) \/ Torn(n)
        \/ \E p \in packets : handle_channel_announce(n, p) \/ display_message(n, p)
        \/ Command(n)

Spec == Init /\ [][Next]_vars

-----------------------------------------------------------------------------
(* Properties.                                                             *)

AppState == [creators : [Channel -> PeerId \cup {None}],
             protected : SUBSET Channel,
             commitments : [Channel -> Password \cup {None}],
             passwords : [Channel -> Password \cup {None}]]

ClientState == [creators : [Channel -> PeerId \cup {None}],
                protected : SUBSET Channel,
                commitments : [Channel -> Password \cup {None}],
                passwords : [Channel -> Password \cup {None}],
                keys : [Channel -> Password \cup {None}],
                active : SUBSET Channel,
                mode : Channel \cup {None}]

Job == [channel : Channel, key : Password, old : Password \cup {None}]

Packet == [kind : {"announce", "message"}, from : PeerId, channel : Channel,
           protected : BOOLEAN, key : Password \cup {None}]

\* The variables have their types, and /pass has its channel and password for
\* as long as it runs.
ClientChannelsTypeOK ==
    /\ at \in [Client -> {"off", "connecting", "greeting", "merged", "prompt",
                          "notify", "announce", "init"}]
    /\ runs \in [Client -> 0..MaxRuns]
    /\ mem \in [Client -> ClientState]
    /\ file \in [Client -> AppState]
    /\ job \in [Client -> Job \cup {NoJob}]
    /\ packets \subseteq Packet
    /\ secured \in [Client -> [Channel -> {"no", "yes", "reopened"}]]
    /\ leaked \subseteq {"yes", "reopened"}
    /\ \A n \in Client :
         /\ at[n] # "off" => runs[n] > 0
         /\ at[n] \in {"notify", "announce", "init"} => job[n] \in Job
         /\ at[n] = "notify" => job[n].old # None
         /\ mem[n].mode \in mem[n].active \cup {None}

\* A client that takes itself for the owner of a channel can use it: the channel
\* is protected, the key, its commitment and the saved password belong together.
\* So /transfer never announces a protected channel as open, whatever
\* announcements arrive between the steps of /pass (bitchat.py:1122, 2011, 2106).
OwnerReady ==
    \A n \in Client : at[n] # "off" => \A c \in Channel :
        mem[n].creators[c] = my_peer_id(n) =>
            /\ c \in mem[n].protected
            /\ mem[n].keys[c] # None
            /\ mem[n].commitments[c] = mem[n].keys[c]
            /\ mem[n].passwords[c] = mem[n].keys[c]

\* In one run, a client that has set or given the password of a channel sends
\* nothing in plain to it until it leaves, or joins it without a password while
\* it does not know it as protected: no announcement, rejoin or switch takes the
\* key or the protection away (bitchat.py:1130, 1763, 2127).
NoPlaintext == "yes" \notin leaked

\* A password on disk is given up only by /leave, by a kill in the middle of a
\* save, and by an announcement that comes before the state is loaded: not by
\* one that comes while handshake() has loaded the state and not yet restored
\* it, by a crash between the parts of /pass, or by a restart
\* (bitchat.py:389, 449, 1135, 1493).
PasswordsKept ==
    [][\A n \in Client : \A c \in Channel :
          file[n].passwords[c] # None =>
              \/ file'[n].passwords[c] # None
              \/ mem[n].mode = c /\ Leave(n)
              \/ Torn(n)
              \/ at[n] = "connecting"]_vars

=============================================================================
