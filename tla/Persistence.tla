----------------------------- MODULE Persistence -----------------------------
(***************************************************************************)
(* bitchat/persistence.py and its use by daemon/mesh.py: the state file,   *)
(* the AppState a node loads from it, the fields MeshNode copies out of    *)
(* it, and the saves that the API and channel announcements cause.  The    *)
(* process may be killed at any point and started again; a save empties    *)
(* the file before it writes.                                              *)
(***************************************************************************)
EXTENDS Naturals

CONSTANTS
    Channel,      \* channel names
    Creator,      \* peer ids that announcements name as creators
    Nickname,     \* nicknames set over the API
    ConfigName,   \* node.nickname of the configuration, or "" if it is empty
    MaxIdentity   \* bound: identity keys generated

NoName == ""

ASSUME PersistenceAssumption ==
    /\ NoName \notin Nickname \cup Creator
    /\ MaxIdentity \in Nat \ {0}

VARIABLES
    file,       \* state.json: its form, and its content if whole
    process,    \* "down", "loading", "up", "saving", "stopping"
    app,        \* app_state
    nickname,   \* mesh.nickname
    protected,  \* mesh.password_protected_channels, a copy
    keys,       \* channels with an entry in mesh.channel_keys
    discovered, \* mesh.discovered_channels, which /status lists
    identities, \* identity keys generated so far
    lastSaved,  \* the AppState of the last save that was completed
    harmed      \* a save was ever cut short

persistenceVars == <<file, process, app, nickname, protected, keys, discovered,
                     identities, lastSaved, harmed>>

AppState == [nickname : Nickname \cup {ConfigName, NoName}, protected : SUBSET Channel,
             commitments : SUBSET Channel, passwords : SUBSET Channel,
             creators : [Channel -> Creator \cup {NoName}], identity : 0..MaxIdentity]

(* AppState() of the dataclass: no identity key yet                        *)
Fresh == [nickname |-> NoName, protected |-> {}, commitments |-> {}, passwords |-> {},
          creators |-> [c \in Channel |-> NoName], identity |-> 0]

Torn == [form |-> "torn", state |-> Fresh]
Whole(state) == [form |-> "whole", state |-> state]

PersistenceTypeOK ==
    /\ file \in [form : {"absent", "torn", "whole"}, state : AppState]
    /\ process \in {"down", "loading", "up", "saving", "stopping"}
    /\ app \in AppState
    /\ nickname \in Nickname \cup {ConfigName, NoName}
    /\ protected \subseteq Channel
    /\ keys \subseteq app.passwords
    /\ discovered \subseteq Channel
    /\ identities \in 0..MaxIdentity
    /\ lastSaved \in AppState
    /\ harmed \in BOOLEAN

(* The daemon finds no file, or one the chat client left with a password.  *)
PersistenceInit ==
    /\ \/ /\ file = [form |-> "absent", state |-> Fresh]
          /\ identities = 0 /\ lastSaved = Fresh
       \/ \E C \in SUBSET Channel :
            /\ lastSaved = [Fresh EXCEPT !.protected = C, !.passwords = C, !.identity = 1]
            /\ file = Whole(lastSaved) /\ identities = 1
    /\ process = "down"
    /\ app = Fresh
    /\ nickname = NoName /\ protected = {} /\ keys = {} /\ discovered = {}
    /\ harmed = FALSE

----------------------------------------------------------------------------
ParsedWithoutIdentity ==
    IF file.form # "whole" THEN Fresh ELSE [file.state EXCEPT !.identity = 0]

(* load_state                                                              *)
Parsed == IF file.form # "whole" THEN Fresh ELSE file.state

(* MeshNode.__init__: the configured nickname wins, channel keys come from *)
(* the passwords, and no channel is discovered yet.  Commitments and       *)
(* creators are dictionaries that the mesh and app_state share.            *)
Restored(state) ==
    /\ nickname' = IF ConfigName # NoName THEN ConfigName ELSE state.nickname
    /\ protected' = state.protected
    /\ keys' = state.passwords
    /\ discovered' = {}

LoadState ==
    /\ process = "down"
    /\ Parsed.identity # 0
    /\ process' = "up"
    /\ app' = Parsed
    /\ Restored(Parsed)
    /\ UNCHANGED <<file, identities, lastSaved, harmed>>

(* A state without identity key gets one and is saved at once.             *)
LoadFreshState ==
    /\ process = "down"
    /\ Parsed.identity = 0 /\ identities < MaxIdentity
    /\ identities' = identities + 1
    /\ app' = [Parsed EXCEPT !.identity = identities + 1]
    /\ file' = Torn
    /\ process' = "loading"
    /\ UNCHANGED <<nickname, protected, keys, discovered, lastSaved, harmed>>

FreshStateSaved ==
    /\ process = "loading"
    /\ file' = Whole(app) /\ lastSaved' = app
    /\ process' = "up"
    /\ Restored(app)
    /\ UNCHANGED <<app, identities, harmed>>

----------------------------------------------------------------------------
(* save_state opens the file for writing, which empties it.  The fields of *)
(* the mesh go into app_state first.                                       *)
SaveBegins(name, prot, next) ==
    /\ app' = [app EXCEPT !.nickname = name, !.protected = prot]
    /\ file' = Torn
    /\ process' = next

(* After a save the node serves on, or the process ends and its memory is  *)
(* gone.                                                                   *)
Forgotten ==
    /\ process' = "down"
    /\ app' = Fresh
    /\ nickname' = NoName /\ protected' = {} /\ keys' = {} /\ discovered' = {}

AfterSave ==
    \/ /\ process = "saving" /\ process' = "up"
       /\ UNCHANGED <<app, nickname, protected, keys, discovered>>
    \/ process = "stopping" /\ Forgotten

SaveEnds ==
    /\ AfterSave
    /\ file' = Whole(app) /\ lastSaved' = app
    /\ UNCHANGED <<identities, harmed>>

(* An error while writing is only logged.                                  *)
SaveFails ==
    /\ AfterSave
    /\ harmed' = TRUE
    /\ UNCHANGED <<file, identities, lastSaved>>

(* PUT /name                                                               *)
SetName(n) ==
    /\ process = "up"
    /\ nickname' = n
    /\ SaveBegins(n, protected, "saving")
    /\ UNCHANGED <<protected, keys, discovered, identities, lastSaved, harmed>>

(* creators once an announcement is read that may name one                 *)
WithCreator(c, creator) ==
    [app.creators EXCEPT ![c] = IF creator = NoName THEN app.creators[c] ELSE creator]

AnnouncedUnsaved(c, creator, prot, comm, pops) ==
    /\ protected' = prot
    /\ keys' = keys \ pops
    /\ discovered' = discovered \cup {c}
    /\ app' = [app EXCEPT !.commitments = comm, !.creators = WithCreator(c, creator)]
    /\ UNCHANGED <<file, process>>

(* The announcement of a channel is stored and saved, but for the set of   *)
(* discovered channels, which is in no AppState.                           *)
Announced(c, creator, prot, comm, pops) ==
    /\ protected' = prot
    /\ keys' = keys \ pops
    /\ discovered' = discovered \cup {c}
    /\ app' = [app EXCEPT !.nickname = nickname, !.protected = prot,
                          !.commitments = comm, !.creators = WithCreator(c, creator)]
    /\ file' = Torn
    /\ process' = "saving"

(* _handle_channel_announce for a channel with a password, with or without *)
(* a key commitment, and for an open one                                   *)
HandleProtectedAnnounce(c, creator, hasCommitment) ==
    /\ process = "up"
    /\ Announced(c, creator, protected \cup {c},
                 IF hasCommitment THEN app.commitments \cup {c} ELSE app.commitments, {})
    /\ UNCHANGED <<nickname, identities, lastSaved, harmed>>

HandleOpenAnnounce(c, creator) ==
    /\ process = "up"
    /\ Announced(c, creator, protected \ {c}, app.commitments \ {c}, {c})
    /\ UNCHANGED <<nickname, identities, lastSaved, harmed>>

(* Daemon.stop                                                             *)
StopSaving ==
    /\ process = "up"
    /\ SaveBegins(nickname, protected, "stopping")
    /\ UNCHANGED <<nickname, protected, keys, discovered, identities, lastSaved, harmed>>

(* The process is killed.                                                  *)
Crash ==
    /\ process # "down"
    /\ Forgotten
    /\ harmed' = (harmed \/ process # "up")
    /\ UNCHANGED <<file, identities, lastSaved>>

PersistenceNext ==
    \/ LoadState \/ LoadFreshState \/ FreshStateSaved
    \/ SaveEnds \/ SaveFails \/ StopSaving \/ Crash
    \/ \E n \in Nickname : SetName(n)
    \/ \E c \in Channel, p \in Creator \cup {NoName} :
         \/ HandleOpenAnnounce(c, p)
         \/ \E b \in BOOLEAN : HandleProtectedAnnounce(c, p, b)

PersistenceSpec == PersistenceInit /\ [][PersistenceNext]_persistenceVars

----------------------------------------------------------------------------
(* Properties                                                              *)

(* Protection, commitments and creators of channels are in the file as the *)
(* node has them while it serves, unless a save was cut short, so that a   *)
(* crash between saves loses none of them (mesh.py:590-603, api.py:141).   *)
ChannelsOnDisk ==
    process = "up" /\ ~harmed =>
      /\ file = Whole(lastSaved)
      /\ file.state.protected = protected
      /\ file.state.commitments = app.commitments
      /\ file.state.creators = app.creators

(* As long as no save is cut short the node keeps its first identity key,  *)
(* through restarts and crashes (persistence.py:79-87).                    *)
IdentityKept == ~harmed /\ process = "up" => app.identity = 1 /\ file.state.identity = 1

=============================================================================
