----------------------------- MODULE ClientNoise -----------------------------
(***************************************************************************)
(* Private messages of the chat client in bitchat.py: one client, its      *)
(* EncryptionService (encryption.py), and one peer that speaks the same    *)
(* protocol over a radio that loses, delays and reorders.                  *)
(*                                                                         *)
(* bleak runs every notification handler as a task, and send_packet()      *)
(* sleeps before it writes, so a handler is suspended between what it has  *)
(* changed and what it does once its packet is out; what it finds then may *)
(* be of another session, or of none.  A task is a record: what it goes on *)
(* with (do), the packet it is writing (out), and the private messages it  *)
(* has still to send (msgs).                                               *)
(*                                                                         *)
(* Cryptography is symbolic.  A handshake and the session it ends in are   *)
(* told apart by the ephemeral key the client made for them, a number; the *)
(* key of the peer comes with the message that answers or completes it.    *)
(* Outside the model: how the link is found and lost (ClientLink), the     *)
(* counters of the peer (NoiseMesh has both sides), and DELIVERY_ACK       *)
(* packets on their way: the client encrypts one for every message it      *)
(* shows, and handle_packet() ignores those of the peer.                   *)
(***************************************************************************)
EXTENDS Naturals, Sequences, FiniteSets, Bags

CONSTANTS
    Mine,       \* private messages the user sends, each once
    Theirs,     \* private messages of the peer
    MaxKeys,    \* bound: ephemeral keys the client makes
    MaxTasks    \* bound: tasks suspended at one time

ASSUME ClientNoiseAssumption ==
    /\ IsFiniteSet(Mine) /\ IsFiniteSet(Theirs)
    /\ Mine \cap Theirs = {}
    /\ MaxKeys \in Nat /\ MaxTasks \in Nat

VARIABLES
    lower,      \* my_peer_id < the id of the peer
    st,         \* the fields of the client that concern the peer
    tasks,      \* the suspended tasks, a bag
    heard,      \* handshake messages of the client that reached the peer, as
                \* long as they belong to its handshake or session
    submitted,  \* messages the user has typed
    sealed      \* every ciphertext made so far: a history

vars == <<lower, st, tasks, heard, submitted, sealed>>

-----------------------------------------------------------------------------
(* Data                                                                    *)

Role == {"initiator", "responder"}
NoHandshake == [role |-> "none", key |-> 0]
NoSession == [role |-> "none", key |-> 0, sn |-> 0]

Handshake == [role : Role, key : 1..MaxKeys] \cup {NoHandshake}
Session == [role : Role, key : 1..MaxKeys, sn : Nat] \cup {NoSession}

\* A handshake message, and the key of the client it belongs to: m1 and m3 of an
\* initiator, m2 of a responder. Key 0 is a static key in place of an m1.
M(type, kind, key) == [type |-> type, kind |-> kind, key |-> key]
HandshakePacket == [type : {"init", "resp", "exchange"},
                    kind : {"m1", "m2", "m3"}, key : 0..MaxKeys]
Ciphertext == [type : {"encrypted", "ack"}, role : Role, key : 1..MaxKeys,
               nonce : Nat, id : Mine \cup Theirs]
Hello == [type : {"identity", "announce"}]
NoPacket == [type |-> "none"]

Identity == [type |-> "identity"]
Announcement == [type |-> "announce"]
LegacyKey == M("exchange", "m1", 0)

Task == [do : {"identity", "instead", "announce", "plain", "fallback", "answer",
               "exchange", "auth", "slept", "user", "flush"},
         out : Hello \cup HandshakePacket \cup Ciphertext \cup {NoPacket},
         msgs : Seq(Mine)]

Sending(do, out) == [do |-> do, out |-> out, msgs |-> <<>>]
Waiting(do) == Sending(do, NoPacket)

\* send_packet() up to its first await: without a client it has returned.
Started(s, do, out) == IF s.linked THEN {Sending(do, out)} ELSE {}

\* What is left of a task that has sent out and still has msgs to send.
Rest(do, out, msgs) ==
    IF out = NoPacket /\ msgs = <<>> THEN {}
    ELSE {[do |-> do, out |-> out, msgs |-> msgs]}

State == [linked : BOOLEAN,         \* client and characteristic are set
          hears : BOOLEAN,          \* notifications arrive
          known : BOOLEAN,          \* the peer is in self.peers
          blocked : BOOLEAN,        \* its fingerprint is in self.blocked_peers
          made : 0..MaxKeys,        \* ephemeral keys made
          hs : Handshake,           \* handshake_states
          session : Session,        \* sessions
          queue : Seq(Mine),        \* pending_private_messages
          tried : BOOLEAN,          \* handshake_attempt_times has a recent time
          shown : SUBSET Theirs]    \* processed_messages

Established(s) == s.session.role # "none"

-----------------------------------------------------------------------------
(* What the code does to the fields, as functions of them.                 *)

\* handle_disconnect(); the times of the attempts stay.
Dropped(s) ==
    [s EXCEPT !.linked = FALSE, !.known = FALSE, !.hs = NoHandshake,
              !.session = NoSession, !.queue = <<>>]

\* initiate_handshake(): what there was is gone, a session too.
Initiated(s) ==
    [s EXCEPT !.made = s.made + 1, !.session = NoSession,
              !.hs = [role |-> "initiator", key |-> s.made + 1]]

FirstMessage(s, type) == M(type, "m1", s.made + 1)

SealReusing(s) == s

\* session.encrypt(): the nonce counts up.
Seal(s) == [s EXCEPT !.session.sn = s.session.sn + 1]

Cipher(type, s, m) ==
    [type |-> type, role |-> s.session.role, key |-> s.session.key,
     nonce |-> s.session.sn, id |-> m]

\* send_private_message() without a session.
Requeue(s, m) == [s EXCEPT !.queue = Append(s.queue, m)]

PendingCopied(s) == s

\* The pop() of send_pending_private_messages().
PendingTaken(s) == [s EXCEPT !.queue = <<>>]

\* The client goes on with the fields s; the tasks old end, the tasks new start;
\* the handshake messages reached are those the peer has.
GoesOn(s, old, new, reached) ==
    LET now == (tasks (-) SetToBag(old)) (+) SetToBag(new)
    IN  /\ s.made <= MaxKeys
        /\ BagCardinality(now) <= MaxTasks
        /\ st' = s
        /\ tasks' = now
        /\ heard' = {m \in reached : m.key \in {s.hs.key, s.session.key}}

Goes(s, old, new) == GoesOn(s, old, new, heard)

-----------------------------------------------------------------------------
(* The link and the timers.                                                *)

\* A link is up and its notifications are on: the identity goes out.
LinkUp ==
    /\ ~st.linked
    /\ Goes([st EXCEPT !.linked = TRUE, !.hears = TRUE, !.known = FALSE],
            {}, {Sending("identity", Identity)})
    /\ UNCHANGED <<lower, submitted, sealed>>

\* It is lost, and the callback of the BleakClient runs.
LinkDown ==
    /\ st.hears
    /\ Goes([Dropped(st) EXCEPT !.hears = FALSE], {}, {})
    /\ UNCHANGED <<lower, submitted, sealed>>

CleanupOfPeer ==
    /\ Established(st)
    /\ Goes([st EXCEPT !.session = NoSession, !.queue = <<>>], {}, {})
    /\ UNCHANGED <<lower, submitted, sealed>>

\* The scanner removes a session that is an hour old.
cleanup_old_sessions ==
    /\ Established(st)
    /\ Goes([st EXCEPT !.session = NoSession], {}, {})
    /\ UNCHANGED <<lower, submitted, sealed>>

\* handshake_timeout has passed since the last attempt.
AttemptExpires ==
    /\ st.tried
    /\ Goes([st EXCEPT !.tried = FALSE], {}, {})
    /\ UNCHANGED <<lower, submitted, sealed>>

-----------------------------------------------------------------------------
(* Handlers of a notification, up to their first await.                    *)

Notification == st.hears /\ UNCHANGED <<lower, submitted>>

\* A new peer: the lower id starts a handshake whether or not there is a
\* session, the higher one sends its identity and nothing waits for that.
handle_announce ==
    /\ Notification
    /\ LET s == [st EXCEPT !.known = TRUE] IN
       \/ /\ st.known
          /\ Goes(s, {}, {})
       \/ /\ ~st.known /\ lower
          /\ Goes(Initiated(s), {}, Started(s, "fallback", FirstMessage(s, "init")))
       \/ /\ ~st.known /\ ~lower
          /\ Goes(s, {}, {})
    /\ UNCHANGED sealed

handle_noise_identity_announce ==
    /\ Notification
    /\ LET s == [st EXCEPT !.known = TRUE] IN
       IF lower /\ ~Established(s)
       THEN Goes(Initiated(s), {}, Started(s, "plain", FirstMessage(s, "init")))
       ELSE Goes(s, {}, {})
    /\ UNCHANGED sealed

\* A peer that is known takes its queue, session and handshake along, unless its
\* nickname, which the model leaves open, is empty: then they stay. A LEAVE that
\* names a channel, or of a peer that is not known, changes nothing.
handle_leave ==
    /\ Notification
    /\ st.known
    /\ \/ Goes([Dropped(st) EXCEPT !.linked = st.linked], {}, {})
       \/ Goes([st EXCEPT !.known = FALSE], {}, {})
    /\ UNCHANGED sealed

\* What the peer may send: a message 1 of its own (or any of an earlier handshake,
\* which fits no key: 0), its answer to a message 1, and the message 3 that
\* follows a message 2.
PeerMessage ==
    {M(type, "m1", 0) : type \in {"init", "resp", "exchange"}}
      \cup {M(IF m.type = "init" THEN "resp" ELSE "exchange", "m2", m.key) :
                m \in {h \in heard : h.kind = "m1" /\ h.key # 0}}
      \cup {M(IF m.type = "resp" THEN "init" ELSE m.type, "m3", m.key) :
                m \in {h \in heard : h.kind = "m2"}}

Fits(h, p) ==
    /\ p.key = h.key
    /\ \/ h.role = "initiator" /\ p.kind = "m2"
       \/ h.role = "responder" /\ p.kind = "m3"

NobodyTold == {}

\* _on_peer_authenticated() makes the task that sends what is pending.
Authenticated == {Waiting("auth")}

\* The handlers of INIT and RESP with their answer out, or none to send.
HandshakeHandled(s, old, new, reached) ==
    IF Established(s)
    THEN GoesOn([s EXCEPT !.tried = FALSE], old,
                new \cup {Waiting("slept")}, reached)
    ELSE GoesOn(s, old, new, reached)

\* handle_key_exchange() at the same place: a session with a peer that is not
\* known is given up for a new handshake.
KeyExchangeHandled(s, old, new, reached) ==
    IF Established(s) /\ ~s.known
    THEN GoesOn(Initiated(s), old,
                new \cup Started(s, "plain", FirstMessage(s, "exchange")), reached)
    ELSE GoesOn(s, old, new, reached)

\* A handler answers p, under the fields s; without a client it goes on at once.
AnswerType(type) ==
    CASE type = "init" -> "resp"
      [] type = "resp" -> "init"
      [] type = "exchange" -> "exchange"

Answers(p, s, kind, key, new) ==
    CASE s.linked ->
           Goes(s, {}, new \cup
                {Sending(IF p.type = "exchange" THEN "exchange" ELSE "answer",
                         M(AnswerType(p.type), kind, key))})
      [] ~s.linked /\ p.type = "exchange" -> KeyExchangeHandled(s, {}, new, heard)
      [] ~s.linked /\ p.type # "exchange" -> HandshakeHandled(s, {}, new, heard)

\* process_handshake_message() and the three handlers that call it.
HandshakeMessage ==
    /\ Notification
    /\ \E p \in PeerMessage :
       LET session == [st EXCEPT !.hs = NoHandshake, !.session =
                          [role |-> st.hs.role, key |-> st.hs.key, sn |-> 0]]
       IN  \/ /\ st.hs.role = "none"
              /\ Answers(p, [st EXCEPT !.made = st.made + 1, !.hs =
                                 [role |-> "responder", key |-> st.made + 1]],
                         "m2", st.made + 1, {})
           \/ /\ Fits(st.hs, p) /\ p.kind = "m2"
              /\ Answers(p, session, "m3", p.key, Authenticated)
           \/ /\ Fits(st.hs, p) /\ p.kind = "m3"
              /\ IF p.type = "exchange"
                 THEN KeyExchangeHandled(session, {}, Authenticated, heard)
                 ELSE HandshakeHandled(session, {}, Authenticated, heard)
           \/ /\ st.hs.role # "none" /\ ~Fits(st.hs, p)
              /\ Goes([st EXCEPT !.hs = NoHandshake], {}, {})
    /\ UNCHANGED sealed

\* The peer has the keys of the client's session once it has sent message 3, or
\* message 3 of the client has reached it.
PeerHasKeys ==
    \/ st.session.role = "responder"
    \/ \E m \in heard : m.kind = "m3" /\ m.key = st.session.key

\* A message that opens and is new is shown and acknowledged, under the next
\* nonce. One that does not open changes only the counter of the receiver, one of
\* a blocked peer nothing.
handle_noise_encrypted ==
    /\ Notification
    /\ Established(st) /\ PeerHasKeys
    /\ ~st.blocked
    /\ \E m \in Theirs \ st.shown :
         /\ Goes(Seal([st EXCEPT !.shown = st.shown \cup {m}]), {}, {})
         /\ sealed' = sealed \cup {Cipher("ack", st, m)}

-----------------------------------------------------------------------------
(* Private messages.                                                       *)

\* send_private_message() up to its first await, called by a task that goes on
\* with do and has rest to send.
send_private_message(m, do, old, rest) ==
    \/ /\ ~st.linked
       /\ Goes(st, old, Rest(do, NoPacket, rest))
       /\ UNCHANGED sealed
    \/ /\ st.linked /\ ~Established(st) /\ st.tried
       /\ Goes(Requeue(st, m), old, Rest(do, NoPacket, rest))
       /\ UNCHANGED sealed
    \/ /\ st.linked /\ ~Established(st) /\ ~st.tried
       /\ Goes([Initiated(Requeue(st, m)) EXCEPT !.tried = TRUE], old,
               Rest(do, FirstMessage(st, "init"), rest))
       /\ UNCHANGED sealed
    \/ /\ st.linked /\ Established(st)
       /\ Goes(Seal(st), old, Rest(do, Cipher("encrypted", st, m), rest))
       /\ sealed' = sealed \cup {Cipher("encrypted", st, m)}

\* The prompt is there unless the last line is still being handled.
AtPrompt == \A t \in BagToSet(tasks) : t.do # "user"

\* The user types a private message: with /dm to a peer that is known, or in a
\* conversation that /reply opened.
Submit ==
    /\ AtPrompt /\ st.linked
    /\ st.known \/ st.shown # {}
    /\ \E m \in Mine \ submitted :
         /\ submitted' = submitted \cup {m}
         /\ send_private_message(m, "user", {}, <<>>)
    /\ UNCHANGED lower

\* send_pending_private_messages(), up to its first sleep.
FlushStarts ==
    /\ \E t \in BagToSet(tasks) :
         /\ t.do \in {"auth", "slept"}
         /\ Goes(PendingTaken(st), {t}, Rest("flush", NoPacket, st.queue))
    /\ UNCHANGED <<lower, submitted, sealed>>

\* Its next message.
FlushNext ==
    /\ \E t \in BagToSet(tasks) :
         /\ t.do = "flush" /\ t.out = NoPacket
         /\ send_private_message(Head(t.msgs), "flush", {t}, Tail(t.msgs))
    /\ UNCHANGED <<lower, submitted>>

\* /block and /unblock: only the fingerprint of a session can be (un)blocked.
Block ==
    /\ AtPrompt /\ st.known /\ Established(st)
    /\ Goes([st EXCEPT !.blocked = ~st.blocked], {}, {})
    /\ UNCHANGED <<lower, submitted, sealed>>

-----------------------------------------------------------------------------
(* send_packet() behind its sleep.                                         *)

\* It returns, with the fields s, to the task t.
Returns(t, s, reached) ==
    CASE t.do \in {"identity", "instead"} ->
           GoesOn(s, {t}, {Sending("announce", Announcement)}, reached)
      [] t.do = "answer" -> HandshakeHandled(s, {t}, {}, reached)
      [] t.do = "exchange" -> KeyExchangeHandled(s, {t}, {}, reached)
      [] OTHER -> GoesOn(s, {t}, Rest(t.do, NoPacket, t.msgs), reached)

\* The packet is written, and reaches the peer or is lost.
Written ==
    /\ st.linked
    /\ \E t \in BagToSet(tasks) :
         /\ t.out # NoPacket
         /\ \E reached \in {{}, {t.out} \cap HandshakePacket} :
              Returns(t, st, heard \cup reached)
    /\ UNCHANGED <<lower, submitted, sealed>>

\* "not connected": the link is given up, and the task goes on.
NotConnected ==
    /\ st.linked
    /\ \E t \in BagToSet(tasks) :
         /\ t.out # NoPacket
         /\ Returns(t, [Dropped(st) EXCEPT !.hears = FALSE], heard)
    /\ UNCHANGED <<lower, submitted, sealed>>

\* Any other error, also that self.client is None by now, by the except clause
\* it reaches. The scanner forgets the link when it cannot send the announcement.
Raises ==
    /\ \E t \in BagToSet(tasks) :
         /\ t.out # NoPacket
         /\ CASE t.do = "identity" ->
                   Goes(st, {t}, {IF st.linked THEN Sending("instead", LegacyKey)
                                  ELSE Sending("announce", Announcement)})
              [] t.do \in {"instead", "announce"} ->
                   Goes([st EXCEPT !.linked = FALSE], {t}, {})
              [] t.do = "fallback" ->
                   Goes(st, {t}, Started(st, "plain", LegacyKey))
              [] t.do = "answer" ->
                   Goes([st EXCEPT !.hs = NoHandshake], {t}, {})
              [] t.do \in {"user", "flush"} /\ t.out.type = "init" ->
                   Goes([st EXCEPT !.tried = FALSE], {t},
                        Rest(t.do, NoPacket, t.msgs))
              [] OTHER -> Goes(st, {t}, Rest(t.do, NoPacket, t.msgs))
    /\ UNCHANGED <<lower, submitted, sealed>>

-----------------------------------------------------------------------------
Init ==
    /\ lower \in BOOLEAN
    /\ st = [linked |-> FALSE, hears |-> FALSE, known |-> FALSE,
             blocked |-> FALSE, made |-> 0, hs |-> NoHandshake,
             session |-> NoSession, queue |-> <<>>, tried |-> FALSE, shown |-> {}]
    /\ tasks = EmptyBag
    /\ heard = {}
    /\ submitted = {}
    /\ sealed = {}

Next ==
    \/ LinkUp \/ LinkDown \/ cleanup_old_sessions \/ AttemptExpires
    \/ handle_announce \/ handle_noise_identity_announce \/ handle_leave
    \/ HandshakeMessage \/ handle_noise_encrypted
    \/ Submit \/ FlushStarts \/ FlushNext \/ Block
    \/ Written \/ NotConnected \/ Raises

Spec == Init /\ [][Next]_vars

-----------------------------------------------------------------------------
(* Properties.                                                             *)

\* The fields, tasks and packets are what the code can make them.
ClientNoiseTypeOK ==
    /\ lower \in BOOLEAN
    /\ st \in State
    /\ IsABag(tasks) /\ BagToSet(tasks) \subseteq Task
    /\ heard \subseteq HandshakePacket
    /\ submitted \subseteq Mine
    /\ sealed \subseteq Ciphertext

Elements(q) == {q[k] : k \in DOMAIN q}

Held == Elements(st.queue) \cup UNION {Elements(t.msgs) : t \in BagToSet(tasks)}

\* No private message is sent twice: the two calls of
\* send_pending_private_messages() that follow a handshake, and a message queued
\* again between their awaits, never hold or encrypt one message twice.
SentOnce ==
    \A m \in Mine :
        Cardinality({c \in sealed : c.id = m})
        + Cardinality({k \in DOMAIN st.queue : st.queue[k] = m})
        + Cardinality({t \in BagToSet(tasks) : m \in Elements(t.msgs)}) <= 1

\* Two encryptions never share a key and a nonce: not those of a flush, of the
\* user and of the acknowledgements that handlers make in between, and not over
\* sessions given up and made again.
ClientNoncesUnique ==
    \A c, d \in sealed :
        c.role = d.role /\ c.key = d.key /\ c.nonce = d.nonce => c = d

\* While there is a session no message waits for one: whatever is queued has a
\* call of send_pending_private_messages() on its way, even when the answer that
\* completed the handshake could not be sent.
QueueServed ==
    Established(st) /\ st.queue # <<>> =>
        \E t \in BagToSet(tasks) : t.do \in {"auth", "slept"}

\* A message that waits, in the queue or in a flush, is kept until it is encrypted:
\* a handshake that fails and a session that expires or is replaced in the middle of
\* a flush do not lose it. Only losing the link or the LEAVE of the peer does.
KeptUntilSent ==
    [][\A m \in Held :
          \/ m \in Held'
          \/ \E c \in sealed' \ sealed : c.id = m
          \/ ~st'.linked
          \/ st.known /\ ~st'.known]_vars
=============================================================================
