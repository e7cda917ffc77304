-------------------------- MODULE ClientNoiseProofs --------------------------
(***************************************************************************)
(* Proofs about ClientNoise: types, nonces, private messages sent once,    *)
(* served and kept, for every set of messages and every bound on keys and  *)
(* tasks.                                                                  *)
(*                                                                         *)
(* The inductive invariant ClientNoiseInv has two halves.  NoncePart       *)
(* follows a key from the handshake state, where nothing is encrypted with *)
(* it, into the session that counts past its ciphertexts.  QueuePart,      *)
(* TaskPart and SealedPart say where a private message can be: in the      *)
(* queue, in one flush that exists once, or in one ciphertext.  Every      *)
(* action takes the form GoesOn(fields, tasks that end, tasks that start), *)
(* so LawfulStep proves the step once, from three conditions on it         *)
(* (LawfulFields, Moves, Served), and each action only has to meet them.   *)
(***************************************************************************)
EXTENDS ClientNoise, FiniteSetTheorems, TLAPS

USE ClientNoiseAssumption
-----------------------------------------------------------------------------
(* The invariant                                                           *)

(* The fields without the bound on the keys, which only a step that is     *)
(* taken respects.                                                         *)
Fields == [linked : BOOLEAN, hears : BOOLEAN, known : BOOLEAN,
           blocked : BOOLEAN, made : Nat,
           hs : [role : Role \cup {"none"}, key : Nat],
           session : [role : Role \cup {"none"}, key : Nat, sn : Nat],
           queue : Seq(Mine), tried : BOOLEAN, shown : SUBSET Theirs]

AnyCipher == [type : {"encrypted", "ack"}, role : Role, key : Nat, nonce : Nat,
              id : Mine \cup Theirs]

(* The way of a key: made into the handshake state, where nothing was      *)
(* encrypted with it yet, then moved into the session, which counts past   *)
(* every ciphertext made with it.                                          *)
Keyed(s, C) ==
    /\ s.hs.key <= s.made /\ s.session.key <= s.made
    /\ IF s.hs.role = "none" THEN s.hs.key = 0 ELSE s.hs.key > 0
    /\ IF s.session.role = "none" THEN s.session.key = 0 /\ s.session.sn = 0
                                  ELSE s.session.key > 0
    /\ \A c \in C : 0 < c.key /\ c.key <= s.made
    /\ s.hs.role # "none" =>
         s.hs.key # s.session.key /\ \A c \in C : c.key # s.hs.key
    /\ s.session.role # "none" => \A c \in C : c.key = s.session.key =>
         c.role = s.session.role /\ c.nonce < s.session.sn

NoncePart ==
    /\ st \in Fields /\ st.made <= MaxKeys
    /\ sealed \subseteq AnyCipher
    /\ Keyed(st, sealed)
    /\ ClientNoncesUnique

LEMMA ClearKeyed ==
    ASSUME NEW s \in Fields, NEW t \in Fields, NEW C, Keyed(s, C),
           t.made = s.made, t.hs = s.hs \/ t.hs = NoHandshake,
           t.session = s.session \/ t.session = NoSession
    PROVE  Keyed(t, C)
<1>1. NoHandshake.role = "none" /\ NoHandshake.key = 0
  BY DEF NoHandshake
<1>2. NoSession.role = "none" /\ NoSession.key = 0 /\ NoSession.sn = 0
  BY DEF NoSession
<1> QED
  BY <1>1, <1>2 DEF Keyed, Fields

(* A new key, the session kept or dropped.                                 *)
LEMMA NewKeyKeyed ==
    ASSUME NEW s \in Fields, NEW t \in Fields, NEW C \in SUBSET AnyCipher,
           Keyed(s, C), t.made = s.made + 1,
           t.hs.role # "none", t.hs.key = s.made + 1,
           t.session = s.session \/ t.session = NoSession
    PROVE  Keyed(t, C)
<1>1. NoSession.role = "none" /\ NoSession.key = 0 /\ NoSession.sn = 0
  BY DEF NoSession
<1>2. /\ s.made \in Nat /\ s.session.key \in Nat /\ s.session.sn \in Nat
      /\ s.hs.key \in Nat
      /\ \A c \in C : c.key \in Nat
  BY DEF Fields, AnyCipher
<1> QED
  BY <1>1, <1>2 DEF Keyed

(* A handshake completes.                                                  *)
LEMMA SessionKeyed ==
    ASSUME NEW s \in Fields, NEW t \in Fields, NEW C \in SUBSET AnyCipher,
           Keyed(s, C), s.hs.role # "none", t.made = s.made,
           t.hs = NoHandshake,
           t.session = [role |-> s.hs.role, key |-> s.hs.key, sn |-> 0]
    PROVE  Keyed(t, C)
<1>1. NoHandshake.role = "none" /\ NoHandshake.key = 0
  BY DEF NoHandshake
<1>2. /\ t.session.role = s.hs.role /\ t.session.key = s.hs.key
      /\ t.session.sn = 0
  OBVIOUS
<1> QED
  BY <1>1, <1>2 DEF Keyed, Fields

(* session.encrypt().                                                      *)
LEMMA SealKeyed ==
    ASSUME NEW s \in Fields, NEW C \in SUBSET AnyCipher, Keyed(s, C),
           \A c, d \in C : c.role = d.role /\ c.key = d.key
                             /\ c.nonce = d.nonce => c = d,
           Established(s), NEW type \in {"encrypted", "ack"},
           NEW m \in Mine \cup Theirs
    PROVE  LET x == Cipher(type, s, m)
               D == C \cup {x}
           IN  /\ Seal(s) \in Fields
               /\ D \subseteq AnyCipher
               /\ Keyed(Seal(s), D)
               /\ \A c, d \in D : c.role = d.role /\ c.key = d.key
                                    /\ c.nonce = d.nonce => c = d
<1> DEFINE x == Cipher(type, s, m)
           t == Seal(s)
<1>1. /\ s.session.role \in Role /\ s.session.key \in Nat /\ s.session.sn \in Nat
      /\ s.made \in Nat /\ s.hs.key \in Nat
  BY DEF Fields, Established
<1>2. /\ x \in AnyCipher /\ x.role = s.session.role /\ x.key = s.session.key
      /\ x.nonce = s.session.sn
  BY <1>1 DEF Cipher, AnyCipher
<1>3. /\ t \in Fields /\ t.made = s.made /\ t.hs = s.hs
      /\ t.session.role = s.session.role /\ t.session.key = s.session.key
      /\ t.session.sn = s.session.sn + 1
  BY DEF Seal, Fields
<1>4. \A c \in C : c.nonce \in Nat /\ c.key \in Nat
  BY DEF AnyCipher
<1> HIDE DEF x, t
<1>5. Keyed(t, C \cup {x})
  BY <1>1, <1>2, <1>3, <1>4 DEF Keyed, Established
<1>6. \A c \in C : ~(c.role = x.role /\ c.key = x.key /\ c.nonce = x.nonce)
  BY <1>1, <1>2, <1>4 DEF Keyed, Established
<1>7. \A c, d \in C \cup {x} : c.role = d.role /\ c.key = d.key
                                 /\ c.nonce = d.nonce => c = d
  BY <1>6
<1>8. C \cup {x} \subseteq AnyCipher
  BY <1>2
<1> QED
  BY <1>3, <1>5, <1>7, <1>8 DEF x, t

(* What the functions of the fields return.                                *)
LEMMA InitiatedFields ==
    ASSUME NEW s \in Fields
    PROVE  /\ Initiated(s) \in Fields
           /\ Initiated(s).made = s.made + 1
           /\ Initiated(s).hs.role = "initiator"
           /\ Initiated(s).hs.key = s.made + 1
           /\ Initiated(s).session = NoSession
           /\ Initiated(s).session.role = "none"
           /\ Initiated(s).queue = s.queue
           /\ Initiated(s).tried = s.tried
<1>1. s.made + 1 \in Nat
  BY DEF Fields
<1>2. NoSession \in [role : Role \cup {"none"}, key : Nat, sn : Nat]
      /\ NoSession.role = "none"
  BY DEF NoSession
<1>3. [role |-> "initiator", key |-> s.made + 1]
        \in [role : Role \cup {"none"}, key : Nat]
  BY <1>1 DEF Role
<1> QED
  BY <1>1, <1>2, <1>3 DEF Initiated, Fields

LEMMA InitiatedKeyed ==
    ASSUME NEW s \in Fields, NEW C \in SUBSET AnyCipher, Keyed(s, C)
    PROVE  Keyed(Initiated(s), C)
<1> DEFINE t == Initiated(s)
<1>1. /\ t \in Fields /\ t.made = s.made + 1 /\ t.hs.role = "initiator"
      /\ t.hs.key = s.made + 1 /\ t.session = NoSession
  BY InitiatedFields
<1> HIDE DEF t
<1>2. Keyed(t, C)
  BY <1>1, NewKeyKeyed
<1> QED
  BY <1>2 DEF t

LEMMA DroppedFields ==
    ASSUME NEW s \in Fields
    PROVE  /\ Dropped(s) \in Fields
           /\ Dropped(s).made = s.made
           /\ Dropped(s).hs = NoHandshake
           /\ Dropped(s).session = NoSession
           /\ Dropped(s).session.role = "none"
           /\ Dropped(s).queue = <<>>
<1>1. NoSession \in [role : Role \cup {"none"}, key : Nat, sn : Nat]
      /\ NoSession.role = "none"
  BY DEF NoSession
<1>2. NoHandshake \in [role : Role \cup {"none"}, key : Nat]
  BY DEF NoHandshake
<1>3. <<>> \in Seq(Mine)
  OBVIOUS
<1>4. Dropped(s) \in Fields
  BY <1>1, <1>2, <1>3 DEF Dropped, Fields
<1> QED
  BY <1>1, <1>4 DEF Dropped, Fields

-----------------------------------------------------------------------------
(* Tasks and messages                                                      *)

Distinct(q) == \A i, j \in DOMAIN q : q[i] = q[j] => i = j

GoodTask(t) ==
    /\ t \in Task
    /\ t.do \in {"auth", "slept"} => t.out = NoPacket
    /\ t.do = "flush" /\ t.out = NoPacket => t.msgs # <<>>
    /\ t.msgs # <<>> => t.do = "flush"

(* Every message is in one place at most: in the queue, in one task that   *)
(* exists once, or in one ciphertext.                                      *)
Unsealed(x) == x \in submitted /\ \A c \in sealed : c.id # x

QueuePart ==
    /\ Distinct(st.queue)
    /\ \A x \in Elements(st.queue) :
         Unsealed(x) /\ \A t \in BagToSet(tasks) : x \notin Elements(t.msgs)

TaskPart ==
    /\ IsABag(tasks)
    /\ \A t \in BagToSet(tasks) :
         /\ GoodTask(t)
         /\ Distinct(t.msgs)
         /\ t.msgs # <<>> => tasks[t] = 1
         /\ \A x \in Elements(t.msgs) :
              Unsealed(x) /\ \A u \in BagToSet(tasks) : x \in Elements(u.msgs) => u = t

SealedPart ==
    /\ \A c \in sealed : c.id \in Mine => c.id \in submitted
    /\ \A c, d \in sealed : c.id \in Mine /\ c.id = d.id => c = d

ClientNoiseInv ==
    /\ lower \in BOOLEAN
    /\ heard \subseteq HandshakePacket
    /\ submitted \subseteq Mine
    /\ NoncePart
    /\ QueuePart /\ TaskPart /\ SealedPart
    /\ QueueServed

(* What a step does to the messages.  Those of the tasks that end and one  *)
(* the user has just typed are free to be put into a task that starts,     *)
(* into the queue or into a ciphertext, each once.                         *)
Freed(old, x) ==
    x \in submitted' \ submitted \/ \E u \in old : x \in Elements(u.msgs)

Moves(s, old, new) ==
    /\ old \subseteq BagToSet(tasks)
    /\ submitted \subseteq submitted' /\ submitted' \subseteq Mine
    /\ \A t, u \in new : t.msgs # <<>> /\ u.msgs # <<>> => t = u
    /\ \A t \in new : Distinct(t.msgs)
    /\ Distinct(s.queue)
    /\ \A x \in Elements(s.queue) :
         /\ x \in Elements(st.queue) \/ Freed(old, x)
         /\ \A t \in new : x \notin Elements(t.msgs)
    /\ \A t \in new : \A x \in Elements(t.msgs) :
         x \in Elements(st.queue) \/ Freed(old, x)
    /\ sealed \subseteq sealed'
    /\ \A c \in sealed' : c \in sealed \/ c.id \notin Mine \/
         /\ Freed(old, c.id)
         /\ c.id \notin Elements(s.queue)
         /\ \A t \in new : c.id \notin Elements(t.msgs)
    /\ \A c, d \in sealed' : c \in sealed \/ d \in sealed \/ c = d

(* A queue under a session has a call of send_pending_private_messages()   *)
(* on its way: one that starts now, or one that was and does not end.      *)
Served(s, old, new) ==
    Established(s) /\ s.queue # <<>> =>
      \/ \E t \in new : t.do \in {"auth", "slept"}
      \/ /\ Established(st) /\ st.queue # <<>>
         /\ \A t \in old : t.do \notin {"auth", "slept"}

LawfulFields(s) ==
    /\ s \in Fields /\ sealed' \subseteq AnyCipher
    /\ Keyed(s, sealed') /\ ClientNoncesUnique'

LEMMA BagStep ==
    ASSUME NEW old, NEW new, IsABag(tasks),
           tasks' = (tasks (-) SetToBag(old)) (+) SetToBag(new)
    PROVE  /\ IsABag(tasks')
           /\ \A t \in BagToSet(tasks') : t \in BagToSet(tasks) \/ t \in new
           /\ \A t \in new : t \in BagToSet(tasks')
           /\ \A t \in BagToSet(tasks) : t \in old \/ t \in BagToSet(tasks')
           /\ \A t \in BagToSet(tasks) : t \in old /\ tasks[t] = 1 =>
                t \in new \/ t \notin BagToSet(tasks')
           /\ \A t \in BagToSet(tasks) : t \notin new /\ tasks[t] = 1
                /\ t \in BagToSet(tasks') => tasks'[t] = 1
           /\ \A t \in new : t \notin BagToSet(tasks) \/ (t \in old /\ tasks[t] = 1)
                => tasks'[t] = 1
BY DEF (+), (-), SetToBag, BagToSet, IsABag

LEMMA EmptyMsgs == \A q : q = <<>> => Elements(q) = {} /\ Distinct(q)
BY DEF Elements, Distinct

LEMMA SomeElement ==
    ASSUME NEW q \in Seq(Mine), q # <<>>
    PROVE  Head(q) \in Elements(q)
<1>1. 1 \in DOMAIN q /\ q[1] = Head(q)
  OBVIOUS
<1> QED
  BY <1>1 DEF Elements

(* A step whose fields, tasks and messages are lawful keeps the invariant. *)
LEMMA LawfulStep ==
    ASSUME ClientNoiseInv, NEW s, NEW old, NEW new, NEW reached,
           GoesOn(s, old, new, reached), LawfulFields(s), Moves(s, old, new),
           Served(s, old, new), \A t \in new : GoodTask(t),
           reached \subseteq HandshakePacket, lower' = lower
    PROVE  ClientNoiseInv'
<1>1. /\ st' = s /\ s.made <= MaxKeys
      /\ tasks' = (tasks (-) SetToBag(old)) (+) SetToBag(new)
      /\ heard' \subseteq HandshakePacket
  BY DEF GoesOn
<1>2. IsABag(tasks)
  BY DEF ClientNoiseInv, TaskPart
<1> DEFINE T == BagToSet(tasks)
           U == BagToSet(tasks')
<1>3. /\ IsABag(tasks')
      /\ \A t \in U : t \in T \/ t \in new
      /\ \A t \in new : t \in U
      /\ \A t \in T : t \in old \/ t \in U
      /\ \A t \in T : t \in old /\ tasks[t] = 1 => t \in new \/ t \notin U
      /\ \A t \in T : t \notin new /\ tasks[t] = 1 /\ t \in U => tasks'[t] = 1
      /\ \A t \in new : t \notin T \/ (t \in old /\ tasks[t] = 1) => tasks'[t] = 1
  BY <1>1, <1>2, BagStep
<1> HIDE DEF T, U
<1>4. NoncePart'
  BY <1>1 DEF LawfulFields, NoncePart
<1>5. /\ \A t \in T : /\ GoodTask(t) /\ Distinct(t.msgs)
                      /\ t.msgs # <<>> => tasks[t] = 1
      /\ \A t \in T : \A x \in Elements(t.msgs) :
           Unsealed(x) /\ \A u \in T : x \in Elements(u.msgs) => u = t
      /\ \A x \in Elements(st.queue) :
           Unsealed(x) /\ \A t \in T : x \notin Elements(t.msgs)
  BY DEF T, ClientNoiseInv, TaskPart, QueuePart
<1>6. \A t : \A x \in Elements(t.msgs) : t.msgs # <<>>
  BY EmptyMsgs
(* An old task that ends leaves nothing behind.                            *)
<1>7. \A t \in U : t \notin new => t \in T /\ \A x \in Elements(t.msgs) : t \notin old
  BY <1>3, <1>5, <1>6
(* A message that is free is in no task that goes on, nor in the queue.    *)
<1>8. ASSUME NEW x, Freed(old, x)
      PROVE  /\ x \in submitted' /\ \A c \in sealed : c.id # x
             /\ x \notin Elements(st.queue)
             /\ \A t \in U : t \in new \/ x \notin Elements(t.msgs)
  <2>0. old \subseteq T /\ submitted \subseteq submitted'
    BY DEF Moves, T
  <2>1. CASE x \in submitted' \ submitted
    <3>1. x \in Mine
      BY <2>1 DEF Moves
    <3> QED
      BY <1>5, <1>7, <2>1, <3>1 DEF Unsealed, ClientNoiseInv, SealedPart
  <2>2. ASSUME NEW u \in old, x \in Elements(u.msgs)
        PROVE  /\ x \in submitted' /\ \A c \in sealed : c.id # x
               /\ x \notin Elements(st.queue)
               /\ \A t \in U : t \in new \/ x \notin Elements(t.msgs)
    BY <1>5, <1>7, <2>0, <2>2 DEF Unsealed
  <2> QED
    BY <1>8, <2>1, <2>2 DEF Freed
<1>9. \A x : Unsealed(x) /\ ~Freed(old, x) /\ x \in Mine => Unsealed(x)'
  BY DEF Unsealed, Moves
<1>10. \A x : Freed(old, x) /\ (\A c \in sealed' : c.id # x \/ c \in sealed)
         => Unsealed(x)'
  BY <1>8 DEF Unsealed
<1>11. /\ \A x \in Elements(s.queue) : x \in Mine
       /\ \A t \in T : \A x \in Elements(t.msgs) : x \in Mine
       /\ \A t \in new : \A x \in Elements(t.msgs) : x \in Mine
  <2>1. \A q \in Seq(Mine) : \A x \in Elements(q) : x \in Mine
    BY DEF Elements
  <2>2. s.queue \in Seq(Mine)
    BY DEF LawfulFields, Fields
  <2>3. \A t : GoodTask(t) => t.msgs \in Seq(Mine)
    BY DEF GoodTask, Task
  <2> QED
    BY <1>5, <2>1, <2>2, <2>3
<1>12. QueuePart'
  <2>1. ASSUME NEW x \in Elements(s.queue)
        PROVE  Unsealed(x)' /\ \A t \in U : x \notin Elements(t.msgs)
    <3>1. \A t \in new : x \notin Elements(t.msgs)
      BY DEF Moves
    <3>2. CASE Freed(old, x)
      <4>1. \A c \in sealed' : c.id # x \/ c \in sealed
        BY <1>11 DEF Moves
      <4> QED
        BY <1>8, <1>10, <3>1, <3>2, <4>1
    <3>3. CASE x \in Elements(st.queue) /\ ~Freed(old, x)
      BY <1>5, <1>7, <1>9, <1>11, <3>1, <3>3
    <3> QED
      BY <3>2, <3>3 DEF Moves
  <2>2. Distinct(s.queue)
    BY DEF Moves
  <2> QED
    BY <1>1, <2>1, <2>2 DEF QueuePart, U
<1>13. ASSUME NEW t \in U
       PROVE  /\ GoodTask(t) /\ Distinct(t.msgs)
              /\ t.msgs # <<>> => tasks'[t] = 1
              /\ \A x \in Elements(t.msgs) :
                   Unsealed(x)' /\ \A u \in U : x \in Elements(u.msgs) => u = t
  <2>1. GoodTask(t) /\ Distinct(t.msgs)
    BY <1>3, <1>5 DEF Moves
  <2>2. CASE t \in new
    <3>1. ASSUME NEW x \in Elements(t.msgs)
          PROVE  /\ Unsealed(x)' /\ \A u \in U : x \in Elements(u.msgs) => u = t
                 /\ t \notin T \/ (t \in old /\ tasks[t] = 1)
      <4>1. \A u \in new : x \in Elements(u.msgs) => u = t
        BY <1>6, <2>2 DEF Moves
      <4>2. \A c \in sealed' : c.id # x \/ c \in sealed
        BY <1>11, <2>2 DEF Moves
      <4>3. CASE Freed(old, x)
        <5>1. Unsealed(x)' /\ \A u \in U : x \in Elements(u.msgs) => u = t
          BY <1>8, <1>10, <4>1, <4>2, <4>3
        <5>2. t \notin T \/ (t \in old /\ tasks[t] = 1)
          BY <1>5, <1>6, <4>3 DEF Freed, Moves, T, Unsealed
        <5> QED
          BY <5>1, <5>2
      <4>4. CASE ~Freed(old, x)
        <5>1. x \in Elements(st.queue)
          BY <2>2, <4>4 DEF Moves
        <5> QED
          BY <1>5, <1>7, <1>9, <1>11, <2>2, <4>1, <4>4, <5>1
      <4> QED
        BY <4>3, <4>4
    <3>2. t.msgs # <<>> => \E x \in Elements(t.msgs) : TRUE
      <4>1. t.msgs \in Seq(Mine)
        BY <2>1 DEF GoodTask, Task
      <4> QED
        BY <4>1, SomeElement
    <3> QED
      BY <1>3, <2>1, <2>2, <3>1, <3>2
  <2>3. CASE t \notin new
    <3>1. t \in T /\ \A x \in Elements(t.msgs) : t \notin old
      BY <1>7, <2>3
    <3>2. t.msgs # <<>> => tasks'[t] = 1
      BY <1>3, <1>5, <2>3, <3>1
    <3>3. ASSUME NEW x \in Elements(t.msgs)
          PROVE  Unsealed(x)' /\ \A u \in U : x \in Elements(u.msgs) => u = t
      <4>1. ~Freed(old, x)
        BY <1>8, <2>3
      <4>2. x \notin Elements(st.queue)
        BY <1>5, <3>1
      <4>3. \A u \in new : x \notin Elements(u.msgs)
        BY <4>1, <4>2 DEF Moves
      <4> QED
        BY <1>5, <1>7, <1>9, <1>11, <3>1, <4>1, <4>3
    <3> QED
      BY <2>1, <3>2, <3>3
  <2> QED
    BY <2>2, <2>3
<1>14. TaskPart'
  BY <1>3, <1>13 DEF TaskPart, U
<1>15. SealedPart'
  <2>1. \A c \in sealed' : c.id \in Mine => c \in sealed \/ Freed(old, c.id)
    BY DEF Moves
  <2>2. \A c \in sealed' : c.id \in Mine => c.id \in submitted'
    BY <1>8, <2>1 DEF ClientNoiseInv, SealedPart, Moves
  <2>3. \A c, d \in sealed' : c.id \in Mine /\ c.id = d.id => c = d
    BY <1>8, <2>1 DEF ClientNoiseInv, SealedPart, Moves
  <2> QED
    BY <2>2, <2>3 DEF SealedPart
<1>16. QueueServed'
  <2> SUFFICES ASSUME Established(s), s.queue # <<>>
               PROVE  \E t \in U : t.do \in {"auth", "slept"}
    BY <1>1 DEF QueueServed, U, Established
  <2>1. CASE \E t \in new : t.do \in {"auth", "slept"}
    BY <1>3, <2>1
  <2>2. CASE /\ Established(st) /\ st.queue # <<>>
             /\ \A t \in old : t.do \notin {"auth", "slept"}
    <3>1. \E t \in T : t.do \in {"auth", "slept"}
      BY <2>2 DEF ClientNoiseInv, QueueServed, T
    <3> QED
      BY <1>3, <2>2, <3>1
  <2> QED
    BY <2>1, <2>2 DEF Served
<1>17. submitted' \subseteq Mine /\ lower' \in BOOLEAN
  BY DEF Moves, ClientNoiseInv
<1> QED
  BY <1>1, <1>4, <1>12, <1>14, <1>15, <1>16, <1>17 DEF ClientNoiseInv

-----------------------------------------------------------------------------
(* The tasks and packets the handlers make.                                *)

LEMMA PacketTypes ==
    /\ \A type \in {"init", "resp", "exchange"}, kind \in {"m1", "m2", "m3"} :
         \A key \in Nat : key <= MaxKeys => M(type, kind, key) \in HandshakePacket
    /\ Identity \in Hello /\ Announcement \in Hello
    /\ LegacyKey \in HandshakePacket
BY DEF M, HandshakePacket, Identity, Announcement, Hello, LegacyKey

Packets == Hello \cup HandshakePacket \cup Ciphertext \cup {NoPacket}

LEMMA SendingGood ==
    ASSUME NEW do \in {"identity", "instead", "announce", "plain", "fallback",
                       "answer", "exchange", "user"},
           NEW out \in Packets
    PROVE  GoodTask(Sending(do, out)) /\ Sending(do, out).msgs = <<>>
<1> DEFINE t == Sending(do, out)
<1>1. t.do = do /\ t.out = out /\ t.msgs = <<>>
  BY DEF Sending
<1>2. t \in Task
  BY DEF Sending, Task, Packets
<1> HIDE DEF t
<1>3. GoodTask(t)
  BY <1>1, <1>2 DEF GoodTask
<1> QED
  BY <1>1, <1>3 DEF t

LEMMA WaitingGood ==
    ASSUME NEW do \in {"auth", "slept"}
    PROVE  /\ GoodTask(Waiting(do)) /\ Waiting(do).msgs = <<>>
           /\ Waiting(do).do = do
<1> DEFINE t == Waiting(do)
<1>1. t.do = do /\ t.out = NoPacket /\ t.msgs = <<>>
  BY DEF Waiting, Sending
<1>2. t \in Task
  BY DEF Waiting, Sending, Task
<1> HIDE DEF t
<1>3. GoodTask(t)
  BY <1>1, <1>2 DEF GoodTask
<1> QED
  BY <1>1, <1>3 DEF t

LEMMA StartedGood ==
    ASSUME NEW s, NEW do \in {"plain", "fallback"}, NEW out \in Packets
    PROVE  \A t \in Started(s, do, out) : GoodTask(t) /\ t.msgs = <<>>
<1>1. GoodTask(Sending(do, out)) /\ Sending(do, out).msgs = <<>>
  BY SendingGood
<1> QED
  BY <1>1 DEF Started

LEMMA RestGood ==
    ASSUME NEW do \in {"identity", "instead", "announce", "plain", "fallback",
                       "answer", "exchange", "user", "flush"},
           NEW out \in Packets, NEW msgs \in Seq(Mine),
           msgs # <<>> => do = "flush"
    PROVE  /\ \A t \in Rest(do, out, msgs) : GoodTask(t) /\ t.msgs = msgs
           /\ \A t, u \in Rest(do, out, msgs) : t = u
<1> DEFINE r == [do |-> do, out |-> out, msgs |-> msgs]
<1>1. r.do = do /\ r.out = out /\ r.msgs = msgs
  OBVIOUS
<1>2. r \in Task
  BY DEF Task, Packets
<1>3. \A t \in Rest(do, out, msgs) : t = r /\ ~(out = NoPacket /\ msgs = <<>>)
  BY DEF Rest
<1> HIDE DEF r
<1>4. ~(out = NoPacket /\ msgs = <<>>) => GoodTask(r)
  BY <1>1, <1>2 DEF GoodTask
<1> QED
  BY <1>1, <1>3, <1>4

(* Rest as it is after a packet is out.                                    *)
LEMMA RestOfTask ==
    ASSUME NEW t, GoodTask(t), t.out # NoPacket
    PROVE  /\ t.do \notin {"auth", "slept"} /\ t.msgs \in Seq(Mine)
           /\ \A r \in Rest(t.do, NoPacket, t.msgs) : GoodTask(r) /\ r.msgs = t.msgs
           /\ \A r, u \in Rest(t.do, NoPacket, t.msgs) : r = u
<1>1. t.do \in {"identity", "instead", "announce", "plain", "fallback",
                "answer", "exchange", "user", "flush"}
  BY DEF GoodTask, Task
<1>2. t.msgs \in Seq(Mine)
  BY DEF GoodTask, Task
<1>3. NoPacket \in Packets
  BY DEF Packets
<1> DEFINE do == t.do
           q == t.msgs
<1> HIDE DEF do, q
<1>4. /\ do \in {"identity", "instead", "announce", "plain", "fallback",
                 "answer", "exchange", "user", "flush"}
      /\ q \in Seq(Mine) /\ (q # <<>> => do = "flush")
  BY <1>1, <1>2 DEF do, q, GoodTask
<1>5. /\ \A r \in Rest(do, NoPacket, q) : GoodTask(r) /\ r.msgs = q
      /\ \A r, u \in Rest(do, NoPacket, q) : r = u
  BY <1>3, <1>4, RestGood
<1> QED
  BY <1>1, <1>2, <1>5 DEF do, q

-----------------------------------------------------------------------------
(* Steps that encrypt nothing.                                             *)

LEMMA KeepMoves ==
    ASSUME ClientNoiseInv, NEW s, NEW old, NEW new,
           old \subseteq BagToSet(tasks),
           UNCHANGED <<submitted, sealed>>,
           s.queue = st.queue \/ s.queue = <<>>,
           \A t \in new : t.msgs = <<>> \/ \E u \in old : t.msgs = u.msgs,
           \A t, u \in new : t.msgs # <<>> /\ u.msgs # <<>> => t = u
    PROVE  Moves(s, old, new)
<1>1. \A t \in BagToSet(tasks) :
        /\ Distinct(t.msgs)
        /\ \A x \in Elements(t.msgs) : x \notin Elements(st.queue)
  BY DEF ClientNoiseInv, TaskPart, QueuePart
<1>2. Distinct(st.queue)
  BY DEF ClientNoiseInv, QueuePart
<1>3. submitted \subseteq Mine
  BY DEF ClientNoiseInv
<1>4. \A t \in new : Distinct(t.msgs) /\ \A x \in Elements(t.msgs) :
        Freed(old, x) /\ x \notin Elements(st.queue)
  BY <1>1, EmptyMsgs DEF Freed
<1>5. Distinct(s.queue) /\ \A x \in Elements(s.queue) : x \in Elements(st.queue)
  BY <1>2, EmptyMsgs
<1> QED
  BY <1>3, <1>4, <1>5 DEF Moves

LEMMA ClearLawful ==
    ASSUME ClientNoiseInv, NEW s \in Fields, sealed' = sealed,
           s.made = st.made, s.hs = st.hs \/ s.hs = NoHandshake,
           s.session = st.session \/ s.session = NoSession
    PROVE  LawfulFields(s)
<1>1. /\ st \in Fields /\ sealed \subseteq AnyCipher /\ Keyed(st, sealed)
      /\ ClientNoncesUnique
  BY DEF ClientNoiseInv, NoncePart
<1>2. Keyed(s, sealed)
  BY <1>1, ClearKeyed
<1> QED
  BY <1>1, <1>2 DEF LawfulFields, ClientNoncesUnique

LEMMA InitiatedLawful ==
    ASSUME NEW s, LawfulFields(s)
    PROVE  LawfulFields(Initiated(s))
BY InitiatedFields, InitiatedKeyed DEF LawfulFields

(* The session and the queue are those there were, or gone.                *)
LEMMA ClearServed ==
    ASSUME ClientNoiseInv, NEW s, NEW old, NEW new,
           s.session = st.session \/ s.session = NoSession,
           s.queue = st.queue \/ s.queue = <<>>,
           \A t \in old : t \in BagToSet(tasks) /\ (t.out # NoPacket \/ t.do = "flush")
    PROVE  Served(s, old, new)
<1>1. NoSession.role = "none"
  BY DEF NoSession
<1>2. \A t \in old : t.do \notin {"auth", "slept"}
  BY DEF ClientNoiseInv, TaskPart, GoodTask
<1> QED
  BY <1>1, <1>2 DEF Served, Established

LEMMA MoreMoves ==
    ASSUME NEW s, NEW old, NEW new, Moves(s, old, new), NEW u,
           u.queue = s.queue, NEW more, \A t \in more : t.msgs = <<>>
    PROVE  Moves(u, old, new \cup more)
<1>1. \A t \in more : Distinct(t.msgs) /\ \A x : x \notin Elements(t.msgs)
  BY EmptyMsgs
<1> QED
  BY <1>1 DEF Moves

(* The ends of the handshake handlers.                                     *)
LEMMA HandshakeHandledStep ==
    ASSUME ClientNoiseInv, NEW s, NEW old, NEW new, NEW reached,
           HandshakeHandled(s, old, new, reached),
           LawfulFields(s), Moves(s, old, new), Served(s, old, new),
           \A t \in new : GoodTask(t),
           reached \subseteq HandshakePacket, lower' = lower
    PROVE  ClientNoiseInv'
<1>1. CASE ~Established(s)
  BY <1>1, LawfulStep DEF HandshakeHandled
<1>2. CASE Established(s)
  <2> DEFINE u == [s EXCEPT !.tried = FALSE]
             w == Waiting("slept")
  <2>1. GoesOn(u, old, new \cup {w}, reached)
    BY <1>2 DEF HandshakeHandled
  <2>2. /\ u \in Fields /\ u.made = s.made /\ u.hs = s.hs
        /\ u.session = s.session /\ u.queue = s.queue
    BY DEF LawfulFields, Fields
  <2>3. GoodTask(w) /\ w.msgs = <<>> /\ w.do = "slept"
    BY WaitingGood
  <2> HIDE DEF u, w
  <2>4. LawfulFields(u)
    BY <2>2, ClearKeyed DEF LawfulFields
  <2>5. Moves(u, old, new \cup {w})
    BY <2>2, <2>3, MoreMoves
  <2>6. Served(u, old, new \cup {w})
    BY <2>3 DEF Served
  <2> QED
    BY <2>1, <2>3, <2>4, <2>5, <2>6, LawfulStep
<1> QED
  BY <1>1, <1>2

LEMMA FirstMessageGood ==
    ASSUME NEW s \in Fields, Initiated(s).made <= MaxKeys,
           NEW type \in {"init", "exchange"}
    PROVE  FirstMessage(s, type) \in Packets
<1>1. s.made + 1 \in Nat /\ s.made + 1 <= MaxKeys
  BY InitiatedFields DEF Fields
<1> QED
  BY <1>1, PacketTypes DEF FirstMessage, Packets

LEMMA KeyExchangeHandledStep ==
    ASSUME ClientNoiseInv, NEW s, NEW old, NEW new, NEW reached,
           KeyExchangeHandled(s, old, new, reached),
           LawfulFields(s), Moves(s, old, new), Served(s, old, new),
           \A t \in new : GoodTask(t),
           reached \subseteq HandshakePacket, lower' = lower
    PROVE  ClientNoiseInv'
<1>1. CASE ~(Established(s) /\ ~s.known)
  BY <1>1, LawfulStep DEF KeyExchangeHandled
<1>2. CASE Established(s) /\ ~s.known
  <2> DEFINE u == Initiated(s)
             more == Started(s, "plain", FirstMessage(s, "exchange"))
  <2>1. GoesOn(u, old, new \cup more, reached)
    BY <1>2 DEF KeyExchangeHandled
  <2>2. u \in Fields /\ u.queue = s.queue /\ u.session.role = "none"
    BY InitiatedFields DEF LawfulFields
  <2>3. \A t \in more : GoodTask(t) /\ t.msgs = <<>>
    <3>1. u.made <= MaxKeys
      BY <2>1 DEF GoesOn
    <3>2. FirstMessage(s, "exchange") \in Packets
      BY <3>1, FirstMessageGood DEF LawfulFields
    <3> QED
      BY <3>2, StartedGood
  <2>4. LawfulFields(u)
    BY InitiatedLawful
  <2> HIDE DEF u, more
  <2>5. Moves(u, old, new \cup more)
    BY <2>2, <2>3, MoreMoves
  <2>6. Served(u, old, new \cup more)
    BY <2>2 DEF Served, Established
  <2> QED
    BY <2>1, <2>3, <2>4, <2>5, <2>6, LawfulStep
<1> QED
  BY <1>1, <1>2

-----------------------------------------------------------------------------
(* One lemma per group of actions.                                         *)

(* Fields without new keys, at most the tasks of a link that comes up.     *)
LEMMA QuietStep ==
    ASSUME ClientNoiseInv, NEW s \in Fields, NEW new,
           Goes(s, {}, new), UNCHANGED <<lower, submitted, sealed>>,
           s.made = st.made, s.hs = st.hs \/ s.hs = NoHandshake,
           s.session = st.session \/ s.session = NoSession,
           s.queue = st.queue \/ s.queue = <<>>,
           \A t \in new : GoodTask(t) /\ t.msgs = <<>>
    PROVE  ClientNoiseInv'
<1>1. LawfulFields(s)
  BY ClearLawful
<1>2. Moves(s, {}, new)
  BY KeepMoves
<1>3. Served(s, {}, new)
  BY ClearServed
<1>4. GoesOn(s, {}, new, heard) /\ heard \subseteq HandshakePacket
  BY DEF Goes, ClientNoiseInv
<1> QED
  BY <1>1, <1>2, <1>3, <1>4, LawfulStep

LEMMA LinkSteps ==
    ASSUME ClientNoiseInv,
           LinkUp \/ LinkDown \/ cleanup_old_sessions \/ AttemptExpires
             \/ handle_leave \/ Block
    PROVE  ClientNoiseInv'
<1>1. st \in Fields
  BY DEF ClientNoiseInv, NoncePart
<1>2. NoSession \in [role : Role \cup {"none"}, key : Nat, sn : Nat]
  BY DEF NoSession
<1>3. CASE LinkUp
  <2> DEFINE s == [st EXCEPT !.linked = TRUE, !.hears = TRUE, !.known = FALSE]
             t == Sending("identity", Identity)
  <2>1. Goes(s, {}, {t}) /\ UNCHANGED <<lower, submitted, sealed>>
    BY <1>3 DEF LinkUp
  <2>2. /\ s \in Fields /\ s.made = st.made /\ s.hs = st.hs
        /\ s.session = st.session /\ s.queue = st.queue
    BY <1>1 DEF Fields
  <2>3. Identity \in Packets
    BY PacketTypes DEF Packets
  <2>4. GoodTask(t) /\ t.msgs = <<>>
    BY <2>3, SendingGood
  <2> HIDE DEF s, t
  <2> QED
    BY <2>1, <2>2, <2>4, QuietStep
<1>4. CASE LinkDown
  <2> DEFINE s == [Dropped(st) EXCEPT !.hears = FALSE]
  <2>1. Goes(s, {}, {}) /\ UNCHANGED <<lower, submitted, sealed>>
    BY <1>4 DEF LinkDown
  <2>2. /\ s \in Fields /\ s.made = st.made /\ s.hs = NoHandshake
        /\ s.session = NoSession /\ s.queue = <<>>
    BY <1>1, DroppedFields DEF Fields
  <2> HIDE DEF s
  <2> QED
    BY <2>1, <2>2, QuietStep
<1>5. CASE cleanup_old_sessions
  <2> DEFINE s == [st EXCEPT !.session = NoSession]
  <2>1. Goes(s, {}, {}) /\ UNCHANGED <<lower, submitted, sealed>>
    BY <1>5 DEF cleanup_old_sessions
  <2>2. /\ s \in Fields /\ s.made = st.made /\ s.hs = st.hs
        /\ s.session = NoSession /\ s.queue = st.queue
    BY <1>1, <1>2 DEF Fields
  <2> HIDE DEF s
  <2> QED
    BY <2>1, <2>2, QuietStep
<1>6. CASE AttemptExpires
  <2> DEFINE s == [st EXCEPT !.tried = FALSE]
  <2>1. Goes(s, {}, {}) /\ UNCHANGED <<lower, submitted, sealed>>
    BY <1>6 DEF AttemptExpires
  <2>2. /\ s \in Fields /\ s.made = st.made /\ s.hs = st.hs
        /\ s.session = st.session /\ s.queue = st.queue
    BY <1>1 DEF Fields
  <2> HIDE DEF s
  <2> QED
    BY <2>1, <2>2, QuietStep
<1>7. CASE handle_leave
  <2> DEFINE s == [Dropped(st) EXCEPT !.linked = st.linked]
             u == [st EXCEPT !.known = FALSE]
  <2>1. /\ Goes(s, {}, {}) \/ Goes(u, {}, {})
        /\ UNCHANGED <<lower, submitted, sealed>>
    BY <1>7 DEF handle_leave, Notification
  <2>2. /\ s \in Fields /\ s.made = st.made /\ s.hs = NoHandshake
        /\ s.session = NoSession /\ s.queue = <<>>
    BY <1>1, DroppedFields DEF Fields
  <2>3. /\ u \in Fields /\ u.made = st.made /\ u.hs = st.hs
        /\ u.session = st.session /\ u.queue = st.queue
    BY <1>1 DEF Fields
  <2> HIDE DEF s, u
  <2>4. CASE Goes(s, {}, {})
    BY <2>1, <2>2, <2>4, QuietStep
  <2>5. CASE Goes(u, {}, {})
    BY <2>1, <2>3, <2>5, QuietStep
  <2> QED
    BY <2>1, <2>4, <2>5
<1>8. CASE Block
  <2> DEFINE s == [st EXCEPT !.blocked = ~st.blocked]
  <2>1. Goes(s, {}, {}) /\ UNCHANGED <<lower, submitted, sealed>>
    BY <1>8 DEF Block
  <2>2. /\ s \in Fields /\ s.made = st.made /\ s.hs = st.hs
        /\ s.session = st.session /\ s.queue = st.queue
    BY <1>1 DEF Fields
  <2> HIDE DEF s
  <2> QED
    BY <2>1, <2>2, QuietStep
<1> QED
  BY <1>3, <1>4, <1>5, <1>6, <1>7, <1>8

(* A peer shows up: known from now on, perhaps with a handshake.           *)
LEMMA HelloSteps ==
    ASSUME ClientNoiseInv, handle_announce \/ handle_noise_identity_announce
    PROVE  ClientNoiseInv'
<1> DEFINE s == [st EXCEPT !.known = TRUE]
           u == Initiated(s)
<1>1. st \in Fields
  BY DEF ClientNoiseInv, NoncePart
<1>2. /\ s \in Fields /\ s.made = st.made /\ s.hs = st.hs
      /\ s.session = st.session /\ s.queue = st.queue
  BY <1>1 DEF Fields
<1>3. UNCHANGED <<lower, submitted, sealed>>
  BY DEF handle_announce, handle_noise_identity_announce, Notification
<1>4. \/ Goes(s, {}, {})
      \/ \E do \in {"plain", "fallback"} :
           Goes(u, {}, Started(s, do, FirstMessage(s, "init")))
  BY DEF handle_announce, handle_noise_identity_announce
<1>5. LawfulFields(s)
  <2> HIDE DEF s
  <2> QED
    BY <1>2, <1>3, ClearLawful
<1> HIDE DEF s
<1>6. CASE Goes(s, {}, {})
  BY <1>2, <1>3, <1>6, QuietStep
<1>7. ASSUME NEW do \in {"plain", "fallback"},
             Goes(u, {}, Started(s, do, FirstMessage(s, "init")))
      PROVE  ClientNoiseInv'
  <2> DEFINE new == Started(s, do, FirstMessage(s, "init"))
  <2>1. GoesOn(u, {}, new, heard) /\ heard \subseteq HandshakePacket
    BY <1>7 DEF Goes, ClientNoiseInv
  <2>2. u.queue = st.queue /\ u.session.role = "none"
    BY <1>2, InitiatedFields
  <2>3. \A t \in new : GoodTask(t) /\ t.msgs = <<>>
    <3>1. u.made <= MaxKeys
      BY <2>1 DEF GoesOn
    <3>2. FirstMessage(s, "init") \in Packets
      BY <1>2, <3>1, FirstMessageGood
    <3> QED
      BY <3>2, StartedGood
  <2>4. LawfulFields(u)
    BY <1>5, InitiatedLawful
  <2> HIDE DEF u, new
  <2>5. Moves(u, {}, new)
    BY <1>3, <2>2, <2>3, KeepMoves
  <2>6. Served(u, {}, new)
    BY <2>2 DEF Served, Established
  <2> QED
    BY <1>3, <2>1, <2>3, <2>4, <2>5, <2>6, LawfulStep
<1> QED
  BY <1>4, <1>6, <1>7

(* A handler answers: it is suspended, or goes on without a client.        *)
LEMMA AnswersStep ==
    ASSUME ClientNoiseInv, NEW p \in HandshakePacket, NEW s, NEW new,
           NEW kind \in {"m2", "m3"}, NEW key \in Nat,
           Answers(p, s, kind, key, new),
           s.made <= MaxKeys => key <= MaxKeys,
           LawfulFields(s), Moves(s, {}, new), Served(s, {}, new),
           \A t \in new : GoodTask(t), lower' = lower
    PROVE  ClientNoiseInv'
<1>0. heard \subseteq HandshakePacket
  BY DEF ClientNoiseInv
<1>1. CASE ~s.linked /\ p.type = "exchange"
  <2>1. KeyExchangeHandled(s, {}, new, heard)
    BY <1>1 DEF Answers
  <2> QED
    BY <1>0, <2>1, KeyExchangeHandledStep
<1>2. CASE ~s.linked /\ p.type # "exchange"
  <2>1. HandshakeHandled(s, {}, new, heard)
    BY <1>2 DEF Answers
  <2> QED
    BY <1>0, <2>1, HandshakeHandledStep
<1>3. CASE s.linked
  <2> DEFINE do == IF p.type = "exchange" THEN "exchange" ELSE "answer"
             out == M(AnswerType(p.type), kind, key)
             t == Sending(do, out)
  <2>1. Goes(s, {}, new \cup {t})
    BY <1>3 DEF Answers
  <2>2. p.type \in {"init", "resp", "exchange"}
    BY DEF HandshakePacket
  <2>3. AnswerType(p.type) \in {"init", "resp", "exchange"}
    BY <2>2 DEF AnswerType
  <2>4. out \in Packets
    BY <2>1, <2>3, PacketTypes DEF Packets, Goes, GoesOn
  <2> HIDE DEF out
  <2>5. GoodTask(t) /\ t.msgs = <<>>
    BY <2>4, SendingGood
  <2> HIDE DEF t
  <2>6. Moves(s, {}, new \cup {t})
    BY <2>5, MoreMoves
  <2>7. Served(s, {}, new \cup {t})
    BY DEF Served
  <2>8. GoesOn(s, {}, new \cup {t}, heard)
    BY <2>1 DEF Goes
  <2> QED
    BY <1>0, <2>5, <2>6, <2>7, <2>8, LawfulStep
<1> QED
  BY <1>1, <1>2, <1>3

LEMMA PeerMessageType ==
    ASSUME ClientNoiseInv
    PROVE  PeerMessage \subseteq HandshakePacket
<1>1. heard \subseteq HandshakePacket
  BY DEF ClientNoiseInv
<1> QED
  BY <1>1 DEF PeerMessage, HandshakePacket, M

LEMMA HandshakeMessageStep ==
    ASSUME ClientNoiseInv, HandshakeMessage
    PROVE  ClientNoiseInv'
<1> DEFINE done == [st EXCEPT !.hs = NoHandshake, !.session =
                       [role |-> st.hs.role, key |-> st.hs.key, sn |-> 0]]
           start == [st EXCEPT !.made = st.made + 1, !.hs =
                       [role |-> "responder", key |-> st.made + 1]]
           clear == [st EXCEPT !.hs = NoHandshake]
<1>1. PICK p \in PeerMessage :
        \/ /\ st.hs.role = "none"
           /\ Answers(p, start, "m2", st.made + 1, {})
        \/ /\ Fits(st.hs, p) /\ p.kind = "m2"
           /\ Answers(p, done, "m3", p.key, Authenticated)
        \/ /\ Fits(st.hs, p) /\ p.kind = "m3"
           /\ \/ KeyExchangeHandled(done, {}, Authenticated, heard)
              \/ HandshakeHandled(done, {}, Authenticated, heard)
        \/ Goes(clear, {}, {})
  BY DEF HandshakeMessage
<1>2. UNCHANGED <<lower, submitted, sealed>>
  BY DEF HandshakeMessage, Notification
<1>3. /\ st \in Fields /\ sealed \subseteq AnyCipher /\ Keyed(st, sealed)
      /\ ClientNoncesUnique /\ st.made <= MaxKeys /\ heard \subseteq HandshakePacket
  BY DEF ClientNoiseInv, NoncePart
<1>4. p \in HandshakePacket
  BY PeerMessageType
<1>5. NoHandshake \in [role : Role \cup {"none"}, key : Nat]
  BY DEF NoHandshake
<1>6. st.made \in Nat /\ p.key \in Nat /\ p.key <= MaxKeys
  BY <1>3, <1>4 DEF Fields, HandshakePacket
<1>7. CASE /\ st.hs.role = "none"
           /\ Answers(p, start, "m2", st.made + 1, {})
  <2>1. /\ start \in Fields /\ start.made = st.made + 1
        /\ start.hs.role = "responder" /\ start.hs.key = st.made + 1
        /\ start.session = st.session /\ start.queue = st.queue
    <3>1. st.made + 1 \in Nat
      BY <1>6
    <3>2. [role |-> "responder", key |-> st.made + 1]
            \in [role : Role \cup {"none"}, key : Nat]
      BY <3>1 DEF Role
    <3> QED
      BY <1>3, <3>1, <3>2 DEF Fields
  <2> HIDE DEF start
  <2>2. Keyed(start, sealed)
    BY <1>3, <2>1, NewKeyKeyed
  <2>3. LawfulFields(start)
    BY <1>2, <1>3, <2>1, <2>2 DEF LawfulFields, ClientNoncesUnique
  <2>4. Moves(start, {}, {})
    BY <1>2, <2>1, KeepMoves
  <2>5. Served(start, {}, {})
    BY <2>1, ClearServed
  <2> QED
    BY <1>2, <1>4, <1>6, <1>7, <2>1, <2>3, <2>4, <2>5, AnswersStep
<1>8. ASSUME Fits(st.hs, p)
      PROVE  /\ LawfulFields(done) /\ Moves(done, {}, Authenticated)
             /\ Served(done, {}, Authenticated)
             /\ \A t \in Authenticated : GoodTask(t)
  <2>1. st.hs.role \in Role
    BY <1>8 DEF Fits, Role
  <2>2. /\ done \in Fields /\ done.made = st.made /\ done.hs = NoHandshake
        /\ done.session = [role |-> st.hs.role, key |-> st.hs.key, sn |-> 0]
        /\ done.queue = st.queue
    BY <1>3, <1>5, <2>1 DEF Fields
  <2> HIDE DEF done
  <2>3. Keyed(done, sealed)
    BY <1>3, <2>1, <2>2, SessionKeyed DEF Role
  <2>4. LawfulFields(done)
    BY <1>2, <1>3, <2>2, <2>3 DEF LawfulFields, ClientNoncesUnique
  <2> DEFINE w == Waiting("auth")
  <2>5. GoodTask(w) /\ w.msgs = <<>> /\ w.do = "auth" /\ Authenticated = {w}
    BY WaitingGood DEF Authenticated
  <2> HIDE DEF w
  <2>6. Moves(done, {}, {w})
    BY <1>2, <2>2, <2>5, KeepMoves
  <2>7. Served(done, {}, {w})
    BY <2>5 DEF Served
  <2> QED
    BY <2>4, <2>5, <2>6, <2>7
<1>9. CASE /\ Fits(st.hs, p) /\ p.kind = "m2"
           /\ Answers(p, done, "m3", p.key, Authenticated)
  <2> HIDE DEF done
  <2> QED
    BY <1>2, <1>4, <1>6, <1>8, <1>9, AnswersStep
<1>10. CASE /\ Fits(st.hs, p) /\ p.kind = "m3"
            /\ \/ KeyExchangeHandled(done, {}, Authenticated, heard)
               \/ HandshakeHandled(done, {}, Authenticated, heard)
  <2> HIDE DEF done
  <2> QED
    BY <1>2, <1>3, <1>8, <1>10, KeyExchangeHandledStep, HandshakeHandledStep
<1>11. CASE Goes(clear, {}, {})
  <2>1. /\ clear \in Fields /\ clear.made = st.made /\ clear.hs = NoHandshake
        /\ clear.session = st.session /\ clear.queue = st.queue
    BY <1>3, <1>5 DEF Fields
  <2> HIDE DEF clear
  <2> QED
    BY <1>2, <1>11, <2>1, QuietStep
<1> QED
  BY <1>1, <1>7, <1>9, <1>10, <1>11

-----------------------------------------------------------------------------
(* Messages that arrive and messages that go out.                          *)

LEMMA EncryptedStep ==
    ASSUME ClientNoiseInv, handle_noise_encrypted
    PROVE  ClientNoiseInv'
<1>1. PICK m \in Theirs \ st.shown :
        /\ Goes(Seal([st EXCEPT !.shown = st.shown \cup {m}]), {}, {})
        /\ sealed' = sealed \cup {Cipher("ack", st, m)}
  BY DEF handle_noise_encrypted
<1>2. UNCHANGED <<lower, submitted>> /\ Established(st)
  BY DEF handle_noise_encrypted, Notification
<1>3. /\ st \in Fields /\ sealed \subseteq AnyCipher /\ Keyed(st, sealed)
      /\ ClientNoncesUnique /\ heard \subseteq HandshakePacket
      /\ submitted \subseteq Mine /\ Distinct(st.queue)
  BY DEF ClientNoiseInv, NoncePart, QueuePart
<1>4. m \notin Mine /\ m \in Mine \cup Theirs
  OBVIOUS
<1> DEFINE s == [st EXCEPT !.shown = st.shown \cup {m}]
           u == Seal(s)
           x == Cipher("ack", st, m)
<1>5. /\ s \in Fields /\ s.made = st.made /\ s.hs = st.hs
      /\ s.session = st.session /\ s.queue = st.queue
  BY <1>3 DEF Fields
<1>6. x = Cipher("ack", s, m) /\ x.id = m
  BY <1>5 DEF Cipher
<1>7. u.queue = s.queue
  BY <1>5 DEF Seal, Fields
<1>8. Goes(u, {}, {}) /\ sealed' = sealed \cup {x}
  BY <1>1
<1> HIDE DEF s, x
<1>9. Keyed(s, sealed) /\ Established(s)
  BY <1>2, <1>3, <1>5, ClearKeyed DEF Established
<1>10. LawfulFields(u)
  BY <1>3, <1>4, <1>5, <1>6, <1>8, <1>9, SealKeyed
     DEF LawfulFields, ClientNoncesUnique
<1> HIDE DEF u
<1>11. Moves(u, {}, {})
  BY <1>2, <1>3, <1>4, <1>5, <1>6, <1>7, <1>8 DEF Moves
<1>12. Served(u, {}, {})
  BY <1>2, <1>5, <1>7 DEF Served
<1>13. GoesOn(u, {}, {}, heard)
  BY <1>8 DEF Goes
<1> QED
  BY <1>2, <1>3, <1>10, <1>11, <1>12, <1>13, LawfulStep

LEMMA AppendElements ==
    ASSUME NEW q \in Seq(Mine), NEW m \in Mine
    PROVE  /\ Append(q, m) \in Seq(Mine)
           /\ \A x : x \in Elements(Append(q, m)) <=> x \in Elements(q) \/ x = m
           /\ Distinct(q) /\ m \notin Elements(q) => Distinct(Append(q, m))
<1> DEFINE a == Append(q, m)
           n == Len(q)
<1>1. /\ n \in Nat /\ DOMAIN q = 1..n /\ DOMAIN a = 1..(n + 1)
      /\ a[n + 1] = m /\ \A i \in 1..n : a[i] = q[i]
      /\ a \in Seq(Mine)
  OBVIOUS
<1> HIDE DEF a, n
<1>2. \A x : x \in Elements(a) <=> x \in Elements(q) \/ x = m
  BY <1>1 DEF Elements
<1>3. ASSUME Distinct(q), m \notin Elements(q)
      PROVE  Distinct(a)
  <2>1. \A i \in 1..n : a[i] # m
    BY <1>1, <1>3 DEF Elements
  <2>2. \A i \in 1..(n + 1) : i = n + 1 \/ i \in 1..n
    BY <1>1
  <2> QED
    BY <1>1, <1>3, <2>1, <2>2 DEF Distinct
<1> QED
  BY <1>1, <1>2, <1>3 DEF a

LEMMA TailElements ==
    ASSUME NEW q \in Seq(Mine), q # <<>>, Distinct(q)
    PROVE  /\ Tail(q) \in Seq(Mine) /\ Head(q) \in Mine
           /\ Head(q) \in Elements(q)
           /\ Distinct(Tail(q)) /\ Head(q) \notin Elements(Tail(q))
           /\ \A x \in Elements(Tail(q)) : x \in Elements(q)
<1> DEFINE r == Tail(q)
           n == Len(q)
<1>1. /\ n \in Nat /\ n > 0 /\ DOMAIN q = 1..n /\ DOMAIN r = 1..(n - 1)
      /\ Head(q) = q[1] /\ \A i \in 1..(n - 1) : r[i] = q[i + 1]
      /\ r \in Seq(Mine) /\ Head(q) \in Mine
  OBVIOUS
<1> HIDE DEF r, n
<1>2. \A i \in 1..(n - 1) : i + 1 \in 1..n /\ i + 1 # 1
  BY <1>1
<1>3. \A x \in Elements(r) : x \in Elements(q)
  BY <1>1, <1>2 DEF Elements
<1>4. 1 \in 1..n
  BY <1>1
<1>5. Head(q) \notin Elements(r)
  BY <1>1, <1>2, <1>4 DEF Elements, Distinct
<1>6. Distinct(r)
  <2> SUFFICES ASSUME NEW i \in 1..(n - 1), NEW j \in 1..(n - 1), r[i] = r[j]
               PROVE  i = j
    BY <1>1 DEF Distinct
  <2>1. i + 1 = j + 1
    BY <1>1, <1>2 DEF Distinct
  <2> QED
    BY <2>1, <1>1
<1>7. Head(q) \in Elements(q)
  BY SomeElement
<1> QED
  BY <1>1, <1>3, <1>5, <1>6, <1>7 DEF r

(* send_private_message() moves one message that is free.                  *)
LEMMA SendMoves ==
    ASSUME ClientNoiseInv, NEW s, NEW m \in Mine, NEW old, NEW new,
           NEW rest \in Seq(Mine), old \subseteq BagToSet(tasks),
           submitted \subseteq submitted', submitted' \subseteq Mine,
           Freed(old, m), m \notin Elements(st.queue), Distinct(rest),
           \A x \in Elements(rest) :
             Freed(old, x) /\ x # m /\ x \notin Elements(st.queue),
           \A t \in new : t.msgs = rest,
           \A t, u \in new : t = u,
           \/ /\ s.queue = st.queue \/ s.queue = Append(st.queue, m)
              /\ sealed' = sealed
           \/ /\ s.queue = st.queue
              /\ \E x : x.id = m /\ sealed' = sealed \cup {x}
    PROVE  Moves(s, old, new)
<1>1. st.queue \in Seq(Mine) /\ Distinct(st.queue)
  BY DEF ClientNoiseInv, NoncePart, QueuePart, Fields
<1>2. \A t \in new : Distinct(t.msgs) /\ \A x \in Elements(t.msgs) :
        Freed(old, x) /\ x # m /\ x \notin Elements(st.queue)
  OBVIOUS
<1>3. /\ Distinct(s.queue)
      /\ \A x \in Elements(s.queue) : x \in Elements(st.queue) \/ x = m
  <2> DEFINE q == st.queue
  <2>1. q \in Seq(Mine) /\ Distinct(q) /\ m \notin Elements(q)
    BY <1>1
  <2>2. s.queue = q \/ s.queue = Append(q, m)
    OBVIOUS
  <2> HIDE DEF q
  <2>3. /\ Distinct(Append(q, m))
        /\ \A x \in Elements(Append(q, m)) : x \in Elements(q) \/ x = m
    BY <2>1, AppendElements
  <2> QED
    BY <2>1, <2>2, <2>3 DEF q
<1>4. sealed \subseteq sealed'
      /\ \A c \in sealed' : c \in sealed \/ (c.id = m /\ s.queue = st.queue)
  OBVIOUS
<1>5. \A c, d \in sealed' : c \in sealed \/ d \in sealed \/ c = d
  OBVIOUS
<1>6. \A x \in Elements(s.queue) :
        /\ x \in Elements(st.queue) \/ Freed(old, x)
        /\ \A t \in new : x \notin Elements(t.msgs)
  BY <1>2, <1>3
<1>7. \A c \in sealed' : c \in sealed \/
         /\ Freed(old, c.id)
         /\ c.id \notin Elements(s.queue)
         /\ \A t \in new : c.id \notin Elements(t.msgs)
  BY <1>2, <1>4
<1> QED
  BY <1>2, <1>3, <1>4, <1>5, <1>6, <1>7 DEF Moves

LEMMA RequeueFields ==
    ASSUME NEW s \in Fields, NEW m \in Mine
    PROVE  /\ Requeue(s, m) \in Fields /\ Requeue(s, m).made = s.made
           /\ Requeue(s, m).hs = s.hs /\ Requeue(s, m).session = s.session
           /\ Requeue(s, m).queue = Append(s.queue, m)
<1>1. s.queue \in Seq(Mine)
  BY DEF Fields
<1>2. Append(s.queue, m) \in Seq(Mine)
  BY <1>1
<1> QED
  BY <1>2 DEF Requeue, Fields

LEMMA SendStep ==
    ASSUME ClientNoiseInv, NEW m \in Mine, NEW do \in {"user", "flush"}, NEW old,
           NEW rest \in Seq(Mine), send_private_message(m, do, old, rest),
           lower' = lower, old \subseteq BagToSet(tasks),
           \A t \in old : t.do = "flush", rest # <<>> => do = "flush",
           submitted \subseteq submitted', submitted' \subseteq Mine,
           Freed(old, m), m \notin Elements(st.queue), Distinct(rest),
           \A x \in Elements(rest) :
             Freed(old, x) /\ x # m /\ x \notin Elements(st.queue)
    PROVE  ClientNoiseInv'
<1>1. /\ st \in Fields /\ sealed \subseteq AnyCipher /\ Keyed(st, sealed)
      /\ ClientNoncesUnique /\ st.made <= MaxKeys
      /\ heard \subseteq HandshakePacket
  BY DEF ClientNoiseInv, NoncePart
<1>2. NoPacket \in Packets
  BY DEF Packets
<1>3. \A out \in Packets :
        /\ \A t \in Rest(do, out, rest) : GoodTask(t) /\ t.msgs = rest
        /\ \A t, u \in Rest(do, out, rest) : t = u
  BY RestGood
<1>4. \A t \in old : t.do \notin {"auth", "slept"}
  OBVIOUS
<1>5. CASE /\ ~st.linked /\ sealed' = sealed
           /\ Goes(st, old, Rest(do, NoPacket, rest))
  <2> DEFINE new == Rest(do, NoPacket, rest)
  <2>1. /\ \A t \in new : GoodTask(t) /\ t.msgs = rest
        /\ \A t, u \in new : t = u
    BY <1>2, <1>3
  <2>2. GoesOn(st, old, new, heard)
    BY <1>5 DEF Goes
  <2> HIDE DEF new
  <2>3. LawfulFields(st)
    BY <1>1, <1>5, ClearLawful
  <2>4. Moves(st, old, new)
    BY <1>5, <2>1, SendMoves
  <2>5. Served(st, old, new)
    BY <1>4 DEF Served
  <2> QED
    BY <1>1, <2>1, <2>2, <2>3, <2>4, <2>5, LawfulStep
<1>6. CASE /\ ~Established(st) /\ sealed' = sealed
           /\ Goes(Requeue(st, m), old, Rest(do, NoPacket, rest))
  <2> DEFINE new == Rest(do, NoPacket, rest)
             s == Requeue(st, m)
  <2>1. /\ \A t \in new : GoodTask(t) /\ t.msgs = rest
        /\ \A t, u \in new : t = u
    BY <1>2, <1>3
  <2>2. GoesOn(s, old, new, heard)
    BY <1>6 DEF Goes
  <2>3. /\ s \in Fields /\ s.made = st.made /\ s.hs = st.hs
        /\ s.session = st.session /\ s.queue = Append(st.queue, m)
    BY <1>1, RequeueFields
  <2> HIDE DEF new, s
  <2>4. LawfulFields(s)
    BY <1>6, <2>3, ClearLawful
  <2>5. Moves(s, old, new)
    BY <1>6, <2>1, <2>3, SendMoves
  <2>6. Served(s, old, new)
    BY <1>6, <2>3 DEF Served, Established
  <2> QED
    BY <1>1, <2>1, <2>2, <2>4, <2>5, <2>6, LawfulStep
<1>7. CASE /\ sealed' = sealed
           /\ Goes([Initiated(Requeue(st, m)) EXCEPT !.tried = TRUE], old,
                   Rest(do, FirstMessage(st, "init"), rest))
  <2> DEFINE r == Requeue(st, m)
             i == Initiated(r)
             s == [i EXCEPT !.tried = TRUE]
             out == FirstMessage(st, "init")
             new == Rest(do, out, rest)
  <2>1. GoesOn(s, old, new, heard)
    BY <1>7 DEF Goes
  <2>2. /\ r \in Fields /\ r.made = st.made /\ r.hs = st.hs
        /\ r.session = st.session /\ r.queue = Append(st.queue, m)
    BY <1>1, RequeueFields
  <2> HIDE DEF r
  <2>3. /\ i \in Fields /\ i.made = st.made + 1 /\ i.session = NoSession
        /\ i.session.role = "none" /\ i.queue = Append(st.queue, m)
    BY <2>2, InitiatedFields
  <2>4. LawfulFields(r)
    BY <1>7, <2>2, ClearLawful
  <2>5. LawfulFields(i)
    BY <2>4, InitiatedLawful
  <2> HIDE DEF i
  <2>6. /\ s \in Fields /\ s.made = i.made /\ s.hs = i.hs
        /\ s.session = i.session /\ s.queue = i.queue
    BY <2>3 DEF Fields
  <2> HIDE DEF s
  <2>7. LawfulFields(s)
    BY <2>5, <2>6, ClearKeyed DEF LawfulFields
  <2>8. out \in Packets
    <3>1. st.made + 1 \in Nat /\ st.made + 1 <= MaxKeys
      BY <1>1, <2>1, <2>3, <2>6 DEF GoesOn, Fields
    <3> QED
      BY <3>1, PacketTypes DEF FirstMessage, Packets
  <2> HIDE DEF out
  <2>9. /\ \A t \in new : GoodTask(t) /\ t.msgs = rest
        /\ \A t, u \in new : t = u
    BY <1>3, <2>8
  <2> HIDE DEF new
  <2>10. Moves(s, old, new)
    BY <1>7, <2>3, <2>6, <2>9, SendMoves
  <2>11. Served(s, old, new)
    BY <2>3, <2>6 DEF Served, Established
  <2> QED
    BY <1>1, <2>1, <2>7, <2>9, <2>10, <2>11, LawfulStep
<1>8. CASE /\ Established(st)
           /\ Goes(Seal(st), old, Rest(do, Cipher("encrypted", st, m), rest))
           /\ sealed' = sealed \cup {Cipher("encrypted", st, m)}
  <2> DEFINE x == Cipher("encrypted", st, m)
             s == Seal(st)
             new == Rest(do, x, rest)
  <2>1. GoesOn(s, old, new, heard) /\ sealed' = sealed \cup {x}
    BY <1>8 DEF Goes
  <2>2. x.id = m
    BY DEF Cipher
  <2>3. x \in Packets
    <3>1. /\ st.session.role \in Role /\ st.session.key \in 1..MaxKeys
          /\ st.session.sn \in Nat
      BY <1>1, <1>8 DEF Fields, Keyed, Established
    <3> QED
      BY <3>1 DEF Cipher, Packets, Ciphertext
  <2>4. s.queue = st.queue
    BY <1>1 DEF Seal, Fields
  <2>5. LawfulFields(s)
    BY <1>1, <1>8, <2>1, SealKeyed DEF LawfulFields, ClientNoncesUnique
  <2> HIDE DEF x, s
  <2>6. /\ \A t \in new : GoodTask(t) /\ t.msgs = rest
        /\ \A t, u \in new : t = u
    BY <1>3, <2>3
  <2> HIDE DEF new
  <2>7. Moves(s, old, new)
    BY <2>1, <2>2, <2>4, <2>6, SendMoves
  <2>8. Served(s, old, new)
    BY <1>4, <1>8, <2>4 DEF Served
  <2> QED
    BY <1>1, <2>1, <2>5, <2>6, <2>7, <2>8, LawfulStep
<1> QED
  BY <1>5, <1>6, <1>7, <1>8 DEF send_private_message

LEMMA SubmitStep ==
    ASSUME ClientNoiseInv, Submit
    PROVE  ClientNoiseInv'
<1>1. PICK m \in Mine \ submitted :
        /\ submitted' = submitted \cup {m}
        /\ send_private_message(m, "user", {}, <<>>)
  BY DEF Submit
<1>2. lower' = lower
  BY DEF Submit
<1>3. submitted' \subseteq Mine
  BY <1>1 DEF ClientNoiseInv
<1>4. Freed({}, m)
  BY <1>1 DEF Freed
<1>5. m \notin Elements(st.queue)
  BY DEF ClientNoiseInv, QueuePart, Unsealed
<1> DEFINE rest == <<>>
<1>6. /\ rest \in Seq(Mine) /\ Elements(rest) = {} /\ Distinct(rest)
      /\ rest = <<>>
  BY EmptyMsgs
<1>7. send_private_message(m, "user", {}, rest)
  BY <1>1
<1> HIDE DEF rest
<1> QED
  BY <1>1, <1>2, <1>3, <1>4, <1>5, <1>6, <1>7, SendStep

LEMMA FlushNextStep ==
    ASSUME ClientNoiseInv, FlushNext
    PROVE  ClientNoiseInv'
<1>1. PICK t \in BagToSet(tasks) :
        /\ t.do = "flush" /\ t.out = NoPacket
        /\ send_private_message(Head(t.msgs), "flush", {t}, Tail(t.msgs))
  BY DEF FlushNext
<1>2. lower' = lower /\ submitted' = submitted /\ submitted \subseteq Mine
  BY DEF FlushNext, ClientNoiseInv
<1>3. /\ t.msgs \in Seq(Mine) /\ t.msgs # <<>> /\ Distinct(t.msgs)
      /\ \A x \in Elements(t.msgs) : x \notin Elements(st.queue)
  BY <1>1 DEF ClientNoiseInv, TaskPart, QueuePart, GoodTask, Task
<1> DEFINE q == t.msgs
           m == Head(q)
           rest == Tail(q)
<1>4. \A x \in Elements(q) : Freed({t}, x)
  BY DEF Freed
<1>5. q \in Seq(Mine) /\ q # <<>> /\ Distinct(q)
  BY <1>3
<1>6. \A x \in Elements(q) : x \notin Elements(st.queue)
  BY <1>3
<1>7. send_private_message(m, "flush", {t}, rest)
  BY <1>1
<1> HIDE DEF q
<1>8. /\ rest \in Seq(Mine) /\ m \in Mine /\ m \in Elements(q)
      /\ Distinct(rest) /\ m \notin Elements(rest)
      /\ \A x \in Elements(rest) : x \in Elements(q)
  BY <1>5, TailElements
<1> HIDE DEF m, rest
<1>9. \A x \in Elements(rest) :
        Freed({t}, x) /\ x # m /\ x \notin Elements(st.queue)
  BY <1>4, <1>6, <1>8
<1> QED
  BY <1>1, <1>2, <1>4, <1>6, <1>7, <1>8, <1>9, SendStep

LEMMA FlushStartsStep ==
    ASSUME ClientNoiseInv, FlushStarts
    PROVE  ClientNoiseInv'
<1>1. PICK t \in BagToSet(tasks) :
        /\ t.do \in {"auth", "slept"}
        /\ Goes(PendingTaken(st), {t}, Rest("flush", NoPacket, st.queue))
  BY DEF FlushStarts
<1>2. UNCHANGED <<lower, submitted, sealed>>
  BY DEF FlushStarts
<1>3. /\ st \in Fields /\ heard \subseteq HandshakePacket
      /\ submitted \subseteq Mine /\ Distinct(st.queue)
  BY DEF ClientNoiseInv, NoncePart, QueuePart
<1> DEFINE s == PendingTaken(st)
           q == st.queue
           new == Rest("flush", NoPacket, q)
<1>4. /\ s \in Fields /\ s.made = st.made /\ s.hs = st.hs
      /\ s.session = st.session /\ s.queue = <<>>
  <2>1. <<>> \in Seq(Mine)
    OBVIOUS
  <2> QED
    BY <1>3, <2>1 DEF PendingTaken, Fields
<1>5. q \in Seq(Mine) /\ NoPacket \in Packets
  BY <1>3 DEF Fields, Packets
<1>6. GoesOn(s, {t}, new, heard)
  BY <1>1 DEF Goes
<1>7. Distinct(q) /\ q = st.queue
  BY <1>3
<1> HIDE DEF q, s
<1>8. /\ \A r \in new : GoodTask(r) /\ r.msgs = q
      /\ \A r, u \in new : r = u
  BY <1>5, RestGood
<1> HIDE DEF new
<1>9. LawfulFields(s)
  BY <1>2, <1>4, ClearLawful
<1>10. Moves(s, {t}, new)
  <2>1. Elements(s.queue) = {} /\ Distinct(s.queue)
    BY <1>4, EmptyMsgs
  <2>2. sealed' = sealed /\ submitted' = submitted
    BY <1>2
  <2> QED
    BY <1>3, <1>7, <1>8, <2>1, <2>2 DEF Moves
<1>11. Served(s, {t}, new)
  BY <1>4 DEF Served
<1> QED
  BY <1>2, <1>3, <1>6, <1>8, <1>9, <1>10, <1>11, LawfulStep

-----------------------------------------------------------------------------
(* send_packet() comes back.                                               *)

(* A task that was sending ends, and leaves at most its own messages.      *)
LEMMA SentStep ==
    ASSUME ClientNoiseInv, NEW t \in BagToSet(tasks), t.out # NoPacket,
           NEW s \in Fields, NEW new, NEW reached \in SUBSET HandshakePacket,
           UNCHANGED <<lower, submitted, sealed>>,
           s.made = st.made, s.hs = st.hs \/ s.hs = NoHandshake,
           s.session = st.session \/ s.session = NoSession,
           s.queue = st.queue \/ s.queue = <<>>,
           \A r \in new : GoodTask(r) /\ (r.msgs = <<>> \/ r.msgs = t.msgs),
           \A r, u \in new : r = u
    PROVE  /\ LawfulFields(s) /\ Moves(s, {t}, new) /\ Served(s, {t}, new)
           /\ GoesOn(s, {t}, new, reached) => ClientNoiseInv'
<1>1. LawfulFields(s)
  BY ClearLawful
<1>2. Moves(s, {t}, new)
  BY KeepMoves
<1>3. Served(s, {t}, new)
  BY ClearServed
<1> QED
  BY <1>1, <1>2, <1>3, LawfulStep

LEMMA ReturnsStep ==
    ASSUME ClientNoiseInv, NEW t \in BagToSet(tasks), t.out # NoPacket,
           NEW s \in Fields, NEW reached \in SUBSET HandshakePacket,
           UNCHANGED <<lower, submitted, sealed>>,
           s.made = st.made, s.hs = st.hs \/ s.hs = NoHandshake,
           s.session = st.session \/ s.session = NoSession,
           s.queue = st.queue \/ s.queue = <<>>,
           Returns(t, s, reached)
    PROVE  ClientNoiseInv'
<1>1. GoodTask(t)
  BY DEF ClientNoiseInv, TaskPart
<1>2. CASE t.do \in {"identity", "instead"}
  <2> DEFINE n == Sending("announce", Announcement)
  <2>1. Announcement \in Packets
    BY PacketTypes DEF Packets
  <2>2. GoodTask(n) /\ n.msgs = <<>>
    BY <2>1, SendingGood
  <2>3. GoesOn(s, {t}, {n}, reached)
    BY <1>2 DEF Returns
  <2> HIDE DEF n
  <2> QED
    BY <2>2, <2>3, SentStep
<1>3. /\ LawfulFields(s) /\ Moves(s, {t}, {}) /\ Served(s, {t}, {})
  BY SentStep
<1>4. CASE t.do = "answer"
  <2>1. HandshakeHandled(s, {t}, {}, reached)
    BY <1>4 DEF Returns
  <2> QED
    BY <1>3, <2>1, HandshakeHandledStep
<1>5. CASE t.do = "exchange"
  <2>1. KeyExchangeHandled(s, {t}, {}, reached)
    BY <1>5 DEF Returns
  <2> QED
    BY <1>3, <2>1, KeyExchangeHandledStep
<1>6. CASE t.do \notin {"identity", "instead", "answer", "exchange"}
  <2> DEFINE new == Rest(t.do, NoPacket, t.msgs)
  <2>1. GoesOn(s, {t}, new, reached)
    BY <1>6 DEF Returns
  <2>2. /\ \A r \in new : GoodTask(r) /\ r.msgs = t.msgs
        /\ \A r, u \in new : r = u
    BY <1>1, RestOfTask
  <2> HIDE DEF new
  <2> QED
    BY <2>1, <2>2, SentStep
<1> QED
  BY <1>2, <1>4, <1>5, <1>6

LEMMA WrittenSteps ==
    ASSUME ClientNoiseInv, Written \/ NotConnected
    PROVE  ClientNoiseInv'
<1>1. st \in Fields /\ heard \subseteq HandshakePacket
  BY DEF ClientNoiseInv, NoncePart
<1>2. UNCHANGED <<lower, submitted, sealed>>
  BY DEF Written, NotConnected
<1>3. CASE Written
  <2>1. PICK t \in BagToSet(tasks) :
          /\ t.out # NoPacket
          /\ \E reached \in {{}, {t.out} \cap HandshakePacket} :
               Returns(t, st, heard \cup reached)
    BY <1>3 DEF Written
  <2>2. PICK got : got \subseteq HandshakePacket /\ Returns(t, st, heard \cup got)
    BY <2>1
  <2> DEFINE reached == heard \cup got
  <2>3. reached \in SUBSET HandshakePacket /\ Returns(t, st, reached)
    BY <1>1, <2>2
  <2> HIDE DEF reached
  <2> QED
    BY <1>1, <1>2, <2>1, <2>3, ReturnsStep
<1>4. CASE NotConnected
  <2> DEFINE s == [Dropped(st) EXCEPT !.hears = FALSE]
  <2>1. PICK t \in BagToSet(tasks) : t.out # NoPacket /\ Returns(t, s, heard)
    BY <1>4 DEF NotConnected
  <2>2. /\ s \in Fields /\ s.made = st.made /\ s.hs = NoHandshake
        /\ s.session = NoSession /\ s.queue = <<>>
    BY <1>1, DroppedFields DEF Fields
  <2> HIDE DEF s
  <2> QED
    BY <1>1, <1>2, <2>1, <2>2, ReturnsStep
<1> QED
  BY <1>3, <1>4

LEMMA RaisesStep ==
    ASSUME ClientNoiseInv, Raises
    PROVE  ClientNoiseInv'
<1>1. /\ st \in Fields /\ heard \in SUBSET HandshakePacket
  BY DEF ClientNoiseInv, NoncePart
<1>2. UNCHANGED <<lower, submitted, sealed>>
  BY DEF Raises
<1> DEFINE unlinked == [st EXCEPT !.linked = FALSE]
           cleared == [st EXCEPT !.hs = NoHandshake]
           again == [st EXCEPT !.tried = FALSE]
           next == IF st.linked THEN Sending("instead", LegacyKey)
                   ELSE Sending("announce", Announcement)
           legacy == Started(st, "plain", LegacyKey)
<1>3. PICK t \in BagToSet(tasks) :
        /\ t.out # NoPacket
        /\ \/ Goes(st, {t}, {next})
           \/ Goes(unlinked, {t}, {})
           \/ Goes(st, {t}, legacy)
           \/ Goes(cleared, {t}, {})
           \/ Goes(again, {t}, Rest(t.do, NoPacket, t.msgs))
           \/ Goes(st, {t}, Rest(t.do, NoPacket, t.msgs))
  BY DEF Raises
<1> DEFINE rest == Rest(t.do, NoPacket, t.msgs)
<1>4. /\ \A r \in rest : GoodTask(r) /\ r.msgs = t.msgs
      /\ \A r, u \in rest : r = u
  BY <1>3, RestOfTask DEF ClientNoiseInv, TaskPart
<1>5. LegacyKey \in Packets /\ Announcement \in Packets
  BY PacketTypes DEF Packets
<1>6. GoodTask(next) /\ next.msgs = <<>>
  BY <1>5, SendingGood
<1>7. /\ \A r \in legacy : GoodTask(r) /\ r.msgs = <<>>
      /\ \A r, u \in legacy : r = u
  BY <1>5, StartedGood DEF Started
<1>8. NoHandshake \in [role : Role \cup {"none"}, key : Nat]
  BY DEF NoHandshake
<1>9. /\ unlinked \in Fields /\ unlinked.made = st.made /\ unlinked.hs = st.hs
      /\ unlinked.session = st.session /\ unlinked.queue = st.queue
  BY <1>1 DEF Fields
<1>10. /\ cleared \in Fields /\ cleared.made = st.made /\ cleared.hs = NoHandshake
       /\ cleared.session = st.session /\ cleared.queue = st.queue
  BY <1>1, <1>8 DEF Fields
<1>11. /\ again \in Fields /\ again.made = st.made /\ again.hs = st.hs
       /\ again.session = st.session /\ again.queue = st.queue
  BY <1>1 DEF Fields
<1>12. \/ GoesOn(st, {t}, {next}, heard)
       \/ GoesOn(unlinked, {t}, {}, heard)
       \/ GoesOn(st, {t}, legacy, heard)
       \/ GoesOn(cleared, {t}, {}, heard)
       \/ GoesOn(again, {t}, rest, heard)
       \/ GoesOn(st, {t}, rest, heard)
  BY <1>3 DEF Goes
<1> HIDE DEF unlinked, cleared, again, next, legacy, rest
<1>13. CASE GoesOn(st, {t}, {next}, heard)
  BY <1>1, <1>2, <1>3, <1>6, <1>13, SentStep
<1>14. CASE GoesOn(unlinked, {t}, {}, heard)
  BY <1>1, <1>2, <1>3, <1>9, <1>14, SentStep
<1>15. CASE GoesOn(st, {t}, legacy, heard)
  BY <1>1, <1>2, <1>3, <1>7, <1>15, SentStep
<1>16. CASE GoesOn(cleared, {t}, {}, heard)
  BY <1>1, <1>2, <1>3, <1>10, <1>16, SentStep
<1>17. CASE GoesOn(again, {t}, rest, heard)
  BY <1>1, <1>2, <1>3, <1>4, <1>11, <1>17, SentStep
<1>18. CASE GoesOn(st, {t}, rest, heard)
  BY <1>1, <1>2, <1>3, <1>4, <1>18, SentStep
<1> QED
  BY <1>12, <1>13, <1>14, <1>15, <1>16, <1>17, <1>18

-----------------------------------------------------------------------------
(* The theorems                                                            *)

LEMMA ClientNoiseInit ==
    Init => ClientNoiseInv
<1> SUFFICES ASSUME Init
             PROVE  ClientNoiseInv
  OBVIOUS
<1>1. /\ NoSession \in [role : Role \cup {"none"}, key : Nat, sn : Nat]
      /\ NoSession.role = "none" /\ NoSession.key = 0 /\ NoSession.sn = 0
  BY DEF NoSession
<1>2. /\ NoHandshake \in [role : Role \cup {"none"}, key : Nat]
      /\ NoHandshake.role = "none" /\ NoHandshake.key = 0
  BY DEF NoHandshake
<1>3. <<>> \in Seq(Mine)
  OBVIOUS
<1>4. /\ st \in Fields /\ st.made = 0 /\ st.hs = NoHandshake
      /\ st.session = NoSession /\ st.queue = <<>>
  BY <1>1, <1>2, <1>3 DEF Init, Fields
<1>5. sealed = {} /\ submitted = {} /\ heard = {} /\ lower \in BOOLEAN
  BY DEF Init
<1>6. NoncePart
  BY <1>1, <1>2, <1>4, <1>5 DEF NoncePart, Keyed, ClientNoncesUnique
<1>7. IsABag(tasks) /\ BagToSet(tasks) = {}
  BY DEF Init, EmptyBag, SetToBag, IsABag, BagToSet
<1>8. QueuePart /\ QueueServed
  BY <1>1, <1>4, EmptyMsgs DEF QueuePart, QueueServed, Established
<1> QED
  BY <1>5, <1>6, <1>7, <1>8 DEF ClientNoiseInv, TaskPart, SealedPart

LEMMA ClientNoiseNext ==
    ClientNoiseInv /\ [Next]_vars => ClientNoiseInv'
<1> SUFFICES ASSUME ClientNoiseInv, [Next]_vars
             PROVE  ClientNoiseInv'
  OBVIOUS
<1>1. CASE Next
  BY <1>1, LinkSteps, HelloSteps, HandshakeMessageStep, EncryptedStep,
     SubmitStep, FlushStartsStep, FlushNextStep, WrittenSteps, RaisesStep DEF Next
<1>2. CASE UNCHANGED vars
  BY <1>2 DEF vars, ClientNoiseInv, NoncePart, ClientNoncesUnique, QueuePart,
     TaskPart, SealedPart, QueueServed, Unsealed
<1> QED
  BY <1>1, <1>2

(* The inductive invariant holds of every behaviour: each key goes from    *)
(* the handshake state to the session that counts its nonces, and each     *)
(* private message is in one place at a time.                              *)
THEOREM ClientNoiseInvariant == Spec => []ClientNoiseInv
BY ClientNoiseInit, ClientNoiseNext, PTL DEF Spec

LEMMA ClientNoiseTypes ==
    ClientNoiseInv => ClientNoiseTypeOK
<1> SUFFICES ASSUME ClientNoiseInv
             PROVE  ClientNoiseTypeOK
  OBVIOUS
<1>1. /\ st \in Fields /\ st.made <= MaxKeys /\ sealed \subseteq AnyCipher
      /\ Keyed(st, sealed)
  BY DEF ClientNoiseInv, NoncePart
<1>2. st.made \in 0..MaxKeys
  BY <1>1 DEF Fields
<1>3. st.hs \in Handshake
  <2>1. st.hs \in [role : Role \cup {"none"}, key : Nat]
    BY <1>1 DEF Fields
  <2>2. CASE st.hs.role = "none"
    <3>1. st.hs = NoHandshake
      BY <1>1, <2>1, <2>2 DEF Keyed, NoHandshake
    <3> QED
      BY <3>1 DEF Handshake
  <2>3. CASE st.hs.role # "none"
    <3>1. st.hs.key \in 1..MaxKeys /\ st.hs.role \in Role
      BY <1>1, <1>2, <2>1, <2>3 DEF Keyed
    <3> QED
      BY <2>1, <3>1 DEF Handshake
  <2> QED
    BY <2>2, <2>3
<1>4. st.session \in Session
  <2>1. st.session \in [role : Role \cup {"none"}, key : Nat, sn : Nat]
    BY <1>1 DEF Fields
  <2>2. CASE st.session.role = "none"
    <3>1. st.session = NoSession
      BY <1>1, <2>1, <2>2 DEF Keyed, NoSession
    <3> QED
      BY <3>1 DEF Session
  <2>3. CASE st.session.role # "none"
    <3>1. st.session.key \in 1..MaxKeys /\ st.session.role \in Role
      BY <1>1, <1>2, <2>1, <2>3 DEF Keyed
    <3> QED
      BY <2>1, <3>1 DEF Session
  <2> QED
    BY <2>2, <2>3
<1>5. st \in State
  BY <1>1, <1>2, <1>3, <1>4 DEF Fields, State
<1>6. sealed \subseteq Ciphertext
  <2> SUFFICES ASSUME NEW c \in sealed
               PROVE  c \in Ciphertext
    OBVIOUS
  <2>1. c \in AnyCipher
    BY <1>1
  <2>2. c.key \in 1..MaxKeys
    BY <1>1, <1>2, <2>1 DEF Keyed, AnyCipher
  <2> QED
    BY <2>1, <2>2 DEF AnyCipher, Ciphertext
<1>7. IsABag(tasks) /\ \A t \in BagToSet(tasks) : t \in Task
  BY DEF ClientNoiseInv, TaskPart, GoodTask
<1> QED
  BY <1>5, <1>6, <1>7 DEF ClientNoiseTypeOK, ClientNoiseInv

(* Fields, tasks and packets have the types of ClientNoiseTypeOK, whatever *)
(* the radio loses and in whatever order the handlers of bitchat.py resume.*)
THEOREM ClientNoiseTypeCorrect == Spec => []ClientNoiseTypeOK
BY ClientNoiseInvariant, ClientNoiseTypes, PTL

(* No key of the client is used twice with one nonce, over any number of   *)
(* sessions that session.encrypt() serves.                                 *)
THEOREM ClientNoncesAreUnique == Spec => []ClientNoncesUnique
<1>1. ClientNoiseInv => ClientNoncesUnique
  BY DEF ClientNoiseInv, NoncePart
<1> QED
  BY <1>1, ClientNoiseInvariant, PTL

(* What is queued while there is a session has a call of                   *)
(* send_pending_private_messages() on its way.                             *)
THEOREM QueuesAreServed == Spec => []QueueServed
<1>1. ClientNoiseInv => QueueServed
  BY DEF ClientNoiseInv
<1> QED
  BY <1>1, ClientNoiseInvariant, PTL

LEMMA AtMostOne ==
    ASSUME NEW S, \A a, b \in S : a = b
    PROVE  /\ Cardinality(S) \in {0, 1}
           /\ S = {} => Cardinality(S) = 0
<1>1. CASE S = {}
  BY <1>1, FS_EmptySet
<1>2. CASE S # {}
  <2>1. PICK a : S = {a}
    BY <1>2
  <2> QED
    BY <1>2, <2>1, FS_Singleton
<1> QED
  BY <1>1, <1>2

LEMMA OnePlace ==
    ClientNoiseInv => SentOnce
<1> SUFFICES ASSUME ClientNoiseInv, NEW m \in Mine
             PROVE  Cardinality({c \in sealed : c.id = m})
                    + Cardinality({k \in DOMAIN st.queue : st.queue[k] = m})
                    + Cardinality({t \in BagToSet(tasks) : m \in Elements(t.msgs)})
                    <= 1
  BY DEF SentOnce
<1> DEFINE A == {c \in sealed : c.id = m}
           B == {k \in DOMAIN st.queue : st.queue[k] = m}
           C == {t \in BagToSet(tasks) : m \in Elements(t.msgs)}
<1>1. \A a, b \in A : a = b
  BY DEF ClientNoiseInv, SealedPart
<1>2. \A a, b \in B : a = b
  BY DEF ClientNoiseInv, QueuePart, Distinct
<1>3. \A a, b \in C : a = b
  BY DEF ClientNoiseInv, TaskPart
<1>4. B # {} => m \in Elements(st.queue)
  BY DEF Elements
<1>5. m \in Elements(st.queue) => A = {} /\ C = {}
  BY DEF ClientNoiseInv, QueuePart, Unsealed
<1>6. C # {} => A = {}
  BY DEF ClientNoiseInv, TaskPart, Unsealed
<1> HIDE DEF A, B, C
<1>7. /\ Cardinality(A) \in {0, 1} /\ (A = {} => Cardinality(A) = 0)
      /\ Cardinality(B) \in {0, 1} /\ (B = {} => Cardinality(B) = 0)
      /\ Cardinality(C) \in {0, 1} /\ (C = {} => Cardinality(C) = 0)
  BY <1>1, <1>2, <1>3, AtMostOne
<1>8. Cardinality(A) + Cardinality(B) + Cardinality(C) <= 1
  BY <1>4, <1>5, <1>6, <1>7
<1> QED
  BY <1>8 DEF A, B, C

(* A private message is queued, held by a flush or encrypted at most once: *)
(* the two flushes behind a handshake never send it twice.                 *)
THEOREM PrivateMessagesSentOnce == Spec => []SentOnce
BY ClientNoiseInvariant, OnePlace, PTL

-----------------------------------------------------------------------------
(* What waits is kept.                                                     *)

(* The condition under which the code gives messages up.                   *)
GivesUp(s) == ~s.linked \/ (st.known /\ ~s.known)

(* What the queue and the tasks that end held goes on somewhere.           *)
Keeps(s, old, new) ==
    GivesUp(s) \/
    \A x : x \in Elements(st.queue) \/ (\E u \in old : x \in Elements(u.msgs)) =>
       \/ x \in Elements(s.queue)
       \/ \E t \in new : x \in Elements(t.msgs)
       \/ \E c \in sealed' \ sealed : c.id = x

KeptNow ==
    \A m \in Held :
       \/ m \in Held'
       \/ \E c \in sealed' \ sealed : c.id = m
       \/ ~st'.linked
       \/ st.known /\ ~st'.known

LEMMA KeepsStep ==
    ASSUME ClientNoiseInv, NEW s, NEW old, NEW new, NEW reached,
           GoesOn(s, old, new, reached), Keeps(s, old, new)
    PROVE  KeptNow
<1>1. st' = s /\ tasks' = (tasks (-) SetToBag(old)) (+) SetToBag(new)
  BY DEF GoesOn
<1>2. IsABag(tasks)
  BY DEF ClientNoiseInv, TaskPart
<1>3. /\ \A t \in new : t \in BagToSet(tasks')
      /\ \A t \in BagToSet(tasks) : t \in old \/ t \in BagToSet(tasks')
  BY <1>1, <1>2, BagStep
<1>4. CASE GivesUp(s)
  BY <1>1, <1>4 DEF KeptNow, GivesUp
<1>5. CASE ~GivesUp(s)
  <2> SUFFICES ASSUME NEW m \in Held
               PROVE  m \in Held' \/ \E c \in sealed' \ sealed : c.id = m
    BY DEF KeptNow
  <2>1. \A x : x \in Held' <=> x \in Elements(st'.queue)
                 \/ \E t \in BagToSet(tasks') : x \in Elements(t.msgs)
    BY DEF Held
  <2>2. m \in Elements(st.queue) \/ \E t \in BagToSet(tasks) : m \in Elements(t.msgs)
    BY DEF Held
  <2>3. CASE m \in Elements(st.queue) \/ \E u \in old : m \in Elements(u.msgs)
    BY <1>1, <1>3, <1>5, <2>1, <2>3 DEF Keeps
  <2>4. ASSUME NEW t \in BagToSet(tasks), t \notin old, m \in Elements(t.msgs)
        PROVE  m \in Held'
    BY <1>3, <2>1, <2>4
  <2> QED
    BY <2>2, <2>3, <2>4
<1> QED
  BY <1>4, <1>5

LEMMA PlainKeeps ==
    ASSUME NEW s, NEW old, NEW new, s.queue = st.queue \/ GivesUp(s),
           \A u \in old : u.msgs = <<>> \/ \E t \in new : t.msgs = u.msgs
    PROVE  Keeps(s, old, new)
BY EmptyMsgs DEF Keeps

LEMMA InitiatedKeeps ==
    ASSUME NEW s \in Fields
    PROVE  /\ Initiated(s).linked = s.linked /\ Initiated(s).known = s.known
           /\ Initiated(s).queue = s.queue
BY DEF Initiated, Fields

LEMMA HandledKeeps ==
    ASSUME ClientNoiseInv, NEW s \in Fields, NEW old, NEW new, NEW reached,
           HandshakeHandled(s, old, new, reached)
             \/ KeyExchangeHandled(s, old, new, reached),
           s.queue = st.queue \/ GivesUp(s),
           \A u \in old : u.msgs = <<>>
    PROVE  KeptNow
<1> DEFINE u == [s EXCEPT !.tried = FALSE]
           i == Initiated(s)
<1>1. PICK more :
        \/ GoesOn(s, old, more, reached)
        \/ GoesOn(u, old, more, reached)
        \/ GoesOn(i, old, more, reached)
  BY DEF HandshakeHandled, KeyExchangeHandled
<1>2. u.queue = s.queue /\ u.linked = s.linked /\ u.known = s.known
  BY DEF Fields
<1>3. i.queue = s.queue /\ i.linked = s.linked /\ i.known = s.known
  BY InitiatedKeeps
<1> HIDE DEF u, i
<1>4. Keeps(s, old, more)
  BY PlainKeeps
<1>5. Keeps(u, old, more)
  BY <1>2, PlainKeeps DEF GivesUp
<1>6. Keeps(i, old, more)
  BY <1>3, PlainKeeps DEF GivesUp
<1> QED
  BY <1>1, <1>4, <1>5, <1>6, KeepsStep

(* Nothing ends.                                                           *)
LEMMA NoEndKeeps ==
    ASSUME ClientNoiseInv, NEW s, NEW new, Goes(s, {}, new),
           s.queue = st.queue \/ GivesUp(s)
    PROVE  KeptNow
<1>1. Keeps(s, {}, new)
  BY PlainKeeps
<1> QED
  BY <1>1, KeepsStep DEF Goes

LEMMA HandlersKeep ==
    ASSUME ClientNoiseInv,
           \/ LinkUp \/ LinkDown \/ cleanup_old_sessions \/ AttemptExpires
           \/ handle_announce \/ handle_noise_identity_announce \/ handle_leave
           \/ handle_noise_encrypted \/ Block
    PROVE  KeptNow
<1>1. st \in Fields
  BY DEF ClientNoiseInv, NoncePart
<1>2. CASE LinkUp
  <2> DEFINE s == [st EXCEPT !.linked = TRUE, !.hears = TRUE, !.known = FALSE]
             t == Sending("identity", Identity)
  <2>1. Goes(s, {}, {t})
    BY <1>2 DEF LinkUp
  <2>2. s.queue = st.queue
    BY <1>1 DEF Fields
  <2> HIDE DEF s
  <2> QED
    BY <2>1, <2>2, NoEndKeeps
<1>3. CASE LinkDown
  <2> DEFINE s == [Dropped(st) EXCEPT !.hears = FALSE]
  <2>1. Goes(s, {}, {})
    BY <1>3 DEF LinkDown
  <2>2. ~s.linked
    BY <1>1 DEF Dropped, Fields
  <2> HIDE DEF s
  <2> QED
    BY <2>1, <2>2, NoEndKeeps DEF GivesUp
<1>4. CASE cleanup_old_sessions
  <2> DEFINE s == [st EXCEPT !.session = NoSession]
  <2>1. Goes(s, {}, {})
    BY <1>4 DEF cleanup_old_sessions
  <2>2. s.queue = st.queue
    BY <1>1 DEF Fields
  <2> HIDE DEF s
  <2> QED
    BY <2>1, <2>2, NoEndKeeps
<1>5. CASE AttemptExpires
  <2> DEFINE s == [st EXCEPT !.tried = FALSE]
  <2>1. Goes(s, {}, {})
    BY <1>5 DEF AttemptExpires
  <2>2. s.queue = st.queue
    BY <1>1 DEF Fields
  <2> HIDE DEF s
  <2> QED
    BY <2>1, <2>2, NoEndKeeps
<1>6. CASE handle_announce \/ handle_noise_identity_announce
  <2> DEFINE s == [st EXCEPT !.known = TRUE]
             i == Initiated(s)
  <2>1. PICK new : Goes(s, {}, new) \/ Goes(i, {}, new)
    BY <1>6 DEF handle_announce, handle_noise_identity_announce
  <2>2. s \in Fields /\ s.queue = st.queue
    BY <1>1 DEF Fields
  <2> HIDE DEF s
  <2>3. i.queue = st.queue
    BY <2>2, InitiatedKeeps
  <2> HIDE DEF i
  <2> QED
    BY <2>1, <2>2, <2>3, NoEndKeeps
<1>7. CASE handle_leave
  <2> DEFINE s == [Dropped(st) EXCEPT !.linked = st.linked]
             u == [st EXCEPT !.known = FALSE]
  <2>1. Goes(s, {}, {}) \/ Goes(u, {}, {})
    BY <1>7 DEF handle_leave
  <2>2. st.known /\ ~s.known
    BY <1>1, <1>7 DEF handle_leave, Dropped, Fields
  <2>3. u.queue = st.queue
    BY <1>1 DEF Fields
  <2> HIDE DEF s, u
  <2>4. CASE Goes(s, {}, {})
    BY <2>2, <2>4, NoEndKeeps DEF GivesUp
  <2>5. CASE Goes(u, {}, {})
    BY <2>3, <2>5, NoEndKeeps
  <2> QED
    BY <2>1, <2>4, <2>5
<1>8. CASE handle_noise_encrypted
  <2>1. PICK m : Goes(Seal([st EXCEPT !.shown = st.shown \cup {m}]), {}, {})
    BY <1>8 DEF handle_noise_encrypted
  <2> DEFINE r == [st EXCEPT !.shown = st.shown \cup {m}]
             s == Seal(r)
  <2>2. s.queue = st.queue
    BY <1>1 DEF Fields, Seal
  <2>3. Goes(s, {}, {})
    BY <2>1
  <2> HIDE DEF s
  <2> QED
    BY <2>2, <2>3, NoEndKeeps
<1>9. CASE Block
  <2> DEFINE s == [st EXCEPT !.blocked = ~st.blocked]
  <2>1. Goes(s, {}, {})
    BY <1>9 DEF Block
  <2>2. s.queue = st.queue
    BY <1>1 DEF Fields
  <2> HIDE DEF s
  <2> QED
    BY <2>1, <2>2, NoEndKeeps
<1> QED
  BY <1>2, <1>3, <1>4, <1>5, <1>6, <1>7, <1>8, <1>9

LEMMA HandshakeMessageKeeps ==
    ASSUME ClientNoiseInv, HandshakeMessage
    PROVE  KeptNow
<1> DEFINE done == [st EXCEPT !.hs = NoHandshake, !.session =
                       [role |-> st.hs.role, key |-> st.hs.key, sn |-> 0]]
           start == [st EXCEPT !.made = st.made + 1, !.hs =
                       [role |-> "responder", key |-> st.made + 1]]
           clear == [st EXCEPT !.hs = NoHandshake]
<1>1. st \in Fields
  BY DEF ClientNoiseInv, NoncePart
<1>2. /\ start \in Fields /\ start.queue = st.queue
      /\ clear \in Fields /\ clear.queue = st.queue
  <2>1. st.made + 1 \in Nat
    BY <1>1 DEF Fields
  <2>2. [role |-> "responder", key |-> st.made + 1]
          \in [role : Role \cup {"none"}, key : Nat]
    BY <2>1 DEF Role
  <2>3. NoHandshake \in [role : Role \cup {"none"}, key : Nat]
    BY DEF NoHandshake
  <2>4. start \in Fields /\ start.queue = st.queue
    BY <1>1, <2>1, <2>2 DEF Fields
  <2>5. clear \in Fields /\ clear.queue = st.queue
    BY <1>1, <2>3 DEF Fields
  <2> QED
    BY <2>4, <2>5
<1>3. done \in Fields /\ done.queue = st.queue
  <2>1. NoHandshake \in [role : Role \cup {"none"}, key : Nat]
    BY DEF NoHandshake
  <2>2. [role |-> st.hs.role, key |-> st.hs.key, sn |-> 0]
          \in [role : Role \cup {"none"}, key : Nat, sn : Nat]
    BY <1>1 DEF Fields
  <2> QED
    BY <1>1, <2>1, <2>2 DEF Fields
<1>4. \/ \E p, kind, key, new : Answers(p, start, kind, key, new)
      \/ \E p, kind, key, new : Answers(p, done, kind, key, new)
      \/ \E new : KeyExchangeHandled(done, {}, new, heard)
                    \/ HandshakeHandled(done, {}, new, heard)
      \/ Goes(clear, {}, {})
  BY DEF HandshakeMessage
<1> HIDE DEF done, start, clear
<1>5. ASSUME NEW s \in Fields, s.queue = st.queue, NEW p, NEW kind, NEW key,
             NEW new, Answers(p, s, kind, key, new)
      PROVE  KeptNow
  <2>1. \/ \E more : Goes(s, {}, more)
        \/ KeyExchangeHandled(s, {}, new, heard)
        \/ HandshakeHandled(s, {}, new, heard)
    <3>0. s.linked \in BOOLEAN
      BY DEF Fields
    <3>1. CASE s.linked
      BY <1>5, <3>1 DEF Answers
    <3>2. CASE ~s.linked /\ p.type = "exchange"
      BY <1>5, <3>2 DEF Answers
    <3>3. CASE ~s.linked /\ p.type # "exchange"
      BY <1>5, <3>3 DEF Answers
    <3> QED
      BY <3>0, <3>1, <3>2, <3>3
  <2> QED
    BY <1>5, <2>1, HandledKeeps, NoEndKeeps
<1>6. CASE \E p, kind, key, new : Answers(p, start, kind, key, new)
  BY <1>2, <1>5, <1>6
<1>7. CASE \E p, kind, key, new : Answers(p, done, kind, key, new)
  BY <1>3, <1>5, <1>7
<1>8. CASE \E new : KeyExchangeHandled(done, {}, new, heard)
                      \/ HandshakeHandled(done, {}, new, heard)
  BY <1>3, <1>8, HandledKeeps
<1>9. CASE Goes(clear, {}, {})
  BY <1>2, <1>9, NoEndKeeps
<1> QED
  BY <1>4, <1>6, <1>7, <1>8, <1>9

(* The rest of a flush holds what is left of its messages.                 *)
LEMMA RestHolds ==
    \A do, out, q : q # <<>> => \E t \in Rest(do, out, q) : t.msgs = q
BY DEF Rest

LEMMA SendKeeps ==
    ASSUME ClientNoiseInv, NEW m \in Mine, NEW do, NEW old, NEW rest \in Seq(Mine),
           send_private_message(m, do, old, rest),
           \A u \in old : \A x \in Elements(u.msgs) : x = m \/ x \in Elements(rest),
           \A c \in sealed : c.id # m
    PROVE  KeptNow
<1>1. st \in Fields
  BY DEF ClientNoiseInv, NoncePart
<1>2. \A out : \A x \in Elements(rest) :
        \E t \in Rest(do, out, rest) : x \in Elements(t.msgs)
  BY RestHolds, EmptyMsgs
<1>3. CASE ~st.linked /\ \E new : Goes(st, old, new)
  <2>1. PICK new : Goes(st, old, new)
    BY <1>3
  <2>2. Keeps(st, old, new)
    BY <1>3 DEF Keeps, GivesUp
  <2> QED
    BY <2>1, <2>2, KeepsStep DEF Goes
<1>4. ASSUME NEW s, s.queue = Append(st.queue, m), NEW out,
             Goes(s, old, Rest(do, out, rest))
      PROVE  KeptNow
  <2>1. st.queue \in Seq(Mine)
    BY <1>1 DEF Fields
  <2> DEFINE q == st.queue
             new == Rest(do, out, rest)
  <2>2. q \in Seq(Mine)
    BY <2>1
  <2> HIDE DEF q
  <2>3. \A x : x \in Elements(q) \/ x = m => x \in Elements(Append(q, m))
    BY <2>2, AppendElements
  <2>4. \A x : x \in Elements(st.queue) \/ x = m => x \in Elements(s.queue)
    BY <1>4, <2>3 DEF q
  <2>5. \A x \in Elements(rest) : \E t \in new : x \in Elements(t.msgs)
    BY <1>2
  <2>6. GoesOn(s, old, new, heard)
    BY <1>4 DEF Goes
  <2> HIDE DEF new
  <2>7. Keeps(s, old, new)
    BY <2>4, <2>5 DEF Keeps
  <2> QED
    BY <2>6, <2>7, KeepsStep
<1>5. CASE Goes(Requeue(st, m), old, Rest(do, NoPacket, rest))
  <2>1. Requeue(st, m).queue = Append(st.queue, m)
    BY <1>1, RequeueFields
  <2> QED
    BY <1>4, <1>5, <2>1
<1>6. CASE Goes([Initiated(Requeue(st, m)) EXCEPT !.tried = TRUE], old,
                Rest(do, FirstMessage(st, "init"), rest))
  <2> DEFINE r == Requeue(st, m)
             i == Initiated(r)
             s == [i EXCEPT !.tried = TRUE]
  <2>1. r \in Fields /\ r.queue = Append(st.queue, m)
    BY <1>1, RequeueFields
  <2> HIDE DEF r
  <2>2. i \in Fields /\ i.queue = Append(st.queue, m)
    BY <2>1, InitiatedFields
  <2> HIDE DEF i
  <2>3. s.queue = Append(st.queue, m)
    BY <2>2 DEF Fields
  <2>4. Goes(s, old, Rest(do, FirstMessage(st, "init"), rest))
    BY <1>6 DEF r, i
  <2> HIDE DEF s
  <2> QED
    BY <1>4, <2>3, <2>4
<1>7. CASE /\ Goes(Seal(st), old, Rest(do, Cipher("encrypted", st, m), rest))
           /\ sealed' = sealed \cup {Cipher("encrypted", st, m)}
  <2> DEFINE x == Cipher("encrypted", st, m)
             s == Seal(st)
             new == Rest(do, x, rest)
  <2>1. x.id = m
    BY DEF Cipher
  <2>2. s.queue = st.queue
    BY <1>1 DEF Seal, Fields
  <2>3. GoesOn(s, old, new, heard) /\ sealed' = sealed \cup {x}
    BY <1>7 DEF Goes
  <2>4. \A y \in Elements(rest) : \E t \in new : y \in Elements(t.msgs)
    BY <1>2
  <2> HIDE DEF x, s, new
  <2>5. x \in sealed' \ sealed
    BY <2>1, <2>3
  <2>6. Keeps(s, old, new)
    BY <2>1, <2>2, <2>4, <2>5 DEF Keeps
  <2> QED
    BY <2>3, <2>6, KeepsStep
<1> QED
  BY <1>3, <1>5, <1>6, <1>7 DEF send_private_message

LEMMA SplitElements ==
    ASSUME NEW q \in Seq(Mine), q # <<>>
    PROVE  \A x \in Elements(q) : x = Head(q) \/ x \in Elements(Tail(q))
<1> DEFINE r == Tail(q)
           n == Len(q)
<1>1. /\ n \in Nat /\ DOMAIN q = 1..n /\ DOMAIN r = 1..(n - 1)
      /\ Head(q) = q[1] /\ \A i \in 1..(n - 1) : r[i] = q[i + 1]
  OBVIOUS
<1> HIDE DEF r, n
<1>2. \A i \in 1..n : i = 1 \/ (i - 1 \in 1..(n - 1) /\ (i - 1) + 1 = i)
  BY <1>1
<1>3. \A i \in 1..n : i = 1 \/ r[i - 1] = q[i]
  BY <1>1, <1>2
<1>4. ASSUME NEW x \in Elements(q)
      PROVE  x = Head(q) \/ x \in Elements(r)
  <2>1. PICK i \in 1..n : x = q[i]
    BY <1>1 DEF Elements
  <2>2. CASE i = 1
    BY <1>1, <2>1, <2>2
  <2>3. CASE i # 1
    <3>1. i - 1 \in DOMAIN r /\ x = r[i - 1]
      BY <1>1, <1>2, <1>3, <2>1, <2>3
    <3> QED
      BY <3>1 DEF Elements
  <2> QED
    BY <2>2, <2>3
<1> QED
  BY <1>4 DEF r

LEMMA MessagesKeep ==
    ASSUME ClientNoiseInv, Submit \/ FlushStarts \/ FlushNext
    PROVE  KeptNow
<1>1. CASE Submit
  <2>1. PICK m \in Mine \ submitted : send_private_message(m, "user", {}, <<>>)
    BY <1>1 DEF Submit
  <2>2. \A c \in sealed : c.id # m
    BY DEF ClientNoiseInv, SealedPart
  <2> DEFINE rest == <<>>
  <2>3. rest \in Seq(Mine) /\ send_private_message(m, "user", {}, rest)
    BY <2>1
  <2> HIDE DEF rest
  <2> QED
    BY <2>2, <2>3, SendKeeps
<1>2. CASE FlushStarts
  <2>1. PICK t \in BagToSet(tasks) :
          /\ t.do \in {"auth", "slept"}
          /\ Goes(PendingTaken(st), {t}, Rest("flush", NoPacket, st.queue))
    BY <1>2 DEF FlushStarts
  <2>2. t.msgs = <<>>
    BY <2>1 DEF ClientNoiseInv, TaskPart, GoodTask
  <2> DEFINE s == PendingTaken(st)
             new == Rest("flush", NoPacket, st.queue)
  <2>3. \A x \in Elements(st.queue) : \E r \in new : x \in Elements(r.msgs)
    <3>1. st.queue # <<>> => \E r \in new : r.msgs = st.queue
      BY RestHolds
    <3> QED
      BY <3>1, EmptyMsgs
  <2>4. GoesOn(s, {t}, new, heard)
    BY <2>1 DEF Goes
  <2> HIDE DEF s, new
  <2>5. Keeps(s, {t}, new)
    BY <2>2, <2>3, EmptyMsgs DEF Keeps
  <2> QED
    BY <2>4, <2>5, KeepsStep
<1>3. CASE FlushNext
  <2>1. PICK t \in BagToSet(tasks) :
          /\ t.do = "flush" /\ t.out = NoPacket
          /\ send_private_message(Head(t.msgs), "flush", {t}, Tail(t.msgs))
    BY <1>3 DEF FlushNext
  <2>2. /\ t.msgs \in Seq(Mine) /\ t.msgs # <<>> /\ Distinct(t.msgs)
        /\ \A x \in Elements(t.msgs) : \A c \in sealed : c.id # x
    BY <2>1 DEF ClientNoiseInv, TaskPart, GoodTask, Task, Unsealed
  <2> DEFINE q == t.msgs
             m == Head(q)
             rest == Tail(q)
  <2>3. /\ q \in Seq(Mine) /\ q # <<>> /\ Distinct(q)
        /\ \A x \in Elements(q) : \A c \in sealed : c.id # x
    BY <2>2
  <2>4. send_private_message(m, "flush", {t}, rest) /\ q = t.msgs
    BY <2>1
  <2> HIDE DEF q
  <2>5. rest \in Seq(Mine) /\ m \in Mine /\ m \in Elements(q)
    BY <2>3, TailElements
  <2>6. \A x \in Elements(q) : x = m \/ x \in Elements(rest)
    BY <2>3, SplitElements
  <2> HIDE DEF m, rest
  <2>7. \A u \in {t} : \A x \in Elements(u.msgs) : x = m \/ x \in Elements(rest)
    BY <2>4, <2>6
  <2>8. \A c \in sealed : c.id # m
    BY <2>3, <2>5
  <2> QED
    BY <2>4, <2>5, <2>7, <2>8, SendKeeps
<1> QED
  BY <1>1, <1>2, <1>3

LEMMA ReturnsKeep ==
    ASSUME ClientNoiseInv, NEW t \in BagToSet(tasks), t.out # NoPacket,
           NEW s \in Fields, s.queue = st.queue \/ GivesUp(s), NEW reached,
           Returns(t, s, reached)
    PROVE  KeptNow
<1>1. t.do # "flush" => t.msgs = <<>>
  BY DEF ClientNoiseInv, TaskPart, GoodTask
<1>2. CASE t.do \in {"identity", "instead"}
  <2> DEFINE n == {Sending("announce", Announcement)}
  <2>1. GoesOn(s, {t}, n, reached)
    BY <1>2 DEF Returns
  <2> HIDE DEF n
  <2>2. Keeps(s, {t}, n)
    BY <1>1, <1>2, PlainKeeps
  <2> QED
    BY <2>1, <2>2, KeepsStep
<1>3. CASE t.do \in {"answer", "exchange"}
  <2>1. HandshakeHandled(s, {t}, {}, reached)
          \/ KeyExchangeHandled(s, {t}, {}, reached)
    BY <1>3 DEF Returns
  <2> QED
    BY <1>1, <1>3, <2>1, HandledKeeps
<1>4. CASE t.do \notin {"identity", "instead", "answer", "exchange"}
  <2> DEFINE new == Rest(t.do, NoPacket, t.msgs)
  <2>1. GoesOn(s, {t}, new, reached)
    BY <1>4 DEF Returns
  <2>2. t.msgs = <<>> \/ \E r \in new : r.msgs = t.msgs
    BY RestHolds
  <2> HIDE DEF new
  <2>3. Keeps(s, {t}, new)
    BY <2>2, PlainKeeps
  <2> QED
    BY <2>1, <2>3, KeepsStep
<1> QED
  BY <1>2, <1>3, <1>4

LEMMA SendingKeeps ==
    ASSUME ClientNoiseInv, Written \/ NotConnected \/ Raises
    PROVE  KeptNow
<1>1. st \in Fields
  BY DEF ClientNoiseInv, NoncePart
<1>2. CASE Written
  <2>1. PICK t \in BagToSet(tasks) :
          t.out # NoPacket /\ \E reached : Returns(t, st, reached)
    BY <1>2 DEF Written
  <2> QED
    BY <1>1, <2>1, ReturnsKeep
<1>3. CASE NotConnected
  <2> DEFINE s == [Dropped(st) EXCEPT !.hears = FALSE]
  <2>1. PICK t \in BagToSet(tasks) : t.out # NoPacket /\ Returns(t, s, heard)
    BY <1>3 DEF NotConnected
  <2>2. s \in Fields /\ ~s.linked
    <3>1. Dropped(st) \in Fields
      BY <1>1, DroppedFields
    <3>2. s \in Fields
      BY <3>1 DEF Fields
    <3>3. ~s.linked
      BY <1>1 DEF Dropped, Fields
    <3> QED
      BY <3>2, <3>3
  <2> HIDE DEF s
  <2> QED
    BY <2>1, <2>2, ReturnsKeep DEF GivesUp
<1>4. CASE Raises
  <2> DEFINE unlinked == [st EXCEPT !.linked = FALSE]
             cleared == [st EXCEPT !.hs = NoHandshake]
             again == [st EXCEPT !.tried = FALSE]
  <2>1. PICK t \in BagToSet(tasks) :
          \/ t.do # "flush" /\ \E new : Goes(st, {t}, new)
          \/ Goes(unlinked, {t}, {})
          \/ t.do # "flush" /\ Goes(cleared, {t}, {})
          \/ Goes(again, {t}, Rest(t.do, NoPacket, t.msgs))
          \/ Goes(st, {t}, Rest(t.do, NoPacket, t.msgs))
    BY <1>4 DEF Raises
  <2>2. t.do # "flush" => t.msgs = <<>>
    BY DEF ClientNoiseInv, TaskPart, GoodTask
  <2>3. /\ ~unlinked.linked
        /\ cleared.queue = st.queue /\ again.queue = st.queue
    BY <1>1 DEF Fields
  <2> DEFINE rest == Rest(t.do, NoPacket, t.msgs)
  <2>4. t.msgs = <<>> \/ \E r \in rest : r.msgs = t.msgs
    BY RestHolds
  <2>5. \/ t.do # "flush" /\ \E new : GoesOn(st, {t}, new, heard)
        \/ GoesOn(unlinked, {t}, {}, heard)
        \/ t.do # "flush" /\ GoesOn(cleared, {t}, {}, heard)
        \/ GoesOn(again, {t}, rest, heard)
        \/ GoesOn(st, {t}, rest, heard)
    BY <2>1 DEF Goes
  <2> HIDE DEF unlinked, cleared, again, rest
  <2>6. ASSUME t.do # "flush"
        PROVE  (\A new : Keeps(st, {t}, new)) /\ Keeps(cleared, {t}, {})
    BY <2>2, <2>3, <2>6, PlainKeeps
  <2>7. Keeps(unlinked, {t}, {})
    BY <2>3 DEF Keeps, GivesUp
  <2>8. Keeps(again, {t}, rest) /\ Keeps(st, {t}, rest)
    BY <2>3, <2>4, PlainKeeps
  <2> QED
    BY <2>5, <2>6, <2>7, <2>8, KeepsStep
<1> QED
  BY <1>2, <1>3, <1>4

(* A private message that waits, in the queue or in a flush, is encrypted  *)
(* before it leaves both, unless the link is lost or the peer leaves.      *)
THEOREM MessagesKeptUntilSent == Spec => KeptUntilSent
<1>1. ClientNoiseInv /\ [Next]_vars =>
        [\A m \in Held :
          \/ m \in Held'
          \/ \E c \in sealed' \ sealed : c.id = m
          \/ ~st'.linked
          \/ st.known /\ ~st'.known]_vars
  <2> SUFFICES ASSUME ClientNoiseInv, Next
               PROVE  KeptNow
    BY DEF KeptNow
  <2> QED
    BY HandlersKeep, HandshakeMessageKeeps, MessagesKeep, SendingKeeps DEF Next
<1> QED
  BY <1>1, ClientNoiseInvariant, PTL DEF Spec, KeptUntilSent
=============================================================================
