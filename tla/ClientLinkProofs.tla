-------------------------- MODULE ClientLinkProofs --------------------------
(***************************************************************************)
(* Proofs about ClientLink for any number of BleakClient objects: types,   *)
(* a client that is never stranded, and every link introduced.             *)
(*                                                                         *)
(* NeverStranded speaks of the prompt only.  What makes it inductive is    *)
(* Seeking, which also covers the way to the prompt: in connect() a client *)
(* may have no scanner, but then it has no link object, or its own attempt *)
(* is still under way, or it has failed and the first scanner is due.      *)
(* Introduced is inductive relative to that invariant once a send counts   *)
(* as introducing only while its client has not changed.                   *)
(***************************************************************************)
EXTENDS ClientLink, TLAPS

USE LinkAssumption

(* The awaits of connect() and handshake(), before the prompt.             *)
Starting == {"scan", "open", "notify", "identity", "fallback", "pause", "announce"}

Place == Starting \cup Gone \cup
    {"leave", "bye", "ready", "input", "leaving", "reap", "closing",
     "ended", "crashed", "rest"}

(* Where each task can be.                                                 *)
Placed(a) ==
    /\ a \in [Tasks -> Place]
    /\ a["main"] \in Starting \cup {"input", "leave", "leaving", "bye", "reap",
                                    "closing", "ended", "crashed"}
    /\ a["first"] \in Starting \cup Gone \cup {"rest"}
    /\ a["again"] \in Starting \cup Gone \cup {"rest"}
    /\ a["main"] \in Starting => a["first"] \in {"none", "due"}

LinkTypes ==
    /\ running \in BOOLEAN
    /\ client \in Link \cup {None} /\ characteristic \in Link \cup {None}
    /\ link \in [Link -> {"down", "opening", "up", "listening", "lost"}]
    /\ introduced \subseteq Link
    /\ callbacks \subseteq Link
    /\ phase \in [Tasks -> {"none", "write", "retry"}]
    /\ mine \in [Tasks -> Link \cup {None}]

Stopping == at["main"] \in {"bye", "reap", "closing"} => ~running

(* A scanner is at work.                                                   *)
Search(a) == a["first"] \notin Gone \/ a["again"] \notin Gone

(* A client that is not connected is looking for a link: it is still in    *)
(* connect(), which will be followed by a scanner, or it has a scanner, or *)
(* the callback that starts one is on its way.                             *)
Seeking ==
    running /\ Alive /\ at["first"] # "broken" /\ at["again"] # "broken" =>
      \/ Search(at)
      \/ callbacks # {}
      \/ IsConnected(client)
      \/ /\ at["main"] \in Starting
         /\ \/ client = None
            \/ at["first"] = "due"
            \/ at["main"] = "open" /\ mine["main"] = client

LinkInv ==
    /\ LinkTypes
    /\ Placed(at)
    /\ \A t \in Tasks : at[t] \in {"open", "notify"} => mine[t] \in Link
    /\ Stopping /\ Seeking

LEMMA LinkInit == Init => LinkInv
<1> SUFFICES ASSUME Init PROVE LinkInv
  OBVIOUS
<1>1. /\ at \in [Tasks -> Place] /\ at["main"] = "scan"
      /\ at["first"] = "none" /\ at["again"] = "none"
      /\ \A t \in Tasks : at[t] \in {"scan", "none"}
  BY DEF Init, Tasks, Scanners, Place, Starting, Gone
<1>2. LinkTypes
  BY DEF Init, LinkTypes
<1>3. Placed(at)
  BY <1>1 DEF Placed, Starting, Gone
<1>4. client = None
  BY DEF Init
<1>5. Seeking /\ Stopping
  BY <1>1, <1>4 DEF Seeking, Stopping, IsConnected, Starting
<1> QED
  BY <1>1, <1>2, <1>3, <1>5 DEF LinkInv

LEMMA AfterPlaces ==
    /\ \A t : After(t, "identity") = "pause" /\ After(t, "fallback") = "pause"
    /\ After("main", "announce") = "ready"
    /\ After("first", "announce") = "rest" /\ After("again", "announce") = "rest"
    /\ After("main", "leave") = "leaving" /\ After("main", "bye") = "reap"
BY DEF After

(* send_packet() may be called by task t for this packet.                  *)
MaySend(t, step) ==
    \/ t \in {"main", "first", "again"} /\ step \in {"identity", "fallback", "announce"}
    \/ t = "main" /\ step \in {"leave", "bye"}

(* The places a from which the step of task t goes on: those of the state, *)
(* but that a first scanner may have become due, and nobody is stranded.   *)
Going(a, t) ==
    /\ Placed(a) /\ t \in Tasks /\ a[t] \notin Gone
    /\ \A u \in Tasks : u # "first" => a[u] = at[u]
    /\ a["first"] = at["first"] \/ (a["first"] = "due" /\ a["main"] \in Starting)
    /\ running /\ at["first"] # "broken" /\ at["again"] # "broken" =>
         \/ Search(a)
         \/ callbacks # {}
         \/ IsConnected(client)
         \/ /\ a["main"] \in Starting
            /\ \/ client = None
               \/ a["first"] = "due"
               \/ /\ a["main"] = "open" /\ mine["main"] = client
                  /\ t # "main"

(* The variables that a return of send_packet() leaves, or changes only    *)
(* for the link of its task.                                               *)
Around(t) ==
    /\ running' \in BOOLEAN /\ (running' => running)
    /\ callbacks' = callbacks /\ introduced' \subseteq Link
    /\ phase' \in [Tasks -> {"none", "write", "retry"}]
    /\ link' \in [Link -> {"down", "opening", "up", "listening", "lost"}]
    /\ \A l \in Link : link[l] \in {"up", "listening"} =>
         link'[l] \in {"up", "listening"}
    /\ mine' \in [Tasks -> Link \cup {None}]
    /\ \A u \in Tasks : u # t => mine'[u] = mine[u]

(* send_packet() returns to task t.                                        *)
LEMMA ReturnStep ==
    ASSUME LinkInv, NEW a, NEW t, NEW step, Going(a, t), MaySend(t, step),
           t = "main" => (step \in {"identity", "fallback", "announce"}
                            <=> a["main"] \in Starting),
           at' = EndHandshake([a EXCEPT ![t] = After(t, step)], client),
           Around(t), step = "bye" => ~running',
           UNCHANGED <<client, characteristic>>
    PROVE  LinkInv'
<1> DEFINE r == [a EXCEPT ![t] = After(t, step)]
<1>1. t \in Tasks /\ After(t, step) \in Place \ Gone
  BY AfterPlaces DEF MaySend, Tasks, Scanners, Place, Starting, Gone
<1>2. r \in [Tasks -> Place] /\ r[t] = After(t, step)
      /\ \A u \in Tasks : u # t => r[u] = a[u]
  BY <1>1 DEF Placed, Going
<1>3. at' = EndHandshake(r, client)
  OBVIOUS
<1> HIDE DEF r
<1>4. /\ at' \in [Tasks -> Place]
      /\ at'["again"] = r["again"]
      /\ r["main"] # "ready" => at' = r
      /\ r["main"] = "ready" => at'["main"] = "input"
      /\ r["main"] = "ready" /\ (r["first"] = "due" \/ client = None) =>
           at'["first"] = "rest"
      /\ r["main"] = "ready" /\ ~(r["first"] = "due" \/ client = None) =>
           at'["first"] = "none"
  <2>1. r \in [Tasks -> Place]
    BY <1>2
  <2> QED
    BY <1>3, <2>1 DEF EndHandshake, Tasks, Scanners, Place, Gone
<1>5. Placed(a) /\ Placed(at)
  BY DEF Going, LinkInv
<1>6. r["main"] = "ready" <=> t = "main" /\ step = "announce"
  BY <1>2, <1>5, AfterPlaces DEF MaySend, Placed, Starting, Tasks, Scanners
<1>7. /\ "main" \in Tasks /\ "first" \in Tasks /\ "again" \in Tasks
      /\ \A u \in Tasks : u \in {"main", "first", "again"}
  BY DEF Tasks, Scanners
<1>8. Placed(at')
  <2>1. CASE r["main"] = "ready"
    BY <1>2, <1>4, <1>5, <1>6, <1>7, <2>1 DEF Placed, Starting, Gone
  <2>2. CASE r["main"] # "ready" /\ t = "main"
    <3>1. r["main"] \in {"pause", "leaving", "reap"}
          /\ (r["main"] = "pause" => a["main"] \in Starting)
      BY <1>2, <1>6, <2>2, AfterPlaces DEF MaySend
    <3> QED
      BY <1>2, <1>4, <1>5, <1>7, <2>2, <3>1 DEF Placed, Starting
  <2>3. CASE r["main"] # "ready" /\ t \in Scanners
    <3>1. r[t] \in {"pause", "rest"}
      BY <1>2, <1>6, <2>3, AfterPlaces DEF MaySend, Scanners
    <3>2. a["main"] \in Starting => t # "first"
      BY <1>5, <2>3 DEF Placed, Going, Gone, Scanners
    <3> QED
      <4>1. at' = r
        BY <1>4, <2>3
      <4>2. CASE t = "first"
        <5>1. /\ r["main"] = a["main"] /\ r["again"] = a["again"]
              /\ r["first"] \in {"pause", "rest"}
          BY <1>2, <1>7, <3>1, <4>2
        <5>2. a["main"] \notin Starting
          BY <3>2, <4>2
        <5> QED
          BY <1>2, <1>5, <4>1, <5>1, <5>2 DEF Placed, Starting
      <4>3. CASE t = "again"
        <5>1. /\ r["main"] = a["main"] /\ r["first"] = a["first"]
              /\ r["again"] \in {"pause", "rest"}
          BY <1>2, <1>7, <3>1, <4>3
        <5> QED
          BY <1>2, <1>5, <4>1, <5>1 DEF Placed, Starting
      <4> QED
        BY <2>3, <4>2, <4>3 DEF Scanners
  <2> QED
    BY <1>1, <1>7, <2>1, <2>2, <2>3 DEF Scanners
<1>9. \A u \in Tasks : at'[u] \in {"open", "notify"} => mine'[u] \in Link
  <2>1. ASSUME NEW u \in Tasks, at'[u] \in {"open", "notify"}
        PROVE  u # t /\ at[u] = at'[u]
    <3>1. u = "first" => at[u] = a[u] \/ a[u] = "due"
      BY DEF Going
    <3>2. r[t] \notin {"open", "notify"}
      BY <1>2, AfterPlaces DEF MaySend
    <3>3. u # "first" => at[u] = a[u]
      BY DEF Going
    <3> QED
      BY <1>2, <1>4, <1>7, <2>1, <3>1, <3>2, <3>3
  <2> QED
    BY <2>1 DEF LinkInv, Around
<1>10. Stopping'
  <2> SUFFICES ASSUME at'["main"] \in {"bye", "reap", "closing"}
               PROVE  ~running'
    BY DEF Stopping
  <2>1. CASE t = "main"
    BY <1>2, <1>4, <1>6, <2>1, AfterPlaces DEF MaySend
  <2>2. CASE t # "main"
    <3>1. at["main"] = at'["main"]
      BY <1>2, <1>4, <1>6, <1>7, <2>2 DEF Going
    <3> QED
      BY <3>1 DEF LinkInv, Stopping, Around
  <2> QED
    BY <2>1, <2>2
<1>11. IsConnected(client) => IsConnected(client)'
  BY DEF IsConnected, LinkInv, LinkTypes, Around
<1>12. Seeking'
  <2> SUFFICES ASSUME running', at'["first"] # "broken", at'["again"] # "broken"
               PROVE  \/ Search(at')
                      \/ callbacks # {}
                      \/ IsConnected(client)
                      \/ /\ at'["main"] \in Starting
                         /\ \/ client = None
                            \/ at'["first"] = "due"
                            \/ at'["main"] = "open" /\ mine'["main"] = client
    BY <1>11 DEF Seeking, Alive, Around
  <2>1. Search(a) /\ t \notin {"first"} /\ a["again"] \notin Gone => Search(at')
    BY <1>1, <1>2, <1>4, <1>7 DEF Search
  <2>2. CASE t \in Scanners
    <3>1. r[t] \notin Gone /\ at' = r
      BY <1>1, <1>2, <1>4, <1>6, <2>2 DEF Scanners
    <3> QED
      BY <2>2, <3>1 DEF Search, Scanners
  <2>4. CASE t = "main"
    <3>1. at'["again"] = a["again"] /\ r["first"] = a["first"]
      BY <1>2, <1>4, <1>7, <2>4
    <3>2. a["first"] \notin Gone => a["main"] \notin Starting
      BY <1>5 DEF Placed, Gone
    <3>3. r["main"] # "ready" => at'["first"] = a["first"]
      BY <1>4, <3>1
    <3>4. r["main"] = "ready" => a["main"] \in Starting /\ a["first"] \in {"none", "due"}
      BY <1>5, <1>6 DEF Placed
    <3>5. running /\ at["again"] # "broken" /\ at["first"] # "broken"
      <4>1. running /\ at["again"] # "broken"
        BY <1>7, <3>1 DEF Around, Going
      <4>2. a["first"] # "broken"
        BY <3>3, <3>4
      <4>3. at["first"] # "broken"
        BY <1>5, <1>7, <4>2 DEF Going, Placed
      <4> QED
        BY <4>1, <4>3
    <3>6. \/ Search(a)
          \/ callbacks # {}
          \/ IsConnected(client)
          \/ /\ a["main"] \in Starting
             /\ client = None \/ a["first"] = "due"
      BY <2>4, <3>5 DEF Going
    <3>7. Search(a) => Search(at')
      BY <3>1, <3>3, <3>4 DEF Search, Gone
    <3>8. CASE a["main"] \in Starting /\ (client = None \/ a["first"] = "due")
      <4>1. CASE r["main"] = "ready"
        BY <1>4, <3>1, <3>8, <4>1 DEF Search, Gone
      <4>2. CASE r["main"] # "ready"
        <5>1. r["main"] = "pause"
          BY <1>2, <1>6, <2>4, <3>8, <4>2, AfterPlaces DEF MaySend, Starting
        <5> QED
          BY <1>4, <3>3, <3>8, <4>2, <5>1 DEF Starting
      <4> QED
        BY <4>1, <4>2
    <3> QED
      BY <3>6, <3>7, <3>8
  <2> QED
    BY <1>1, <1>7, <2>2, <2>4 DEF Scanners
<1>13. LinkTypes'
  BY DEF LinkInv, LinkTypes, Around
<1> QED
  BY <1>8, <1>9, <1>10, <1>12, <1>13 DEF LinkInv

(* Places before run() goes on behind handshake().                         *)
Nearly(b) ==
    /\ b \in [Tasks -> Place]
    /\ b["main"] \in Starting \cup {"ready", "input", "leave", "leaving", "bye",
                                    "reap", "closing", "ended", "crashed"}
    /\ b["first"] \in Starting \cup Gone \cup {"rest"}
    /\ b["again"] \in Starting \cup Gone \cup {"rest"}
    /\ b["main"] \in Starting \cup {"ready"} => b["first"] \in {"none", "due"}

(* The link is given up: whatever was, a scanner is at work now.           *)
LEMMA DisconnectStep ==
    ASSUME LinkInv, NEW b, Nearly(b), handle_disconnect(b),
           running' \in BOOLEAN, callbacks' \subseteq Link, introduced' \subseteq Link,
           phase' \in [Tasks -> {"none", "write", "retry"}],
           link' \in [Link -> {"down", "opening", "up", "listening", "lost"}],
           mine' \in [Tasks -> Link \cup {None}],
           \A u \in Tasks : b[u] \in {"open", "notify"} => mine'[u] \in Link,
           b["main"] \in {"bye", "reap", "closing"} => ~running'
    PROVE  LinkInv'
<1> DEFINE r == IF b["again"] \in Gone THEN [b EXCEPT !["again"] = "rest"] ELSE b
<1>1. /\ client' = None /\ characteristic' = None
      /\ at' = EndHandshake(r, None)
  BY DEF handle_disconnect
<1>2. /\ r \in [Tasks -> Place] /\ r["again"] \notin Gone
      /\ r["again"] \in Starting \cup {"rest"}
      /\ \A u \in Tasks : u # "again" => r[u] = b[u]
      /\ \A u \in Tasks : r[u] = b[u] \/ r[u] = "rest"
  BY DEF Nearly, Tasks, Scanners, Place, Gone
<1> HIDE DEF r
<1>3. /\ at' \in [Tasks -> Place]
      /\ at'["again"] = r["again"]
      /\ r["main"] # "ready" => at' = r
      /\ r["main"] = "ready" => at'["main"] = "input" /\ at'["first"] = "rest"
      /\ \A u \in Tasks : at'[u] = r[u] \/ at'[u] \in {"input", "rest"}
  BY <1>1, <1>2 DEF EndHandshake, Tasks, Scanners, Place, Gone
<1>4. "main" \in Tasks /\ "first" \in Tasks
  BY DEF Tasks, Scanners
<1>5. Placed(at')
  <2>1. CASE r["main"] = "ready"
    BY <1>2, <1>3, <1>4, <2>1 DEF Nearly, Placed, Starting
  <2>2. CASE r["main"] # "ready"
    BY <1>2, <1>3, <1>4, <2>2 DEF Nearly, Placed
  <2> QED
    BY <2>1, <2>2
<1>6. Seeking'
  BY <1>2, <1>3 DEF Seeking, Search
<1>7. Stopping'
  BY <1>2, <1>3, <1>4 DEF Stopping
<1>8. \A u \in Tasks : at'[u] \in {"open", "notify"} => mine'[u] \in Link
  BY <1>2, <1>3
<1>9. LinkTypes'
  BY <1>1 DEF LinkTypes
<1> QED
  BY <1>5, <1>6, <1>7, <1>8, <1>9 DEF LinkInv

(* The places of a task that send_packet() has returned to.                *)
LEMMA BackPlaces ==
    ASSUME LinkInv, NEW a, NEW t, NEW step, Going(a, t), MaySend(t, step),
           t = "main" => (step \in {"identity", "fallback", "announce"}
                            <=> a["main"] \in Starting),
           running' => running, step = "bye" => ~running'
    PROVE  /\ Nearly([a EXCEPT ![t] = After(t, step)])
           /\ \A u \in Tasks : [a EXCEPT ![t] = After(t, step)][u]
                                 \in {"open", "notify"} => u # t /\ mine[u] \in Link
           /\ [a EXCEPT ![t] = After(t, step)]["main"] \in {"bye", "reap", "closing"}
                => ~running'
<1> DEFINE r == [a EXCEPT ![t] = After(t, step)]
<1>1. t \in Tasks /\ After(t, step) \in Place \ Gone
  BY AfterPlaces DEF MaySend, Tasks, Scanners, Place, Starting, Gone
<1>2. r \in [Tasks -> Place] /\ r[t] = After(t, step)
      /\ \A u \in Tasks : u # t => r[u] = a[u]
  BY <1>1 DEF Placed, Going
<1> HIDE DEF r
<1>3. Placed(a) /\ Placed(at)
  BY DEF Going, LinkInv
<1>4. /\ "main" \in Tasks /\ "first" \in Tasks /\ "again" \in Tasks
      /\ \A u \in Tasks : u \in {"main", "first", "again"}
  BY DEF Tasks, Scanners
<1>5. Nearly(r)
  <2>1. CASE t = "main"
    <3>1. /\ r["main"] \in {"pause", "ready", "leaving", "reap"}
          /\ r["main"] \in {"pause", "ready"} => a["main"] \in Starting
      BY <1>2, <2>1, AfterPlaces DEF MaySend
    <3> QED
      BY <1>2, <1>3, <1>4, <2>1, <3>1 DEF Placed, Nearly, Starting
  <2>2. CASE t = "first"
    <3>1. r["first"] \in {"pause", "rest"} /\ a["main"] \notin Starting
      BY <1>2, <1>3, <2>2, AfterPlaces DEF MaySend, Placed, Going, Gone
    <3> QED
      BY <1>2, <1>3, <1>4, <2>2, <3>1 DEF Placed, Nearly, Starting
  <2>3. CASE t = "again"
    <3>1. r["again"] \in {"pause", "rest"}
      BY <1>2, <2>3, AfterPlaces DEF MaySend
    <3> QED
      BY <1>2, <1>3, <1>4, <2>3, <3>1 DEF Placed, Nearly, Starting
  <2> QED
    BY <1>1, <1>4, <2>1, <2>2, <2>3
<1>6. ASSUME NEW u \in Tasks, r[u] \in {"open", "notify"}
      PROVE  u # t /\ mine[u] \in Link
  <2>1. r[t] \notin {"open", "notify"}
    BY <1>2, AfterPlaces DEF MaySend
  <2>2. u # t /\ a[u] = r[u]
    BY <1>2, <1>6, <2>1
  <2>3. at[u] = a[u]
    BY <1>6, <2>2 DEF Going
  <2> QED
    BY <1>6, <2>2, <2>3 DEF LinkInv
<1>7. r["main"] \in {"bye", "reap", "closing"} => ~running'
  <2>1. CASE t = "main"
    BY <1>2, <2>1, AfterPlaces DEF MaySend
  <2>2. CASE t # "main"
    BY <1>2, <1>4, <2>2 DEF Going, LinkInv, Stopping
  <2> QED
    BY <2>1, <2>2
<1> QED
  BY <1>5, <1>6, <1>7 DEF r

(* A packet is on its way by a link that works.                            *)
LEMMA SendsStep ==
    ASSUME LinkInv, NEW a, NEW t, NEW step, Going(a, t), MaySend(t, step),
           t = "main" => (step \in {"identity", "fallback", "announce"}
                            <=> a["main"] \in Starting),
           at' = [a EXCEPT ![t] = step], IsConnected(client),
           Around(t), step = "bye" => ~running',
           UNCHANGED <<client, characteristic>>
    PROVE  LinkInv'
<1>1. t \in Tasks /\ step \in Place \ Gone /\ step \notin {"open", "notify"}
  BY DEF MaySend, Tasks, Scanners, Place, Starting, Gone
<1>2. Placed(a) /\ Placed(at)
  BY DEF Going, LinkInv
<1>3. at' \in [Tasks -> Place] /\ at'[t] = step
      /\ \A u \in Tasks : u # t => at'[u] = a[u]
  BY <1>1, <1>2 DEF Placed
<1>4. /\ "main" \in Tasks /\ "first" \in Tasks /\ "again" \in Tasks
      /\ \A u \in Tasks : u \in {"main", "first", "again"}
  BY DEF Tasks, Scanners
<1>5. Placed(at')
  <2>1. CASE t = "main"
    BY <1>2, <1>3, <1>4, <2>1 DEF MaySend, Placed, Starting
  <2>2. CASE t = "first"
    <3>1. step \in Starting /\ a["main"] \notin Starting
      BY <1>2, <2>2 DEF MaySend, Placed, Going, Gone, Starting
    <3> QED
      BY <1>2, <1>3, <1>4, <2>2, <3>1 DEF Placed
  <2>3. CASE t = "again"
    <3>1. step \in Starting
      BY <2>3 DEF MaySend, Starting
    <3> QED
      BY <1>2, <1>3, <1>4, <2>3, <3>1 DEF Placed
  <2> QED
    BY <1>1, <1>4, <2>1, <2>2, <2>3
<1>6. IsConnected(client)'
  BY DEF IsConnected, LinkInv, LinkTypes, Around
<1>7. Seeking'
  BY <1>6 DEF Seeking
<1>8. Stopping'
  <2>1. CASE t = "main"
    BY <1>3, <2>1 DEF MaySend, Stopping
  <2>2. CASE t # "main"
    <3>1. at["main"] = at'["main"]
      BY <1>3, <1>4, <2>2 DEF Going
    <3> QED
      BY <3>1 DEF LinkInv, Stopping, Around
  <2> QED
    BY <2>1, <2>2
<1>9. ASSUME NEW u \in Tasks, at'[u] \in {"open", "notify"}
      PROVE  mine'[u] \in Link
  <2>1. u # t /\ a[u] = at'[u]
    BY <1>1, <1>3, <1>9
  <2>2. at[u] = a[u]
    BY <1>9, <2>1 DEF Going
  <2> QED
    BY <1>9, <2>1, <2>2 DEF LinkInv, Around
<1>10. LinkTypes'
  BY DEF LinkInv, LinkTypes, Around
<1> QED
  BY <1>5, <1>7, <1>8, <1>9, <1>10 DEF LinkInv

LEMMA SendPacketStep ==
    ASSUME LinkInv, NEW a, NEW t, NEW step, Going(a, t), MaySend(t, step),
           t = "main" => (step \in {"identity", "fallback", "announce"}
                            <=> a["main"] \in Starting),
           send_packet(a, t, step),
           phase' \in [Tasks -> {"none", "write", "retry"}] => Around(t),
           running' => running, step = "bye" => ~running'
    PROVE  LinkInv'
<1> DEFINE r == [a EXCEPT ![t] = After(t, step)]
<1>1. \/ /\ at' = EndHandshake(r, client)
         /\ phase' = [phase EXCEPT ![t] = "none"]
         /\ UNCHANGED <<client, characteristic>>
      \/ /\ handle_disconnect(r)
         /\ phase' = [phase EXCEPT ![t] = "none"]
      \/ /\ IsConnected(client)
         /\ at' = [a EXCEPT ![t] = step]
         /\ phase' = [phase EXCEPT ![t] = "write"]
         /\ UNCHANGED <<client, characteristic>>
  BY DEF send_packet
<1>2. phase' \in [Tasks -> {"none", "write", "retry"}]
  BY <1>1 DEF LinkInv, LinkTypes
<1>3. Around(t)
  BY <1>2
<1>4. CASE at' = EndHandshake(r, client) /\ UNCHANGED <<client, characteristic>>
  BY <1>3, <1>4, ReturnStep
<1>5. CASE handle_disconnect(r)
  <2>1. /\ Nearly(r)
        /\ \A u \in Tasks : r[u] \in {"open", "notify"} => u # t /\ mine[u] \in Link
        /\ r["main"] \in {"bye", "reap", "closing"} => ~running'
    BY BackPlaces
  <2> HIDE DEF r
  <2>2. \A u \in Tasks : r[u] \in {"open", "notify"} => mine'[u] \in Link
    BY <1>3, <2>1 DEF Around
  <2>3. callbacks' \subseteq Link
    BY <1>3 DEF Around, LinkInv, LinkTypes
  <2> QED
    BY <1>3, <1>5, <2>1, <2>2, <2>3, DisconnectStep DEF Around
<1>6. CASE /\ IsConnected(client) /\ at' = [a EXCEPT ![t] = step]
           /\ UNCHANGED <<client, characteristic>>
  BY <1>3, <1>6, SendsStep
<1> QED
  BY <1>1, <1>4, <1>5, <1>6

LEMMA TaskNames ==
    /\ "main" \in Tasks /\ "first" \in Tasks /\ "again" \in Tasks
    /\ \A u \in Tasks : u \in {"main", "first", "again"}
    /\ \A u : u \in Scanners <=> u \in {"first", "again"}
BY DEF Tasks, Scanners

LEMMA GoingHere ==
    ASSUME LinkInv, Alive, NEW t \in Tasks, at[t] \notin Gone,
           t = "main" => at[t] # "open"
    PROVE  Going(at, t)
BY DEF LinkInv, Going, Seeking

LEMMA GoingDue ==
    ASSUME LinkInv, at["main"] \in Starting
    PROVE  Going([at EXCEPT !["first"] = "due"], "main")
<1> DEFINE a == [at EXCEPT !["first"] = "due"]
<1>1. at \in [Tasks -> Place] /\ Placed(at)
  BY DEF LinkInv, Placed
<1>2. "due" \in Place
  BY DEF Place, Gone
<1>3. /\ a \in [Tasks -> Place] /\ a["first"] = "due"
      /\ \A u \in Tasks : u # "first" => a[u] = at[u]
  BY <1>1, <1>2, TaskNames
<1> HIDE DEF a
<1>4. Placed(a)
  BY <1>1, <1>3, TaskNames DEF Placed, Gone
<1>5. a["main"] \in Starting /\ a["main"] \notin Gone
  BY <1>3, TaskNames DEF Starting, Gone
<1>6. Going(a, "main")
  BY <1>3, <1>4, <1>5, TaskNames DEF Going
<1> QED
  BY <1>6 DEF a

(* A task that is sending may.                                             *)
LEMMA MaySendHere ==
    ASSUME LinkInv, NEW t \in Tasks, at[t] \in Sends
    PROVE  /\ MaySend(t, at[t]) /\ at[t] \notin Gone
           /\ t = "main" => (at[t] \in {"identity", "fallback", "announce"}
                               <=> at["main"] \in Starting)
           /\ at[t] # "open"
           /\ at[t] = "bye" => ~running
<1>1. Placed(at) /\ Stopping
  BY DEF LinkInv
<1>2. at[t] \notin Gone /\ at[t] # "open"
  BY DEF Sends, Gone
<1>3. CASE t = "main"
  BY <1>1, <1>2, <1>3 DEF Placed, MaySend, Sends, Starting, Stopping
<1>4. CASE t \in {"first", "again"}
  BY <1>1, <1>2, <1>4 DEF Placed, MaySend, Sends, Starting, Gone
<1> QED
  BY <1>3, <1>4, TaskNames

LEMMA HandshakeStep ==
    ASSUME LinkInv, NEW a, Going(a, "main"), a["main"] \in Starting, handshake(a),
           phase' \in [Tasks -> {"none", "write", "retry"}] => Around("main"),
           running' = running
    PROVE  LinkInv'
<1>1. CASE send_packet(a, "main", "identity")
  <2>1. MaySend("main", "identity")
    BY DEF MaySend
  <2> QED
    BY <1>1, <2>1, SendPacketStep
<1>2. CASE /\ at' = EndHandshake([a EXCEPT !["main"] = "ready"], client)
           /\ UNCHANGED <<client, characteristic, phase>>
  <2>1. MaySend("main", "announce")
    BY DEF MaySend
  <2>2. at' = EndHandshake([a EXCEPT !["main"] = After("main", "announce")], client)
    BY <1>2, AfterPlaces
  <2>3. Around("main")
    BY <1>2 DEF LinkInv, LinkTypes
  <2> QED
    BY <1>2, <2>1, <2>2, <2>3, ReturnStep
<1> QED
  BY <1>1, <1>2 DEF handshake

(* Task t alone moves, to p.                                               *)
LEMMA MoveStep ==
    ASSUME LinkInv, NEW t \in Tasks, NEW p \in Place \ {"ready"},
           at' = [at EXCEPT ![t] = p], LinkTypes',
           t = "main" => p \in {"open", "notify", "input", "reap", "ended", "crashed"},
           t = "main" /\ p \in {"open", "notify"} => at["main"] \in Starting,
           t \in Scanners => /\ p \in Starting \cup {"rest", "none", "broken"}
                             /\ at[t] \notin Gone,
           p \in {"open", "notify"} => mine'[t] \in Link,
           \A u \in Tasks : u # t => mine'[u] = mine[u],
           t = "main" /\ p = "reap" => ~running', running' => running,
           Seeking'
    PROVE  LinkInv'
<1>1. Placed(at) /\ at \in [Tasks -> Place]
  BY DEF LinkInv, Placed
<1>2. at' \in [Tasks -> Place] /\ at'[t] = p
      /\ \A u \in Tasks : u # t => at'[u] = at[u]
  BY <1>1
<1>3. Placed(at')
  <2>1. CASE t = "main"
    BY <1>1, <1>2, <2>1, TaskNames DEF Placed, Starting
  <2>2. CASE t = "first"
    <3>1. at["main"] \notin Starting
      BY <1>1, <2>2, TaskNames DEF Placed, Gone
    <3> QED
      BY <1>1, <1>2, <2>2, <3>1, TaskNames DEF Placed, Gone
  <2>3. CASE t = "again"
    BY <1>1, <1>2, <2>3, TaskNames DEF Placed, Gone
  <2> QED
    BY <2>1, <2>2, <2>3, TaskNames
<1>4. Stopping'
  <2>1. CASE t = "main"
    BY <1>2, <2>1 DEF Stopping
  <2>2. CASE t # "main"
    BY <1>2, <2>2, TaskNames DEF LinkInv, Stopping
  <2> QED
    BY <2>1, <2>2
<1>5. \A u \in Tasks : at'[u] \in {"open", "notify"} => mine'[u] \in Link
  BY <1>2 DEF LinkInv
<1> QED
  BY <1>3, <1>4, <1>5 DEF LinkInv

(* A scanner at work is all that Seeking asks for.                         *)
LEMMA ScannerSeeks ==
    ASSUME LinkInv, NEW t \in Scanners, NEW p \in Place, p \notin Gone,
           at' = [at EXCEPT ![t] = p]
    PROVE  Seeking'
<1>1. at'[t] = p
  BY TaskNames DEF LinkInv, Placed
<1> QED
  BY <1>1, TaskNames DEF Seeking, Search

(* An exception while a link is made.                                      *)
LEMMA FailStep ==
    ASSUME LinkInv, NEW t \in Tasks, Fail(t), at[t] \in Starting,
           phase' \in [Tasks -> {"none", "write", "retry"}] => Around(t),
           running' = running
    PROVE  LinkInv'
<1>1. CASE t = "main"
  <2>1. handshake([at EXCEPT !["first"] = "due"])
    BY <1>1, TaskNames DEF Fail
  <2> DEFINE a == [at EXCEPT !["first"] = "due"]
  <2>2. Going(a, "main") /\ a["main"] \in Starting
    BY <1>1, GoingDue, TaskNames DEF LinkInv, Placed
  <2>3. handshake(a)
    BY <2>1
  <2> HIDE DEF a
  <2> QED
    BY <1>1, <2>2, <2>3, HandshakeStep
<1>2. CASE t # "main"
  <2>1. /\ t \in Scanners /\ client' = None /\ characteristic' = None
        /\ at' = [at EXCEPT ![t] = "rest"]
        /\ phase' = [phase EXCEPT ![t] = "none"]
    BY <1>2 DEF Fail
  <2>2. phase' \in [Tasks -> {"none", "write", "retry"}]
    BY <2>1 DEF LinkInv, LinkTypes
  <2>3. Around(t)
    BY <2>2
  <2>4. "rest" \in Place \ {"ready"} /\ "rest" \notin Gone
    BY DEF Place, Gone
  <2>5. Seeking'
    BY <2>1, <2>4, ScannerSeeks
  <2>6. LinkTypes'
    BY <2>1, <2>3 DEF LinkTypes, LinkInv, Around
  <2>7. at[t] \notin Gone
    BY DEF Starting, Gone
  <2>8. \A u \in Tasks : u # t => mine'[u] = mine[u]
    BY <2>3 DEF Around
  <2> DEFINE p == "rest"
  <2>10. p \in Place \ {"ready"} /\ at' = [at EXCEPT ![t] = p] /\ p = "rest"
    BY <2>1, <2>4
  <2> HIDE DEF p
  <2> QED
    BY <1>2, <2>1, <2>5, <2>6, <2>7, <2>8, <2>10, MoveStep
<1> QED
  BY <1>1, <1>2

-----------------------------------------------------------------------------
(* One lemma per group of actions.                                         *)

LEMMA ScanSteps ==
    ASSUME LinkInv, Alive, NEW t \in Tasks,
           ScannerHead(t) \/ Found(t) \/ FoundNone(t) \/ ScanRaises(t)
    PROVE  LinkInv'
<1>1. LinkTypes /\ Placed(at) /\ at \in [Tasks -> Place]
  BY DEF LinkInv, Placed
<1>2. at[t] \notin Gone
  BY <1>1 DEF ScannerHead, Found, FoundNone, ScanRaises, Placed, Gone
<1>3. CASE ScannerHead(t)
  <2>1. PICK p \in {"none", "scan", "rest"} :
          at' = [at EXCEPT ![t] = p] /\ (p = "none" => ~running)
    BY <1>3 DEF ScannerHead
  <2>2. /\ t \in Scanners
        /\ UNCHANGED <<running, client, characteristic, link, introduced,
                       callbacks, phase, mine>>
    BY <1>3 DEF ScannerHead
  <2>3. LinkTypes'
    BY <1>1, <2>2 DEF LinkTypes
  <2>4. p \in Place \ {"ready"} /\ p \in Starting \cup {"rest", "none", "broken"}
    BY DEF Place, Starting, Gone
  <2>5. Seeking'
    <3>1. CASE p = "none"
      BY <2>1, <2>2, <3>1 DEF Seeking
    <3>2. CASE p # "none"
      <4>1. p \in Place /\ p \notin Gone
        BY <2>4, <3>2 DEF Gone
      <4> QED
        BY <2>1, <2>2, <4>1, ScannerSeeks
    <3> QED
      BY <3>1, <3>2
  <2> QED
    BY <1>2, <2>1, <2>2, <2>3, <2>4, <2>5, MoveStep, TaskNames
<1>4. CASE Found(t)
  <2>1. /\ at[t] = "scan" /\ at' = [at EXCEPT ![t] = "open"]
        /\ \E l \in Link : Fresh(l)
        /\ UNCHANGED <<running, characteristic, introduced, callbacks, phase>>
    BY <1>4 DEF Found
  <2>2. PICK l \in Link : /\ client' = l
                          /\ link' = [link EXCEPT ![l] = "opening"]
                          /\ mine' = [mine EXCEPT ![t] = l]
    BY <1>4 DEF Found
  <2>3. LinkTypes'
    BY <1>1, <2>1, <2>2 DEF LinkTypes
  <2>4. "open" \in Place \ {"ready"} /\ "open" \notin Gone /\ "open" \in Starting
    BY DEF Place, Starting, Gone
  <2>5. mine'[t] = l /\ \A u \in Tasks : u # t => mine'[u] = mine[u]
    BY <1>1, <2>2 DEF LinkTypes
  <2>6. at'[t] = "open"
    BY <1>1, <2>1
  <2>7. Seeking'
    <3>1. CASE t = "main"
      BY <2>2, <2>4, <2>5, <2>6, <3>1 DEF Seeking
    <3>2. CASE t \in Scanners
      BY <2>1, <2>4, <3>2, ScannerSeeks
    <3> QED
      BY <1>2, <3>1, <3>2, TaskNames
  <2>8. t = "main" => at["main"] \in Starting
    BY <2>1 DEF Starting
  <2> DEFINE p == "open"
  <2>9. /\ p \in Place \ {"ready"} /\ p \in Starting
        /\ at' = [at EXCEPT ![t] = p] /\ p = "open"
    BY <2>1, <2>4
  <2> HIDE DEF p
  <2> QED
    BY <1>2, <2>1, <2>3, <2>5, <2>7, <2>8, <2>9, MoveStep
<1>5. CASE FoundNone(t)
  <2>1. UNCHANGED <<running, link, introduced, callbacks, mine>> /\ at[t] = "scan"
    BY <1>5 DEF FoundNone
  <2>2. CASE t = "main"
    <3>1. handshake(at)
      BY <1>5, <2>2, TaskNames DEF FoundNone
    <3>2. Going(at, "main") /\ at["main"] \in Starting
      BY <1>2, <2>1, <2>2, GoingHere DEF Starting
    <3>3. phase' \in [Tasks -> {"none", "write", "retry"}] => Around("main")
      BY <1>1, <2>1 DEF Around, LinkTypes
    <3> QED
      BY <2>1, <3>1, <3>2, <3>3, HandshakeStep
  <2>3. CASE t # "main"
    <3>1. /\ t \in Scanners /\ at' = [at EXCEPT ![t] = "rest"]
          /\ UNCHANGED <<client, characteristic, phase>>
      BY <1>5, <2>3 DEF FoundNone
    <3> DEFINE p == "rest"
    <3>2. p \in Place \ {"ready"} /\ p \notin Gone /\ p = "rest"
          /\ at' = [at EXCEPT ![t] = p]
      BY <3>1 DEF Place, Gone
    <3> HIDE DEF p
    <3>3. Seeking'
      BY <3>1, <3>2, ScannerSeeks
    <3>4. LinkTypes'
      BY <1>1, <2>1, <3>1 DEF LinkTypes
    <3> QED
      BY <1>2, <2>1, <2>3, <3>1, <3>2, <3>3, <3>4, MoveStep
  <2> QED
    BY <2>2, <2>3
<1>6. CASE ScanRaises(t)
  <2> DEFINE p == IF t = "main" THEN "crashed" ELSE "broken"
  <2>1. /\ at' = [at EXCEPT ![t] = p]
        /\ UNCHANGED <<running, client, characteristic, link, introduced,
                       callbacks, phase, mine>>
    BY <1>6 DEF ScanRaises
  <2>2. p \in Place \ {"ready"} /\ (t = "main" => p = "crashed")
        /\ (t # "main" => p = "broken")
    BY DEF Place, Gone
  <2> HIDE DEF p
  <2>3. LinkTypes'
    BY <1>1, <2>1 DEF LinkTypes
  <2>4. at'[t] = p
    BY <1>1, <2>1
  <2>5. Seeking'
    BY <1>2, <2>2, <2>4, TaskNames DEF Seeking, Alive
  <2>6. p \notin {"open", "notify", "reap"}
    BY <2>2
  <2> QED
    BY <1>2, <2>1, <2>2, <2>3, <2>5, <2>6, MoveStep, TaskNames
<1> QED
  BY <1>3, <1>4, <1>5, <1>6

LEMMA ConnectSteps ==
    ASSUME LinkInv, Alive, NEW t \in Tasks,
           Opened(t) \/ Notified(t) \/ Announce(t)
    PROVE  LinkInv'
<1>1. LinkTypes /\ Placed(at) /\ at \in [Tasks -> Place]
  BY DEF LinkInv, Placed
<1>2. at[t] \notin Gone /\ at[t] \in Starting
  BY <1>1 DEF Opened, Notified, Announce, Placed, Gone, Starting
<1>3. /\ UNCHANGED <<running, introduced, callbacks>>
      /\ mine' = [mine EXCEPT ![t] = None] \/ mine' = mine
           \/ mine' = [mine EXCEPT ![t] = client]
  BY DEF Opened, Notified, Announce
<1>4. /\ mine' \in [Tasks -> Link \cup {None}]
      /\ \A u \in Tasks : u # t => mine'[u] = mine[u]
  BY <1>1, <1>3 DEF LinkTypes
<1>5. CASE Opened(t)
  <2>1. link' = link
    BY <1>5 DEF Opened
  <2>2. phase' \in [Tasks -> {"none", "write", "retry"}] => Around(t)
    BY <1>1, <1>3, <1>4, <2>1 DEF Around, LinkTypes
  <2>3. CASE Fail(t)
    BY <1>2, <1>3, <2>2, <2>3, FailStep
  <2>4. CASE /\ IsConnected(client)
             /\ \E char \in {client, characteristic} \ {None} :
                  characteristic' = char
             /\ at' = [at EXCEPT ![t] = "notify"]
             /\ mine' = [mine EXCEPT ![t] = client]
             /\ UNCHANGED <<client, phase>>
    <3>1. client \in Link
      BY <1>1, <2>4 DEF IsConnected, LinkTypes
    <3>2. LinkTypes'
      BY <1>1, <1>3, <1>4, <2>1, <2>4 DEF LinkTypes
    <3>3. Seeking'
      BY <2>1, <2>4 DEF Seeking, IsConnected
    <3>4. mine'[t] \in Link
      BY <1>1, <2>4, <3>1 DEF LinkTypes
    <3> DEFINE p == "notify"
    <3>5. /\ p \in Place \ {"ready"} /\ p \in Starting
          /\ at' = [at EXCEPT ![t] = p] /\ p = "notify"
      BY <2>4 DEF Place, Starting
    <3> HIDE DEF p
    <3> QED
      BY <1>2, <1>3, <1>4, <3>2, <3>3, <3>4, <3>5, MoveStep
  <2>5. CASE /\ t \in Scanners /\ at' = [at EXCEPT ![t] = "rest"]
             /\ UNCHANGED <<client, characteristic, phase>>
    <3> DEFINE p == "rest"
    <3>1. p \in Place \ {"ready"} /\ p \notin Gone /\ p = "rest"
          /\ at' = [at EXCEPT ![t] = p]
      BY <2>5 DEF Place, Gone
    <3> HIDE DEF p
    <3>2. Seeking'
      BY <2>5, <3>1, ScannerSeeks
    <3>3. LinkTypes'
      BY <1>1, <1>3, <1>4, <2>1, <2>5 DEF LinkTypes
    <3>4. t # "main"
      BY <2>5, TaskNames
    <3> QED
      BY <1>2, <1>3, <1>4, <3>1, <3>2, <3>3, <3>4, MoveStep
  <2> QED
    BY <1>5, <2>3, <2>4, <2>5 DEF Opened
<1>6. CASE Notified(t)
  <2>1. CASE Fail(t) /\ link' = link
    <3>1. phase' \in [Tasks -> {"none", "write", "retry"}] => Around(t)
      BY <1>1, <1>3, <1>4, <2>1 DEF Around, LinkTypes
    <3> QED
      BY <1>2, <1>3, <2>1, <3>1, FailStep
  <2>2. CASE /\ IsConnected(mine[t])
             /\ link' = [link EXCEPT ![mine[t]] = "listening"]
             /\ IF t = "main" THEN handshake(at) ELSE send_packet(at, t, "identity")
    <3>1. phase' \in [Tasks -> {"none", "write", "retry"}] => Around(t)
      BY <1>1, <1>3, <1>4, <2>2 DEF Around, LinkTypes
    <3>2. at[t] = "notify"
      BY <1>6 DEF Notified
    <3>3. Going(at, t)
      BY <1>2, <3>2, GoingHere
    <3>4. CASE t = "main"
      BY <1>2, <1>3, <2>2, <3>1, <3>3, <3>4, HandshakeStep
    <3>5. CASE t # "main"
      <4>1. MaySend(t, "identity")
        BY <1>2, <3>5, TaskNames DEF MaySend
      <4> QED
        BY <1>3, <2>2, <3>1, <3>3, <3>5, <4>1, SendPacketStep
    <3> QED
      BY <3>4, <3>5
  <2> QED
    BY <1>6, <2>1, <2>2 DEF Notified
<1>7. CASE Announce(t)
  <2>1. /\ at[t] = "pause" /\ send_packet(at, t, "announce")
        /\ link' = link
    BY <1>7 DEF Announce
  <2>2. phase' \in [Tasks -> {"none", "write", "retry"}] => Around(t)
    BY <1>1, <1>3, <1>4, <2>1 DEF Around, LinkTypes
  <2>3. Going(at, t)
    BY <1>2, <2>1, GoingHere
  <2>4. MaySend(t, "announce")
    BY <1>2, TaskNames DEF MaySend
  <2> QED
    BY <1>2, <1>3, <2>1, <2>2, <2>3, <2>4, SendPacketStep
<1> QED
  BY <1>5, <1>6, <1>7

LEMMA WriteSteps ==
    ASSUME LinkInv, Alive, NEW t \in Tasks,
           Written(t) \/ NotConnected(t) \/ Blocked(t) \/ WriteRaises(t)
    PROVE  LinkInv'
<1>1. LinkTypes /\ Placed(at) /\ at \in [Tasks -> Place]
  BY DEF LinkInv, Placed
<1>2. /\ at[t] \in Sends
      /\ UNCHANGED <<running, link, callbacks, mine>>
  BY DEF Written, NotConnected, Blocked, WriteRaises, Returns
<1> DEFINE step == at[t]
<1>3. /\ MaySend(t, step) /\ at[t] \notin Gone
      /\ t = "main" => (step \in {"identity", "fallback", "announce"}
                          <=> at["main"] \in Starting)
      /\ at[t] # "open"
      /\ step = "bye" => ~running
  BY <1>2, MaySendHere
<1>4. Going(at, t)
  BY <1>3, GoingHere
<1>5. introduced' \subseteq Link
  <2>1. IsConnected(client) /\ Introduce(t) => introduced' \subseteq Link
    BY <1>1 DEF Introduce, LinkTypes, IsConnected
  <2> QED
    BY <1>1, <2>1 DEF Written, NotConnected, Blocked, WriteRaises, LinkTypes
<1>6. phase' \in [Tasks -> {"none", "write", "retry"}] => Around(t)
  BY <1>1, <1>2, <1>5 DEF Around, LinkTypes
<1>7. ASSUME /\ at' = EndHandshake([at EXCEPT ![t] = After(t, step)], client)
             /\ phase' = [phase EXCEPT ![t] = "none"]
             /\ UNCHANGED <<client, characteristic>>
      PROVE  LinkInv'
  <2>1. Around(t)
    BY <1>1, <1>6, <1>7 DEF LinkTypes
  <2> HIDE DEF step
  <2> QED
    BY <1>2, <1>3, <1>4, <1>7, <2>1, ReturnStep
<1>8. CASE Written(t)
  BY <1>7, <1>8 DEF Written, Returns
<1>9. CASE NotConnected(t)
  <2>0. CASE Returns(t)
    BY <1>7, <2>0 DEF Returns
  <2> SUFFICES ASSUME ~Returns(t) PROVE LinkInv'
    BY <2>0
  <2> DEFINE r == [at EXCEPT ![t] = After(t, step)]
  <2>1. handle_disconnect(r) /\ phase' = [phase EXCEPT ![t] = "none"]
    BY <1>9 DEF NotConnected
  <2>2. /\ Nearly(r)
        /\ \A u \in Tasks : r[u] \in {"open", "notify"} => u # t /\ mine[u] \in Link
        /\ r["main"] \in {"bye", "reap", "closing"} => ~running'
    <3> HIDE DEF step
    <3> QED
      BY <1>2, <1>3, <1>4, BackPlaces
  <2> HIDE DEF r
  <2>3. phase' \in [Tasks -> {"none", "write", "retry"}]
    BY <1>1, <2>1 DEF LinkTypes
  <2> QED
    BY <1>1, <1>2, <1>5, <2>1, <2>2, <2>3, DisconnectStep DEF LinkTypes
<1>10. CASE Blocked(t)
  <2>1. UNCHANGED <<client, characteristic>>
    BY <1>10 DEF Blocked, Returns
  <2>2. CASE phase' = [phase EXCEPT ![t] = "retry"] /\ at' = at
    <3>1. LinkTypes'
      BY <1>1, <1>2, <1>5, <2>1, <2>2 DEF LinkTypes
    <3>2. Seeking' /\ Stopping'
      BY <1>2, <2>1, <2>2 DEF LinkInv, Seeking, Stopping, IsConnected, Alive
    <3> QED
      BY <1>1, <1>2, <2>2, <3>1, <3>2 DEF LinkInv
  <2> QED
    BY <1>7, <1>10, <2>1, <2>2 DEF Blocked, Returns
<1>11. CASE WriteRaises(t)
  <2>1. Raise(t, step)
    BY <1>11 DEF WriteRaises
  <2>2. CASE step = "identity" /\ send_packet(at, t, "fallback")
    <3>1. MaySend(t, "fallback")
      BY <1>3, <2>2 DEF MaySend
    <3> QED
      BY <1>2, <1>3, <1>4, <1>6, <2>2, <3>1, SendPacketStep
  <2>3. CASE step \in {"fallback", "announce"} /\ t \in Scanners /\ Fail(t)
    <3>1. at[t] \in Starting
      BY <2>3 DEF Starting
    <3> QED
      BY <1>2, <1>6, <2>3, <3>1, FailStep
  <2>4. CASE /\ \/ step \in {"fallback", "announce"} /\ t \notin Scanners
                \/ step \in {"leave", "bye"}
             /\ at' = [at EXCEPT ![t] =
                          CASE step \in {"fallback", "announce"} -> "crashed"
                            [] step = "leave" -> "input"
                            [] step = "bye" -> "reap"]
             /\ phase' = [phase EXCEPT ![t] = "none"]
             /\ UNCHANGED <<client, characteristic>>
    <3> DEFINE p == CASE step \in {"fallback", "announce"} -> "crashed"
                      [] step = "leave" -> "input"
                      [] step = "bye" -> "reap"
    <3>1. at' = [at EXCEPT ![t] = p]
      BY <2>4
    <3>2. \/ t = "main" /\ p = "crashed" /\ step \in {"fallback", "announce"}
          \/ t = "main" /\ p = "input" /\ step = "leave"
          \/ t = "main" /\ p = "reap" /\ step = "bye"
      BY <1>3, <2>4, TaskNames DEF MaySend
    <3> HIDE DEF p
    <3>3. p \in Place \ {"ready"}
      BY <3>2 DEF Place
    <3>4. LinkTypes'
      BY <1>1, <1>2, <1>5, <2>4 DEF LinkTypes
    <3>5. /\ at'[t] = p /\ \A u \in Tasks : u # t => at'[u] = at[u]
      BY <1>1, <3>1, <3>3
    <3>6. Seeking'
      <4>1. CASE p = "crashed"
        BY <3>2, <3>5, <4>1 DEF Seeking, Alive
      <4>2. CASE p = "reap"
        BY <1>2, <1>3, <3>2, <4>2 DEF Seeking
      <4>3. CASE p = "input"
        <5>1. at["main"] \notin Starting
          BY <1>3, <3>2, <4>3
        <5> QED
          BY <1>2, <2>4, <3>2, <3>5, <4>3, <5>1, TaskNames
             DEF LinkInv, Seeking, Search, IsConnected, Alive
      <4> QED
        BY <3>2, <4>1, <4>2, <4>3
    <3>7. t \notin Scanners
      BY <3>2, TaskNames
    <3> QED
      BY <1>2, <1>3, <3>1, <3>2, <3>3, <3>4, <3>6, <3>7, MoveStep
  <2> QED
    BY <2>1, <2>2, <2>3, <2>4 DEF Raise
<1> QED
  BY <1>8, <1>9, <1>10, <1>11

LEMMA DisconnectingStep ==
    ASSUME LinkInv, Alive, at["main"] \in {"input", "leaving"}, Disconnecting,
           UNCHANGED <<link, introduced, callbacks, mine>>
    PROVE  LinkInv'
<1>1. LinkTypes /\ Placed(at) /\ at \in [Tasks -> Place]
  BY DEF LinkInv, Placed
<1>2. ~running' /\ running' \in BOOLEAN
  BY DEF Disconnecting
<1>3. CASE send_packet(at, "main", "bye")
  <2>1. at["main"] \notin Gone /\ at["main"] \notin Starting /\ at["main"] # "open"
    BY DEF Gone, Starting
  <2>2. Going(at, "main")
    BY <2>1, GoingHere, TaskNames
  <2>3. phase' \in [Tasks -> {"none", "write", "retry"}] => Around("main")
    BY <1>1, <1>2 DEF Around, LinkTypes
  <2>4. MaySend("main", "bye")
    BY DEF MaySend
  <2> QED
    BY <1>2, <1>3, <2>1, <2>2, <2>3, <2>4, SendPacketStep
<1>4. CASE /\ at' = [at EXCEPT !["main"] = "reap"]
           /\ UNCHANGED <<client, characteristic, phase>>
  <2> DEFINE p == "reap"
             t == "main"
  <2>1. /\ p \in Place \ {"ready"} /\ p = "reap" /\ t = "main" /\ t \in Tasks
        /\ t \notin Scanners /\ at' = [at EXCEPT ![t] = p]
    BY <1>4, TaskNames DEF Place
  <2> HIDE DEF p, t
  <2>2. LinkTypes'
    BY <1>1, <1>2, <1>4 DEF LinkTypes
  <2>3. Seeking'
    BY <1>2 DEF Seeking
  <2> QED
    BY <1>2, <2>1, <2>2, <2>3, MoveStep
<1> QED
  BY <1>3, <1>4 DEF Disconnecting

(* A callback or a handler gives the link up.                              *)
LEMMA GivenUp ==
    ASSUME LinkInv, handle_disconnect(at), callbacks' \subseteq Link,
           UNCHANGED <<running, link, introduced, phase, mine>>
    PROVE  LinkInv'
<1>1. LinkTypes /\ Placed(at)
  BY DEF LinkInv
<1>2. Nearly(at)
  BY <1>1 DEF Placed, Nearly, Starting
<1>3. /\ \A u \in Tasks : at[u] \in {"open", "notify"} => mine'[u] \in Link
      /\ at["main"] \in {"bye", "reap", "closing"} => ~running'
  BY DEF LinkInv, Stopping
<1> QED
  BY <1>1, <1>2, <1>3, DisconnectStep DEF LinkTypes

LEMMA UserSteps ==
    ASSUME LinkInv, Alive, Reply \/ Exit \/ Interrupt \/ ExitLeft
    PROVE  LinkInv'
<1>1. LinkTypes /\ Placed(at) /\ at \in [Tasks -> Place]
  BY DEF LinkInv, Placed
<1>2. UNCHANGED <<link, introduced, callbacks, mine>>
  BY DEF Reply, Exit, Interrupt, ExitLeft
<1>3. CASE Reply
  <2>1. handle_disconnect(at) /\ UNCHANGED <<running, phase>>
    BY <1>3 DEF Reply
  <2> QED
    BY <1>1, <1>2, <2>1, GivenUp DEF LinkTypes
<1>4. CASE /\ at["main"] = "input" /\ send_packet(at, "main", "leave")
           /\ running' = running
  <2>1. at["main"] \notin Gone /\ at["main"] \notin Starting /\ at["main"] # "open"
    BY <1>4 DEF Gone, Starting
  <2>2. Going(at, "main")
    BY <2>1, GoingHere, TaskNames
  <2>3. phase' \in [Tasks -> {"none", "write", "retry"}] => Around("main")
    BY <1>1, <1>2, <1>4 DEF Around, LinkTypes
  <2>4. MaySend("main", "leave")
    BY DEF MaySend
  <2> QED
    BY <1>4, <2>1, <2>2, <2>3, <2>4, SendPacketStep
<1>5. CASE at["main"] \in {"input", "leaving"} /\ Disconnecting
  BY <1>2, <1>5, DisconnectingStep
<1> QED
  BY <1>3, <1>4, <1>5 DEF Exit, Interrupt, ExitLeft

LEMMA EndSteps ==
    ASSUME LinkInv, Alive, Reap \/ Close
    PROVE  LinkInv'
<1>1. LinkTypes /\ Placed(at) /\ at \in [Tasks -> Place]
  BY DEF LinkInv, Placed
<1>2. ~running /\ running' = running
  BY DEF LinkInv, Stopping, Reap, Close
<1>3. Seeking' /\ Stopping'
  BY <1>2 DEF Seeking, Stopping
<1>4. CASE Reap
  <2> DEFINE m == IF at["first"] = "broken" THEN "crashed" ELSE "closing"
             f == IF at["first"] \in Gone THEN at["first"] ELSE "none"
  <2>1. /\ at' = [at EXCEPT !["main"] = m, !["first"] = f]
        /\ phase' = [phase EXCEPT !["first"] = "none"]
        /\ mine' = [mine EXCEPT !["first"] = None]
        /\ UNCHANGED <<client, characteristic, link, introduced, callbacks>>
    BY <1>4 DEF Reap
  <2>2. m \in {"crashed", "closing"} /\ f \in Gone /\ f \in Place /\ m \in Place
    BY DEF Gone, Place
  <2> HIDE DEF m, f
  <2>3. /\ at' \in [Tasks -> Place] /\ at'["main"] = m /\ at'["first"] = f
        /\ \A u \in Tasks : u \notin {"main", "first"} => at'[u] = at[u]
    BY <1>1, <2>1, <2>2, TaskNames
  <2>4. Placed(at')
    BY <1>1, <2>2, <2>3, TaskNames DEF Placed, Starting
  <2>5. LinkTypes'
    BY <1>1, <1>2, <2>1 DEF LinkTypes
  <2>6. ASSUME NEW u \in Tasks, at'[u] \in {"open", "notify"}
        PROVE  mine'[u] \in Link
    <3>1. u \notin {"main", "first"}
      BY <2>2, <2>3, <2>6 DEF Gone
    <3>2. mine'[u] = mine[u]
      BY <1>1, <2>1, <3>1 DEF LinkTypes
    <3> QED
      BY <2>3, <2>6, <3>1, <3>2 DEF LinkInv
  <2> QED
    BY <1>3, <2>4, <2>5, <2>6 DEF LinkInv
<1>5. CASE Close
  <2> DEFINE p == "ended"
             t == "main"
  <2>1. /\ p \in Place \ {"ready"} /\ p = "ended" /\ t = "main" /\ t \in Tasks
        /\ t \notin Scanners /\ at' = [at EXCEPT ![t] = p]
    BY <1>5, TaskNames DEF Place, Close
  <2> HIDE DEF p, t
  <2>2. UNCHANGED <<client, characteristic, introduced, callbacks, phase, mine>>
    BY <1>5 DEF Close
  <2>3. link' \in [Link -> {"down", "opening", "up", "listening", "lost"}]
    BY <1>1, <1>5 DEF Close, LinkTypes
  <2>4. LinkTypes'
    BY <1>1, <1>2, <2>2, <2>3 DEF LinkTypes
  <2> QED
    BY <1>2, <1>3, <2>1, <2>2, <2>4, MoveStep
<1> QED
  BY <1>4, <1>5

LEMMA RadioSteps ==
    ASSUME LinkInv, Alive, NEW l \in Link, OpenEnds(l) \/ LinkLost(l) \/ Callback(l)
    PROVE  LinkInv'
<1>1. LinkTypes /\ Placed(at) /\ at \in [Tasks -> Place]
  BY DEF LinkInv, Placed
<1>2. CASE OpenEnds(l)
  <2>1. /\ link[l] = "opening"
        /\ UNCHANGED <<running, client, characteristic, introduced, callbacks,
                       at, phase, mine>>
    BY <1>2 DEF OpenEnds
  <2>2. PICK s \in {"up", "down"} : link' = [link EXCEPT ![l] = s]
    BY <1>2 DEF OpenEnds
  <2>3. LinkTypes'
    BY <1>1, <2>1, <2>2 DEF LinkTypes
  <2>4. IsConnected(client) => IsConnected(client)'
    BY <1>1, <2>1, <2>2 DEF IsConnected, LinkTypes
  <2>5. Seeking' /\ Stopping'
    BY <2>1, <2>4 DEF LinkInv, Seeking, Stopping, Alive
  <2> QED
    BY <1>1, <2>1, <2>3, <2>5 DEF LinkInv
<1>3. CASE LinkLost(l)
  <2>1. /\ link' = [link EXCEPT ![l] = "lost"]
        /\ callbacks' = callbacks \cup {l}
        /\ introduced' = introduced \ {l}
        /\ UNCHANGED <<running, client, characteristic, at, phase, mine>>
    BY <1>3 DEF LinkLost
  <2>2. LinkTypes'
    BY <1>1, <2>1 DEF LinkTypes
  <2>3. Seeking'
    BY <2>1 DEF Seeking
  <2>4. Stopping'
    BY <2>1 DEF LinkInv, Stopping
  <2> QED
    BY <1>1, <2>1, <2>2, <2>3, <2>4 DEF LinkInv
<1>4. CASE Callback(l)
  <2>1. /\ callbacks' = callbacks \ {l} /\ handle_disconnect(at)
        /\ UNCHANGED <<running, link, introduced, phase, mine>>
    BY <1>4 DEF Callback
  <2>2. callbacks' \subseteq Link
    BY <1>1, <2>1 DEF LinkTypes
  <2> QED
    BY <1>1, <2>1, <2>2, GivenUp DEF LinkTypes
<1> QED
  BY <1>2, <1>3, <1>4

LEMMA LinkNext == LinkInv /\ [Next]_vars => LinkInv'
<1> SUFFICES ASSUME LinkInv, [Next]_vars
             PROVE  LinkInv'
  OBVIOUS
<1>1. CASE UNCHANGED vars
  BY <1>1 DEF vars, stepVars, LinkInv, LinkTypes, Seeking, Stopping, IsConnected, Alive
<1>2. ASSUME Alive, NEW t \in Tasks, Step(t)
      PROVE  LinkInv'
  BY <1>2, ScanSteps, ConnectSteps, WriteSteps, UserSteps, EndSteps DEF Step
<1>3. CASE Alive /\ (User \/ Reply)
  BY <1>3, UserSteps DEF User
<1>4. ASSUME Alive, NEW l \in Link, OpenEnds(l) \/ LinkLost(l) \/ Callback(l)
      PROVE  LinkInv'
  BY <1>4, RadioSteps
<1> QED
  BY <1>1, <1>2, <1>3, <1>4 DEF Next, Stopped

(* The inductive invariant holds of every behaviour.                       *)
THEOREM ClientLinkInvariant == Spec => []LinkInv
BY LinkInit, LinkNext, PTL DEF Spec

(* Fields, links and tasks have the types of ClientLinkTypeOK: in          *)
(* particular no task of bitchat.py is at an await it does not have.       *)
THEOREM ClientLinkTypeCorrect == Spec => []ClientLinkTypeOK
<1> DEFINE Kept == answering \in BOOLEAN /\ stale \subseteq Tasks
<1>1. LinkInv /\ Kept => ClientLinkTypeOK
  <2> SUFFICES ASSUME LinkInv, Kept
               PROVE  ClientLinkTypeOK
    OBVIOUS
  <2>1. LinkTypes /\ Placed(at)
    BY DEF LinkInv
  <2>2. ASSUME NEW t \in Tasks
        PROVE  at[t] \in Sends \cup Gone \cup
                 {"scan", "open", "notify", "pause", "input", "leaving",
                  "reap", "closing", "ended", "crashed", "rest"}
    BY <2>1, TaskNames DEF Placed, Starting, Sends
  <2>3. at \in [Tasks -> Sends \cup Gone \cup
                 {"scan", "open", "notify", "pause", "input", "leaving",
                  "reap", "closing", "ended", "crashed", "rest"}]
    BY <2>1, <2>2 DEF Placed
  <2> QED
    BY <2>1, <2>3 DEF ClientLinkTypeOK, LinkTypes
<1>2. Init => Kept
  BY DEF Init
<1>3. Kept /\ [Next]_vars => Kept'
  BY DEF Next, Aging, Stopped, LinkLost, vars
<1> HIDE DEF Kept
<1> QED
  BY <1>1, <1>2, <1>3, ClientLinkInvariant, PTL DEF Spec

(* A client at the prompt that is not connected has a scanner, or a        *)
(* disconnected_callback that starts one, unless a scan raised, however    *)
(* handle_disconnect(), the attempts to connect and the scanners           *)
(* interleave. One that is connected and not subscribed is not covered.    *)
THEOREM ClientNeverStranded == Spec => []NeverStranded
<1>1. LinkInv => NeverStranded
  <2> SUFFICES ASSUME LinkInv, at["main"] = "input", running, ~IsConnected(client),
                      \A t \in Scanners : at[t] # "broken"
               PROVE  callbacks # {} \/ \E t \in Scanners : at[t] \notin Gone
    BY DEF NeverStranded
  <2>1. at["first"] # "broken" /\ at["again"] # "broken"
    BY TaskNames
  <2>2. Alive /\ at["main"] \notin Starting
    BY DEF Alive, Starting
  <2>3. Search(at) \/ callbacks # {}
    BY <2>1, <2>2 DEF LinkInv, Seeking
  <2> QED
    BY <2>3, TaskNames DEF Search
<1> QED
  BY <1>1, ClientLinkInvariant, PTL

-----------------------------------------------------------------------------
(* Every link gets the identity.                                           *)

Setup == {"open", "notify", "identity", "fallback"}

(* Task t is about to introduce the client.                                *)
Busy(t) == at[t] \in Setup /\ (at[t] \in Sends => t \notin stale)

IntroducedInv ==
    (/\ running /\ Alive
     /\ IsConnected(client) /\ characteristic = client
     /\ link[client] = "listening"
     /\ \A t \in Tasks : ~Busy(t))
    => client \in introduced

(* Three ways in which a step keeps Introduced: there is no link to speak  *)
(* of, a task is at it, or nothing has changed for the link.               *)
LEMMA NothingToIntroduce ==
    ASSUME LinkInv',
           \/ client' = None \/ characteristic' = None
           \/ ~running' \/ ~Alive' \/ client' \in introduced'
    PROVE  IntroducedInv'
BY DEF LinkInv, LinkTypes, IntroducedInv, IsConnected

LEMMA BeingIntroduced ==
    ASSUME Aging, NEW t \in Tasks, at'[t] \in Setup, at'[t] # at[t]
    PROVE  IntroducedInv'
<1>1. t \notin stale'
  BY DEF Aging
<1> QED
  BY <1>1 DEF IntroducedInv, Busy

(* A task that stays where it is keeps at it while the client stays.       *)
LEMMA BusyStays ==
    ASSUME Aging, client' = client, NEW t \in Tasks, at'[t] = at[t], Busy(t)
    PROVE  Busy(t)'
BY DEF Aging, Busy

LEMMA StillIntroduced ==
    ASSUME LinkInv, LinkInv', IntroducedInv, Alive, running' => running,
           UNCHANGED <<client, characteristic>>,
           \A l \in Link : link'[l] = "listening" =>
             link[l] = "listening" /\ (l \in introduced => l \in introduced'),
           Aging, \A t \in Tasks : Busy(t) => at'[t] = at[t]
    PROVE  IntroducedInv'
<1> SUFFICES ASSUME running', Alive', IsConnected(client)',
                    characteristic' = client', link'[client'] = "listening",
                    \A t \in Tasks : ~Busy(t)'
             PROVE  client' \in introduced'
  BY DEF IntroducedInv
<1>1. client \in Link /\ link'[client] = "listening"
  BY DEF LinkInv, LinkTypes, IsConnected
<1>2. link[client] = "listening" /\ (client \in introduced => client \in introduced')
  BY <1>1
<1>3. IsConnected(client)
  BY <1>1, <1>2 DEF IsConnected
<1>4. \A t \in Tasks : ~Busy(t)
  BY BusyStays
<1>5. client \in introduced
  BY <1>2, <1>3, <1>4 DEF IntroducedInv
<1> QED
  BY <1>2, <1>5

LEMMA SendPacketIntroduces ==
    ASSUME LinkInv, LinkInv', IntroducedInv, Aging, Alive, NEW t \in Tasks,
           NEW a \in [Tasks -> Place], NEW step, send_packet(a, t, step),
           at[t] # step,
           \/ step \in Setup
           \/ /\ a = at /\ at[t] \notin Setup /\ UNCHANGED <<link, introduced>>
              /\ running' => running
    PROVE  IntroducedInv'
<1>1. CASE \/ client = None /\ client' = client
           \/ characteristic = None /\ characteristic' = characteristic
           \/ client' = None
  BY <1>1, NothingToIntroduce
<1>2. CASE at' = [a EXCEPT ![t] = step] /\ UNCHANGED <<client, characteristic>>
  <2>1. /\ at'[t] = step /\ \A u \in Tasks : u # t => at'[u] = a[u]
    BY <1>2
  <2>2. CASE step \in Setup
    BY <2>1, <2>2, BeingIntroduced
  <2>3. CASE /\ a = at /\ at[t] \notin Setup /\ UNCHANGED <<link, introduced>>
             /\ running' => running
    <3>1. \A u \in Tasks : Busy(u) => at'[u] = at[u]
      BY <2>1, <2>3 DEF Busy
    <3> QED
      BY <1>2, <2>3, <3>1, StillIntroduced
  <2> QED
    BY <2>2, <2>3
<1> QED
  BY <1>1, <1>2 DEF send_packet, handle_disconnect

LEMMA HandshakeIntroduces ==
    ASSUME LinkInv, LinkInv', IntroducedInv, Aging, Alive, NEW a \in [Tasks -> Place],
           handshake(a), at["main"] # "identity"
    PROVE  IntroducedInv'
<1>1. CASE send_packet(a, "main", "identity")
  <2>1. "identity" \in Setup /\ "main" \in Tasks
    BY TaskNames DEF Setup
  <2> QED
    BY <1>1, <2>1, SendPacketIntroduces
<1>2. CASE /\ client = None \/ characteristic = None
           /\ UNCHANGED <<client, characteristic, phase>>
  BY <1>2, NothingToIntroduce
<1> QED
  BY <1>1, <1>2 DEF handshake

LEMMA FailIntroduces ==
    ASSUME LinkInv, LinkInv', IntroducedInv, Aging, Alive, NEW t \in Tasks, Fail(t),
           at[t] # "identity"
    PROVE  IntroducedInv'
<1>1. CASE t = "main"
  <2> DEFINE a == [at EXCEPT !["first"] = "due"]
  <2>1. a \in [Tasks -> Place]
    BY TaskNames DEF LinkInv, Placed, Place, Gone
  <2>2. handshake(a)
    BY <1>1, TaskNames DEF Fail
  <2> HIDE DEF a
  <2>3. at["main"] # "identity"
    BY <1>1
  <2> QED
    BY <2>1, <2>2, <2>3, HandshakeIntroduces
<1>2. CASE client' = None
  BY <1>2, NothingToIntroduce
<1> QED
  BY <1>1, <1>2 DEF Fail

(* A task that was not introducing goes on.                                *)
LEMMA ReturnIntroduces ==
    ASSUME LinkInv, LinkInv', IntroducedInv, Aging, Alive, NEW t \in Tasks, at[t] \in Sends,
           at' = EndHandshake([at EXCEPT ![t] = After(t, at[t])], client),
           Introduce(t) \/ (t \in stale /\ introduced' = introduced),
           UNCHANGED <<running, client, characteristic, link>>
    PROVE  IntroducedInv'
<1>1. CASE at[t] \in {"identity", "fallback"} /\ Introduce(t)
  BY <1>1, NothingToIntroduce DEF Introduce
<1>2. CASE at[t] \notin {"identity", "fallback"} \/ ~Introduce(t)
  <2>1. introduced' = introduced /\ ~Busy(t)
    BY <1>2 DEF Introduce, Setup, Sends, Busy
  <2> DEFINE p == After(t, at[t])
             r == [at EXCEPT ![t] = p]
  <2>2. MaySend(t, at[t])
    BY MaySendHere
  <2>3. p \in Place
    <3> DEFINE step == at[t]
    <3>1. MaySend(t, step)
      BY <2>2
    <3> HIDE DEF step
    <3>2. After(t, step) \in Place
      BY <3>1, AfterPlaces DEF MaySend, Place, Starting
    <3> QED
      BY <3>2 DEF step
  <2>4. at' = EndHandshake(r, client)
    OBVIOUS
  <2> HIDE DEF p
  <2>5. Placed(at) /\ at \in [Tasks -> Place]
    BY DEF LinkInv, Placed
  <2>6. /\ r \in [Tasks -> Place] /\ r[t] = p
        /\ \A u \in Tasks : u # t => r[u] = at[u]
    BY <2>3, <2>5
  <2>7. r["main"] = "ready" => t = "main" /\ at["first"] \notin Setup
    <3>1. CASE t = "main"
      <4>1. r["main"] = "ready" => at["main"] \in Starting
        BY <2>2, <2>6, <3>1, AfterPlaces DEF MaySend, p, Starting
      <4> QED
        BY <2>5, <3>1, <4>1 DEF Placed, Setup
    <3>2. CASE t # "main"
      BY <2>5, <2>6, <3>2, TaskNames DEF Placed, Starting
    <3> QED
      BY <3>1, <3>2
  <2> HIDE DEF r
  <2>8. /\ r["main"] # "ready" => at' = r
        /\ \A u \in Tasks : u \notin {"main", "first"} => at'[u] = r[u]
    BY <2>4, <2>6 DEF EndHandshake
  <2>9. ASSUME NEW u \in Tasks, Busy(u)
        PROVE  at'[u] = at[u]
    <3>1. u # t /\ r[u] = at[u] /\ at[u] \in Setup
      BY <2>1, <2>6, <2>9 DEF Busy
    <3> QED
      BY <2>7, <2>8, <3>1
  <2> QED
    BY <2>1, <2>9, StillIntroduced
<1> QED
  BY <1>1, <1>2

LEMMA TaskIntroduces ==
    ASSUME LinkInv, LinkInv', IntroducedInv, Aging, Alive, NEW t \in Tasks, Step(t)
    PROVE  IntroducedInv'
<1>1. Placed(at) /\ at \in [Tasks -> Place]
  BY DEF LinkInv, Placed
<1>2. ASSUME NEW p, at' = [at EXCEPT ![t] = p], ~Busy(t),
             UNCHANGED <<running, client, characteristic, link, introduced>>
      PROVE  IntroducedInv'
  <2>1. \A u \in Tasks : Busy(u) => at'[u] = at[u]
    BY <1>1, <1>2
  <2> QED
    BY <1>2, <2>1, StillIntroduced
<1>3. CASE ScannerHead(t) \/ ScanRaises(t)
  BY <1>2, <1>3 DEF ScannerHead, ScanRaises, Busy, Setup
<1>4. CASE Found(t)
  <2>1. at[t] = "scan" /\ at' = [at EXCEPT ![t] = "open"]
    BY <1>4 DEF Found
  <2>2. at'[t] \in Setup /\ at'[t] # at[t]
    BY <1>1, <2>1 DEF Setup
  <2> QED
    BY <2>2, BeingIntroduced
<1>5. CASE FoundNone(t)
  <2>1. CASE t = "main" /\ handshake(at)
    BY <1>1, <1>5, <2>1, HandshakeIntroduces DEF FoundNone
  <2> QED
    BY <1>2, <1>5, <2>1 DEF FoundNone, Busy, Setup
<1>6. CASE Opened(t)
  <2>0. at[t] = "open"
    BY <1>6 DEF Opened
  <2>1. CASE Fail(t)
    BY <2>0, <2>1, FailIntroduces
  <2>2. CASE at' = [at EXCEPT ![t] = "notify"]
    <3>1. at'[t] \in Setup /\ at'[t] # at[t]
      BY <1>1, <2>0, <2>2 DEF Setup
    <3> QED
      BY <3>1, BeingIntroduced
  <2>3. CASE characteristic = None /\ characteristic' = characteristic
    BY <2>3, NothingToIntroduce
  <2> QED
    BY <1>6, <2>1, <2>2, <2>3 DEF Opened
<1>7. CASE Notified(t)
  <2>0. at[t] = "notify"
    BY <1>7 DEF Notified
  <2>1. CASE Fail(t)
    BY <2>0, <2>1, FailIntroduces
  <2>2. CASE t = "main" /\ handshake(at)
    BY <1>1, <2>0, <2>2, HandshakeIntroduces
  <2>3. CASE send_packet(at, t, "identity")
    <3>1. "identity" \in Setup
      BY DEF Setup
    <3> QED
      BY <1>1, <2>0, <2>3, <3>1, SendPacketIntroduces
  <2> QED
    BY <1>7, <2>1, <2>2, <2>3 DEF Notified
<1>8. CASE Announce(t)
  <2>1. /\ send_packet(at, t, "announce") /\ at[t] \notin Setup \cup {"announce"}
        /\ UNCHANGED <<running, link, introduced>>
    BY <1>8 DEF Announce, Setup
  <2> QED
    BY <1>1, <2>1, SendPacketIntroduces
<1>9. CASE Written(t) \/ Blocked(t)
  <2>1. UNCHANGED <<running, client, characteristic, link>> /\ at[t] \in Sends
    BY <1>9 DEF Written, Blocked, Returns
  <2>2. CASE UNCHANGED <<at, introduced>>
    BY <2>1, <2>2, StillIntroduced
  <2>3. CASE /\ at' = EndHandshake([at EXCEPT ![t] = After(t, at[t])], client)
             /\ Introduce(t) \/ (t \in stale /\ introduced' = introduced)
    BY <2>1, <2>3, ReturnIntroduces
  <2> QED
    BY <1>9, <2>2, <2>3 DEF Written, Blocked, Returns
<1>10. CASE NotConnected(t)
  <2>1. client' = None
    BY <1>10 DEF NotConnected, handle_disconnect, Returns
  <2> QED
    BY <2>1, NothingToIntroduce
<1>11. CASE WriteRaises(t)
  <2>1. Raise(t, at[t]) /\ UNCHANGED <<running, link, introduced>>
    BY <1>11 DEF WriteRaises
  <2>2. CASE at[t] = "identity" /\ send_packet(at, t, "fallback")
    <3>1. "fallback" \in Setup
      BY DEF Setup
    <3> QED
      BY <1>1, <2>2, <3>1, SendPacketIntroduces
  <2>3. CASE at[t] # "identity" /\ Fail(t)
    BY <2>3, FailIntroduces
  <2>4. CASE at[t] \in {"fallback", "announce"} /\ t \notin Scanners
             /\ at' = [at EXCEPT ![t] = "crashed"]
    <3>1. t = "main"
      BY <1>1, <2>4, TaskNames DEF Placed
    <3>2. ~Alive'
      BY <1>1, <2>4, <3>1 DEF Alive
    <3> QED
      BY <3>2, NothingToIntroduce
  <2>5. CASE /\ at[t] \in {"leave", "bye"}
             /\ \E p : at' = [at EXCEPT ![t] = p]
             /\ UNCHANGED <<client, characteristic>>
    BY <1>2, <2>1, <2>5 DEF Setup, Busy
  <2> QED
    BY <2>1, <2>2, <2>3, <2>4, <2>5 DEF Raise
<1>12. CASE ExitLeft
  BY <1>12, NothingToIntroduce DEF ExitLeft, Disconnecting
<1>13. CASE Reap \/ Close
  BY <1>13, NothingToIntroduce DEF Reap, Close, LinkInv, Stopping
<1> QED
  BY <1>3, <1>4, <1>5, <1>6, <1>7, <1>8, <1>9, <1>10, <1>11, <1>12, <1>13 DEF Step

LEMMA OthersIntroduce ==
    ASSUME LinkInv, LinkInv', IntroducedInv, Aging, Alive,
           User \/ Reply \/ \E l \in Link : OpenEnds(l) \/ LinkLost(l) \/ Callback(l)
    PROVE  IntroducedInv'
<1>1. Placed(at) /\ at \in [Tasks -> Place] /\ LinkTypes
  BY DEF LinkInv, Placed
<1>2. CASE Disconnecting
  BY <1>2, NothingToIntroduce DEF Disconnecting
<1>3. CASE Reply
  <2>1. client' = None
    BY <1>3 DEF Reply, handle_disconnect
  <2> QED
    BY <2>1, NothingToIntroduce
<1>4. CASE /\ send_packet(at, "main", "leave") /\ at["main"] = "input"
           /\ UNCHANGED <<running, link, introduced>>
  BY <1>1, <1>4, SendPacketIntroduces, TaskNames DEF Setup
<1>5. ASSUME NEW l \in Link, OpenEnds(l)
      PROVE  IntroducedInv'
  <2>1. PICK s \in {"up", "down"} : link' = [link EXCEPT ![l] = s]
    BY <1>5 DEF OpenEnds
  <2>2. UNCHANGED <<running, client, characteristic, introduced, at>>
    BY <1>5 DEF OpenEnds
  <2>3. \A k \in Link : link'[k] = "listening" => link[k] = "listening"
    BY <1>1, <2>1 DEF LinkTypes
  <2> QED
    BY <2>2, <2>3, StillIntroduced
<1>6. ASSUME NEW l \in Link, LinkLost(l)
      PROVE  IntroducedInv'
  <2>1. link' = [link EXCEPT ![l] = "lost"] /\ introduced' = introduced \ {l}
    BY <1>6 DEF LinkLost
  <2>2. UNCHANGED <<running, client, characteristic, at>>
    BY <1>6 DEF LinkLost
  <2>3. \A k \in Link : link'[k] = "listening" =>
          link[k] = "listening" /\ (k \in introduced => k \in introduced')
    BY <1>1, <2>1 DEF LinkTypes
  <2> QED
    BY <2>2, <2>3, StillIntroduced
<1>7. ASSUME NEW l \in Link, Callback(l)
      PROVE  IntroducedInv'
  <2>1. client' = None
    BY <1>7 DEF Callback, handle_disconnect
  <2> QED
    BY <2>1, NothingToIntroduce
<1> QED
  BY <1>2, <1>3, <1>4, <1>5, <1>6, <1>7 DEF User, Exit, Interrupt

(* Once nothing is being set up, a subscribed link has had the identity or *)
(* the key exchange that replaces it, whichever task wrote it.             *)
THEOREM LinksAreIntroduced == Spec => []Introduced
<1>1. Init => IntroducedInv
  BY DEF Init, IntroducedInv, IsConnected
<1>2. LinkInv /\ LinkInv' /\ IntroducedInv /\ [Next]_vars => IntroducedInv'
  <2> SUFFICES ASSUME LinkInv, LinkInv', IntroducedInv, [Next]_vars
               PROVE  IntroducedInv'
    OBVIOUS
  <2>1. CASE UNCHANGED vars
    BY <2>1 DEF vars, stepVars, IntroducedInv, IsConnected, Alive, Busy
  <2>2. CASE Alive /\ Aging /\ \E t \in Tasks : Step(t)
    BY <2>2, TaskIntroduces
  <2>3. CASE /\ Alive /\ Aging
             /\ \/ User \/ Reply
                \/ \E l \in Link : OpenEnds(l) \/ LinkLost(l) \/ Callback(l)
    BY <2>3, OthersIntroduce
  <2> QED
    BY <2>1, <2>2, <2>3 DEF Next, Stopped
<1>3. IntroducedInv => Introduced
  BY DEF IntroducedInv, Introduced, Busy, Setup
<1> QED
  BY <1>1, <1>2, <1>3, ClientLinkInvariant, PTL DEF Spec
=============================================================================
