--------------------------- MODULE DashboardProofs ---------------------------
(***************************************************************************)
(* The dashboard, for any number of pages, any settings, and however often *)
(* connections end, the relay, the master or the radio restarts and the    *)
(* NOR fails: the state is well typed, and a page that has read what it    *)
(* was sent agrees with the relay and the master.                          *)
(*                                                                         *)
(* A value that is shown, cached or stored somewhere reaches the next      *)
(* place through a queue.  The invariant says of each queue that what is   *)
(* shown behind it, once the queue is read, is the value before it         *)
(* (Shows): of the relay's cache behind the master's queue, of each page   *)
(* behind its own.  The settings have no cache in between, and are true    *)
(* only until the next request that is under way (Asked).                  *)
(***************************************************************************)
EXTENDS Dashboard, SequenceTheorems, TLAPS

(* What a message is about.                                                *)
Body(m) ==
  CASE m.t = "device"   -> m.on
    [] m.t = "status"   -> m.paired
    [] m.t = "presence" -> m.present
    [] m.t = "settings" -> m.form

(* Once the messages of q have been read, what is now shown of kind k is   *)
(* v: the last message of that kind says so, or there is none.             *)
Shows(q, k, shown, v) ==
  /\ \A i \in 1..Len(q) :
       (q[i].t = k /\ \A j \in i + 1..Len(q) : q[j].t # k) => Body(q[i]) = v
  /\ (\A i \in 1..Len(q) : q[i].t # k) => shown = v

-----------------------------------------------------------------------------
(* The messages.                                                           *)
Presences == {"yes", "no"}
Shared   == {Status(b) : b \in BOOLEAN} \cup {Presence(p) : p \in Presences}
              \cup {Settings(v) : v \in Values}
UiNews   == {Device(b) : b \in BOOLEAN} \cup Shared
DevNews  == {Hello} \cup Shared
Requests == {Get} \cup {Set(v) : v \in Values}
UiSays   == {Hello} \cup Requests
Messages == UiNews \cup DevNews \cup UiSays

LEMMA BodyOf ==
  /\ \A b : Device(b).t = "device" /\ Body(Device(b)) = b
  /\ \A b : Status(b).t = "status" /\ Body(Status(b)) = b
  /\ \A p : Presence(p).t = "presence" /\ Body(Presence(p)) = p
  /\ \A v : Settings(v).t = "settings" /\ Body(Settings(v)) = v
BY DEF Body, Device, Status, Presence, Settings

LEMMA SharedKinds ==
  ASSUME NEW m \in Shared
  PROVE  /\ m.t \in {"status", "presence", "settings"}
         /\ m # Hello
         /\ m.t = "status" => m.paired \in BOOLEAN /\ Body(m) = m.paired
         /\ m.t = "presence" => m.present \in Presences /\ Body(m) = m.present
         /\ m.t = "settings" => m.form \in Values /\ Body(m) = m.form
<1>0. Hello.t = "hello"
  BY DEF Hello
<1>1. CASE \E b \in BOOLEAN : m = Status(b)
  BY <1>0, <1>1 DEF Status, Body
<1>2. CASE \E p \in Presences : m = Presence(p)
  BY <1>0, <1>2 DEF Presence, Body
<1>3. CASE \E v \in Values : m = Settings(v)
  BY <1>0, <1>3 DEF Settings, Body
<1> QED BY <1>1, <1>2, <1>3 DEF Shared

LEMMA UiKinds ==
  ASSUME NEW m \in UiNews
  PROVE  /\ m.t \in {"device", "status", "presence", "settings"}
         /\ m.t = "device" => m.on \in BOOLEAN /\ Body(m) = m.on /\ m = Device(m.on)
         /\ m.t = "status" => m.paired \in BOOLEAN /\ Body(m) = m.paired
         /\ m.t = "presence" => m.present \in Presences /\ Body(m) = m.present
         /\ m.t = "settings" => m.form \in Values /\ Body(m) = m.form
         /\ m = Device(TRUE) => m.t = "device"
<1>1. CASE \E b \in BOOLEAN : m = Device(b)
  BY <1>1 DEF Device, Body
<1>2. CASE m \in Shared
  <2>1. Device(TRUE).t = "device"
    BY DEF Device
  <2> QED BY <1>2, <2>1, SharedKinds
<1> QED BY <1>1, <1>2 DEF UiNews

LEMMA RequestKinds ==
  ASSUME NEW m \in Requests
  PROVE  m # Hello /\ (m.t = "set" => m.form \in Values)
<1>0. Hello.t = "hello"
  BY DEF Hello
<1>1. CASE m = Get
  BY <1>0, <1>1 DEF Get
<1>2. CASE \E v \in Values : m = Set(v)
  BY <1>0, <1>2 DEF Set
<1> QED BY <1>1, <1>2 DEF Requests

-----------------------------------------------------------------------------
(* What reading and sending a message does to Shows.                       *)

LEMMA ShowsNothing ==
  ASSUME NEW k, NEW shown, NEW v
  PROVE  Shows(<<>>, k, shown, v) <=> shown = v
BY DEF Shows

LEMMA ShowsTail ==
  ASSUME NEW S, NEW q \in Seq(S), q # <<>>, NEW k, NEW shown, NEW v, Shows(q, k, shown, v)
  PROVE  Shows(Tail(q), k, IF Head(q).t = k THEN Body(Head(q)) ELSE shown, v)
<1> DEFINE t == Tail(q)
<1>1. /\ Len(q) \in Nat /\ Len(q) >= 1 /\ Len(t) = Len(q) - 1
      /\ \A i \in 1..Len(t) : t[i] = q[i + 1]
      /\ Head(q) = q[1]
  OBVIOUS
<1> HIDE DEF t
<1>2. ASSUME NEW i \in 1..Len(t), t[i].t = k, \A j \in i + 1..Len(t) : t[j].t # k
      PROVE  Body(t[i]) = v
  <2>1. i + 1 \in 1..Len(q) /\ q[i + 1] = t[i]
    BY <1>1
  <2>2. ASSUME NEW j \in i + 1 + 1..Len(q) PROVE q[j].t # k
    <3>1. j - 1 \in i + 1..Len(t) /\ j - 1 \in 1..Len(t) /\ j - 1 + 1 = j
      BY <1>1
    <3> QED BY <1>1, <1>2, <3>1
  <2> QED BY <1>2, <2>1, <2>2 DEF Shows
<1>3. ASSUME \A i \in 1..Len(t) : t[i].t # k
      PROVE  (IF Head(q).t = k THEN Body(Head(q)) ELSE shown) = v
  <2>1. ASSUME NEW j \in 1 + 1..Len(q) PROVE q[j].t # k
    <3>1. j - 1 \in 1..Len(t) /\ j - 1 + 1 = j
      BY <1>1
    <3> QED BY <1>1, <1>3, <3>1
  <2>2. CASE q[1].t = k
    BY <1>1, <2>1, <2>2 DEF Shows
  <2>3. CASE q[1].t # k
    <3>1. ASSUME NEW j \in 1..Len(q) PROVE q[j].t # k
      BY <1>1, <2>1, <2>3
    <3> QED BY <1>1, <2>3, <3>1 DEF Shows
  <2> QED BY <2>2, <2>3
<1>4. Shows(t, k, IF Head(q).t = k THEN Body(Head(q)) ELSE shown, v)
  BY <1>2, <1>3 DEF Shows
<1> QED BY <1>4 DEF t

LEMMA ShowsNew ==
  ASSUME NEW S, NEW q \in Seq(S), NEW m \in S, NEW shown
  PROVE  Shows(Append(q, m), m.t, shown, Body(m))
<1> DEFINE a == Append(q, m)
<1>1. Len(a) = Len(q) + 1 /\ a[Len(a)] = m /\ Len(q) \in Nat /\ Len(a) \in 1..Len(a)
  OBVIOUS
<1> HIDE DEF a
<1>2. ASSUME NEW i \in 1..Len(a), \A j \in i + 1..Len(a) : a[j].t # m.t
      PROVE  Body(a[i]) = Body(m)
  <2>1. CASE i = Len(a)
    BY <1>1, <2>1
  <2>2. CASE i < Len(a)
    BY <1>1, <1>2, <2>2
  <2> QED BY <1>1, <2>1, <2>2
<1>3. Shows(a, m.t, shown, Body(m))
  BY <1>1, <1>2 DEF Shows
<1> QED BY <1>3 DEF a

LEMMA ShowsOther ==
  ASSUME NEW S, NEW q \in Seq(S), NEW m \in S, NEW k, NEW shown, NEW v,
         m.t # k, Shows(q, k, shown, v)
  PROVE  Shows(Append(q, m), k, shown, v)
<1> DEFINE a == Append(q, m)
<1>1. /\ Len(a) = Len(q) + 1 /\ a[Len(a)] = m /\ Len(q) \in Nat
      /\ \A i \in 1..Len(q) : a[i] = q[i]
  OBVIOUS
<1> HIDE DEF a
<1>2. ASSUME NEW i \in 1..Len(a), a[i].t = k, \A j \in i + 1..Len(a) : a[j].t # k
      PROVE  Body(a[i]) = v
  <2>1. i \in 1..Len(q)
    BY <1>1, <1>2
  <2>2. \A j \in i + 1..Len(q) : q[j].t # k
    BY <1>1, <1>2, <2>1
  <2> QED BY <1>1, <1>2, <2>1, <2>2 DEF Shows
<1>3. ASSUME \A i \in 1..Len(a) : a[i].t # k PROVE shown = v
  BY <1>1, <1>3 DEF Shows
<1>4. Shows(a, k, shown, v)
  BY <1>2, <1>3 DEF Shows
<1> QED BY <1>4 DEF a

-----------------------------------------------------------------------------
(* The invariant.                                                          *)

(* Each end says and hears only what belongs to its role.                  *)
Queues(q, ofDev, ofUi) ==
  /\ q \in [Conns -> Seq(Messages)]
  /\ \A c \in Conns : IF c[1] = Dev THEN q[c] \in Seq(ofDev) ELSE q[c] \in Seq(ofUi)
UpTyped(q) == Queues(q, DevNews, UiSays)
DownTyped(q) == Queues(q, Requests, UiNews)
MessagesOK == UpTyped(up) /\ DownTyped(down)

(* Nothing of the master's is on its way on a connection it has left.      *)
OldQuiet == Connected(Dev) => \A n \in {1, 2} : n # cur[Dev] => up[<<Dev, n>>] = <<>>

DevOpen == Connected(Dev) /\ link[Conn(Dev)] = "open"
DevHere == DevOpen /\ Conn(Dev) \in devices

(* The relay's cache is what the master is, once its queue is read.        *)
CacheTrue ==
  DevOpen => /\ Shows(up[Conn(Dev)], "status", lastStatus, paired)
             /\ present # Unknown => Shows(up[Conn(Dev)], "presence", lastPresence, present)

(* What a page that shows on, p, pr will show, once it has read q: d, s    *)
(* and, if it is known, x.                                                 *)
View(q, on, p, pr, d, s, x) ==
  /\ Shows(q, "device", on, d)
  /\ Shows(q, "status", p, s)
  /\ x # Unknown => Shows(q, "presence", pr, x)

RelayShown(u) ==
  Registered(u) => View(down[Conn(u)], online[u], shownPaired[u], shownPresence[u],
                        devices # {}, lastStatus, lastPresence)

(* The settings will be sent again: a request is under way, or the page is *)
(* about to be told of the master, and will ask.                           *)
Asked(u) ==
  \/ up[Conn(u)] # <<>> \/ down[Conn(Dev)] # <<>>
  \/ \E i \in 1..Len(down[Conn(u)]) : down[Conn(u)][i] = Device(TRUE)

(* Or they come as they are, if they do not arrive already.                *)
Forms == Values \cup {NoForm}
Coming(u) ==
  \E x \in Forms : /\ Shows(down[Conn(u)], "settings", form[u], x)
                   /\ Shows(up[Conn(Dev)], "settings", x, reads(settings))

(* Or the master has just sent them.                                       *)
Answered == \A x \in Forms : Shows(up[Conn(Dev)], "settings", x, reads(settings))

SettingsTrue(u) == Registered(u) /\ DevHere /\ ~unread => Asked(u) \/ Answered \/ Coming(u)

Agree == OldQuiet /\ CacheTrue /\ \A u \in Uis : RelayShown(u) /\ SettingsTrue(u)

IInv == TypeOK /\ MessagesOK /\ Agree

-----------------------------------------------------------------------------
(* Views.                                                                  *)
LEMMA AppendHas ==
  ASSUME NEW S, NEW q \in Seq(S), NEW m \in S
  PROVE  /\ \E i \in 1..Len(Append(q, m)) : Append(q, m)[i] = m
         /\ \A i \in 1..Len(q) : i \in 1..Len(Append(q, m)) /\ Append(q, m)[i] = q[i]
<1>1. /\ Len(q) + 1 \in 1..Len(Append(q, m)) /\ Append(q, m)[Len(q) + 1] = m
      /\ \A i \in 1..Len(q) : i \in 1..Len(Append(q, m)) /\ Append(q, m)[i] = q[i]
  OBVIOUS
<1> QED BY <1>1

LEMMA ViewAppend ==
  ASSUME NEW q \in Seq(UiNews), NEW m \in UiNews, NEW on, NEW p, NEW pr, NEW d, NEW s, NEW x,
         View(q, on, p, pr, d, s, x)
  PROVE  View(Append(q, m), on, p, pr, IF m.t = "device" THEN m.on ELSE d,
              IF m.t = "status" THEN m.paired ELSE s, IF m.t = "presence" THEN m.present ELSE x)
<1>1. \A sh : Shows(Append(q, m), m.t, sh, Body(m))
  BY ShowsNew
<1>2. \A k, sh, v : m.t # k /\ Shows(q, k, sh, v) => Shows(Append(q, m), k, sh, v)
  BY ShowsOther
<1>3. CASE m.t = "device"
  BY <1>1, <1>2, <1>3, UiKinds DEF View
<1>4. CASE m.t = "status"
  BY <1>1, <1>2, <1>4, UiKinds DEF View
<1>5. CASE m.t = "presence"
  BY <1>1, <1>2, <1>5, UiKinds DEF View
<1>6. CASE m.t = "settings"
  BY <1>2, <1>6 DEF View
<1> QED BY <1>3, <1>4, <1>5, <1>6, UiKinds

LEMMA ViewTail ==
  ASSUME NEW q \in Seq(UiNews), q # <<>>, NEW on, NEW p, NEW pr, NEW d, NEW s, NEW x,
         View(q, on, p, pr, d, s, x)
  PROVE  LET m == Head(q)
         IN  View(Tail(q), IF m.t = "device" THEN m.on ELSE on,
                  IF m.t = "status" THEN m.paired ELSE p,
                  IF m.t = "presence" THEN m.present ELSE pr, d, s, x)
<1> DEFINE m == Head(q)
<1>1. m \in UiNews
  OBVIOUS
<1>2. \A k, sh, v : Shows(q, k, sh, v) => Shows(Tail(q), k, IF m.t = k THEN Body(m) ELSE sh, v)
  BY ShowsTail
<1> HIDE DEF m
<1>3. (m.t = "device" => Body(m) = m.on) /\ (m.t = "status" => Body(m) = m.paired)
        /\ (m.t = "presence" => Body(m) = m.present)
  BY <1>1, UiKinds
<1>4. Shows(Tail(q), "device", IF m.t = "device" THEN m.on ELSE on, d)
  BY <1>2, <1>3 DEF View
<1>5. Shows(Tail(q), "status", IF m.t = "status" THEN m.paired ELSE p, s)
  BY <1>2, <1>3 DEF View
<1>6. x # Unknown => Shows(Tail(q), "presence", IF m.t = "presence" THEN m.present ELSE pr, x)
  BY <1>2, <1>3 DEF View
<1>7. View(Tail(q), IF m.t = "device" THEN m.on ELSE on,
           IF m.t = "status" THEN m.paired ELSE p,
           IF m.t = "presence" THEN m.present ELSE pr, d, s, x)
  BY <1>4, <1>5, <1>6 DEF View
<1> QED BY <1>7 DEF m

LEMMA WelcomeView ==
  ASSUME TypeOK, NEW q \in Seq(UiNews), NEW on, NEW p, NEW pr
  PROVE  /\ welcome \in Seq(UiNews) /\ q \o welcome \in Seq(UiNews)
         /\ View(q \o welcome, on, p, pr, devices # {}, lastStatus, lastPresence)
         /\ devices # {} => \E i \in 1..Len(q \o welcome) : (q \o welcome)[i] = Device(TRUE)
<1> DEFINE d == Device(devices # {})
           s == Status(lastStatus)
           x == Presence(lastPresence)
           q1 == Append(q, d)
           q2 == Append(q1, s)
           q3 == Append(q2, x)
<1>1. d \in UiNews /\ s \in UiNews /\ (lastPresence # Unknown => x \in UiNews)
  BY DEF UiNews, Shared, TypeOK, Presences
<1>2. /\ d.t = "device" /\ Body(d) = (devices # {}) /\ s.t = "status" /\ Body(s) = lastStatus
      /\ x.t = "presence" /\ Body(x) = lastPresence
  BY BodyOf
<1>3. devices # {} => d = Device(TRUE)
  OBVIOUS
<1>4. q \o welcome = IF lastPresence = Unknown THEN q2 ELSE q3
  BY <1>1 DEF welcome, Known
<1>5. welcome \in Seq(UiNews)
  BY <1>1 DEF welcome, Known
<1> HIDE DEF d, s, x
<1>6. Shows(q1, "device", on, devices # {}) /\ q1 \in Seq(UiNews)
  BY <1>1, <1>2, ShowsNew
<1>7. q2 \in Seq(UiNews) /\ Shows(q2, "status", p, lastStatus) /\ Shows(q2, "device", on, devices # {})
  <2> HIDE DEF q1
  <2> QED BY <1>1, <1>2, <1>6, ShowsNew, ShowsOther
<1>8. lastPresence # Unknown =>
        /\ q3 \in Seq(UiNews) /\ Shows(q3, "presence", pr, lastPresence)
        /\ Shows(q3, "status", p, lastStatus) /\ Shows(q3, "device", on, devices # {})
  <2> HIDE DEF q2
  <2> QED BY <1>1, <1>2, <1>7, ShowsNew, ShowsOther
<1>9. /\ Len(q) + 1 \in 1..Len(q2) /\ q2[Len(q) + 1] = d
      /\ lastPresence # Unknown => Len(q) + 1 \in 1..Len(q3) /\ q3[Len(q) + 1] = d
  BY <1>1
<1>10. CASE lastPresence = Unknown
  BY <1>3, <1>4, <1>5, <1>7, <1>9, <1>10 DEF View
<1>11. CASE lastPresence # Unknown
  BY <1>3, <1>4, <1>5, <1>8, <1>9, <1>11 DEF View
<1> QED BY <1>10, <1>11
-----------------------------------------------------------------------------
(* Connections.                                                            *)
LEMMA ConnFacts ==
  ASSUME TypeOK
  PROVE  /\ Dev \in Clients /\ Dev \notin Uis /\ \A u \in Uis : u \in Clients /\ u # Dev
         /\ \A w \in Clients : Connected(w) => Conn(w) \in Conns
         /\ \A w : Conn(w)[1] = w
         /\ \A v, w : Conn(v) = Conn(w) => v = w
         /\ \A u \in Uis : Conn(u) \notin devices
         /\ Conn(Dev) \notin uis
         /\ devices \subseteq Conns /\ uis \subseteq Conns
<1>1. Dev \in Clients /\ Dev \notin Uis /\ \A u \in Uis : u \in Clients /\ u # Dev
  BY DashboardAssumption DEF Clients
<1>2. \A w \in Clients : Connected(w) => Conn(w) \in Conns
  BY DEF TypeOK, Connected, Conn, Conns
<1>3. \A w : Conn(w)[1] = w
  BY DEF Conn
<1>4. \A v, w : Conn(v) = Conn(w) => v = w
  BY <1>3
<1>5. (\A u \in Uis : Conn(u) \notin devices) /\ Conn(Dev) \notin uis
  BY <1>1, <1>3 DEF TypeOK
<1>6. devices \subseteq Conns /\ uis \subseteq Conns
  BY DEF TypeOK
<1> QED BY <1>1, <1>2, <1>3, <1>4, <1>5, <1>6

LEMMA MessageFacts ==
  ASSUME TypeOK, MessagesOK
  PROVE  /\ \A u \in Uis : Connected(u) =>
                up[Conn(u)] \in Seq(UiSays) /\ down[Conn(u)] \in Seq(UiNews)
         /\ Connected(Dev) => up[Conn(Dev)] \in Seq(DevNews) /\ down[Conn(Dev)] \in Seq(Requests)
<1>1. ASSUME NEW u \in Uis, Connected(u)
      PROVE  up[Conn(u)] \in Seq(UiSays) /\ down[Conn(u)] \in Seq(UiNews)
  <2>1. Conn(u) \in Conns /\ Conn(u)[1] # Dev
    BY <1>1, ConnFacts
  <2> QED BY <2>1 DEF MessagesOK, UpTyped, DownTyped, Queues
<1>2. ASSUME Connected(Dev)
      PROVE  up[Conn(Dev)] \in Seq(DevNews) /\ down[Conn(Dev)] \in Seq(Requests)
  <2>1. Conn(Dev) \in Conns /\ Conn(Dev)[1] = Dev
    BY <1>2, ConnFacts
  <2> QED BY <2>1 DEF MessagesOK, UpTyped, DownTyped, Queues
<1> QED BY <1>1, <1>2

(* Only the connection the master now has carries something of it.         *)
LEMMA DevSpeaks ==
  ASSUME TypeOK, OldQuiet, NEW c \in Conns, c[1] = Dev, up[c] # <<>>, Connected(Dev)
  PROVE  c = Conn(Dev)
<1>1. PICK n \in {1, 2} : c = <<Dev, n>>
  BY DEF Conns
<1> QED BY <1>1 DEF OldQuiet, Conn

(* What broadcast leaves on the queues.                                    *)
UiConns == {c \in Conns : c[1] # Dev}
DevConns == {c \in Conns : c[1] = Dev}

LEMMA NewsPosted ==
  ASSUME NEW d, DownTyped(d), NEW S \in SUBSET UiConns, NEW m \in UiNews
  PROVE  /\ DownTyped(posted(d, S, <<m>>))
         /\ \A c \in Conns : posted(d, S, <<m>>)[c]
                = IF c \in S /\ link[c] = "open" THEN Append(d[c], m) ELSE d[c]
<1>1. ASSUME NEW c \in Conns, c \in S
      PROVE  d[c] \o <<m>> = Append(d[c], m) /\ Append(d[c], m) \in Seq(UiNews)
  BY <1>1 DEF DownTyped, Queues, UiConns
<1>2. UiNews \subseteq Messages
  BY DEF Messages
<1>3. \A c \in Conns : posted(d, S, <<m>>)[c]
                = IF c \in S /\ link[c] = "open" THEN Append(d[c], m) ELSE d[c]
  BY <1>1 DEF posted
<1>4. \A c \in Conns : /\ posted(d, S, <<m>>)[c] \in Seq(Messages)
                       /\ IF c[1] = Dev THEN posted(d, S, <<m>>)[c] \in Seq(Requests)
                                        ELSE posted(d, S, <<m>>)[c] \in Seq(UiNews)
  <2> SUFFICES ASSUME NEW c \in Conns
               PROVE  /\ posted(d, S, <<m>>)[c] \in Seq(Messages)
                      /\ IF c[1] = Dev THEN posted(d, S, <<m>>)[c] \in Seq(Requests)
                                       ELSE posted(d, S, <<m>>)[c] \in Seq(UiNews)
    OBVIOUS
  <2>1. CASE posted(d, S, <<m>>)[c] = d[c]
    BY <2>1 DEF DownTyped, Queues
  <2>2. CASE c \in S /\ posted(d, S, <<m>>)[c] = Append(d[c], m)
    <3>1. d[c] \in Seq(Messages) /\ m \in Messages
      BY <1>2 DEF DownTyped, Queues
    <3>2. Append(d[c], m) \in Seq(Messages)
      BY <3>1
    <3>3. c[1] # Dev
      BY <2>2 DEF UiConns
    <3> QED BY <1>1, <2>2, <3>2, <3>3
  <2> QED BY <1>3, <2>1, <2>2
<1>5. posted(d, S, <<m>>) = [c \in Conns |-> posted(d, S, <<m>>)[c]]
  BY DEF posted
<1>6. posted(d, S, <<m>>) \in [Conns -> Seq(Messages)]
  BY <1>4, <1>5
<1> QED BY <1>3, <1>4, <1>6 DEF DownTyped, Queues

LEMMA RequestPosted ==
  ASSUME NEW d, DownTyped(d), NEW S \in SUBSET DevConns, NEW m \in Requests
  PROVE  /\ DownTyped(posted(d, S, <<m>>))
         /\ \A c \in Conns : posted(d, S, <<m>>)[c]
                = IF c \in S /\ link[c] = "open" THEN Append(d[c], m) ELSE d[c]
<1>1. ASSUME NEW c \in Conns, c \in S
      PROVE  d[c] \o <<m>> = Append(d[c], m) /\ Append(d[c], m) \in Seq(Requests)
  BY <1>1 DEF DownTyped, Queues, DevConns
<1>2. Requests \subseteq Messages
  BY DEF Messages, UiSays
<1>3. \A c \in Conns : posted(d, S, <<m>>)[c]
                = IF c \in S /\ link[c] = "open" THEN Append(d[c], m) ELSE d[c]
  BY <1>1 DEF posted
<1>4. \A c \in Conns : /\ posted(d, S, <<m>>)[c] \in Seq(Messages)
                       /\ IF c[1] = Dev THEN posted(d, S, <<m>>)[c] \in Seq(Requests)
                                        ELSE posted(d, S, <<m>>)[c] \in Seq(UiNews)
  <2> SUFFICES ASSUME NEW c \in Conns
               PROVE  /\ posted(d, S, <<m>>)[c] \in Seq(Messages)
                      /\ IF c[1] = Dev THEN posted(d, S, <<m>>)[c] \in Seq(Requests)
                                       ELSE posted(d, S, <<m>>)[c] \in Seq(UiNews)
    OBVIOUS
  <2>1. CASE posted(d, S, <<m>>)[c] = d[c]
    BY <2>1 DEF DownTyped, Queues
  <2>2. CASE c \in S /\ posted(d, S, <<m>>)[c] = Append(d[c], m)
    <3>1. d[c] \in Seq(Messages) /\ m \in Messages
      BY <1>2 DEF DownTyped, Queues
    <3>2. Append(d[c], m) \in Seq(Messages)
      BY <3>1
    <3>3. c[1] = Dev
      BY <2>2 DEF DevConns
    <3> QED BY <1>1, <2>2, <3>2, <3>3
  <2> QED BY <1>3, <2>1, <2>2
<1>5. posted(d, S, <<m>>) = [c \in Conns |-> posted(d, S, <<m>>)[c]]
  BY DEF posted
<1>6. posted(d, S, <<m>>) \in [Conns -> Seq(Messages)]
  BY <1>4, <1>5
<1> QED BY <1>3, <1>4, <1>6 DEF DownTyped, Queues

-----------------------------------------------------------------------------
(* The relay hears something.                                              *)
relaySame == UNCHANGED <<link, cur, devVars, pageVars>>
Takes(c) ==
  /\ link[c] \in {"open", "half"} /\ up[c] # <<>>
  /\ up' = [up EXCEPT ![c] = Tail(@)]
  /\ relaySame

LEMMA Taken ==
  ASSUME IInv, NEW c \in Conns, Takes(c)
  PROVE  /\ UpTyped(up') /\ up'[c] = Tail(up[c])
         /\ \A e \in Conns : e # c => up'[e] = up[e]
         /\ \A w : Conn(w)' = Conn(w) /\ Connected(w)' = Connected(w)
         /\ DevOpen' = DevOpen /\ OldQuiet'
<1>1. up' \in [Conns -> Seq(Messages)] /\ up'[c] = Tail(up[c]) /\ \A e \in Conns : e # c => up'[e] = up[e]
  BY DEF Takes, IInv, MessagesOK, UpTyped, Queues
<1>2. \A e \in Conns : IF e[1] = Dev THEN up'[e] \in Seq(DevNews) ELSE up'[e] \in Seq(UiSays)
  <2>1. ASSUME NEW S, up[c] \in Seq(S) PROVE Tail(up[c]) \in Seq(S)
    BY <2>1 DEF Takes
  <2>2. IF c[1] = Dev THEN up[c] \in Seq(DevNews) ELSE up[c] \in Seq(UiSays)
    BY DEF IInv, MessagesOK, UpTyped, Queues
  <2>3. ASSUME NEW e \in Conns, e # c
        PROVE  IF e[1] = Dev THEN up'[e] \in Seq(DevNews) ELSE up'[e] \in Seq(UiSays)
    BY <1>1, <2>3 DEF IInv, MessagesOK, UpTyped, Queues
  <2> QED BY <1>1, <2>1, <2>2, <2>3
<1>3. \A w : Conn(w)' = Conn(w) /\ Connected(w)' = Connected(w)
  BY DEF Takes, relaySame, Conn, Connected
<1>4. DevOpen' = DevOpen
  BY <1>3 DEF DevOpen, Takes, relaySame
<1>5. OldQuiet'
  <2> SUFFICES ASSUME Connected(Dev), NEW n \in {1, 2}, n # cur[Dev] PROVE up'[<<Dev, n>>] = <<>>
    BY <1>3 DEF OldQuiet, Takes, relaySame
  <2>1. up[<<Dev, n>>] = <<>> /\ <<Dev, n>> \in Conns
    BY ConnFacts DEF IInv, Agree, OldQuiet, Conns
  <2>2. <<Dev, n>> # c
    BY <2>1 DEF Takes
  <2> QED BY <1>1, <2>1, <2>2
<1> QED BY <1>1, <1>2, <1>3, <1>4, <1>5 DEF UpTyped, Queues

(* The master says hello: the pages are told, and will ask.                *)
LEMMA MasterHello ==
  ASSUME IInv, NEW c \in Conns, Takes(c), Head(up[c]) = Hello, OnHello(c), c[1] = Dev
  PROVE  IInv'
<1> USE DEF IInv
<1>1. /\ devices' = devices \cup {c} /\ uis' = uis /\ lastStatus' = lastStatus
      /\ lastPresence' = lastPresence /\ down' = posted(down, uis, <<Device(TRUE)>>)
  BY DEF OnHello
<1>2. Device(TRUE) \in UiNews /\ Device(TRUE).t = "device" /\ Device(TRUE).on = TRUE
  BY DEF Device, UiNews
<1>3. uis \in SUBSET UiConns
  BY DEF TypeOK, UiConns
<1>4. /\ DownTyped(down')
      /\ \A e \in Conns : down'[e] = IF e \in uis /\ link[e] = "open"
                                     THEN Append(down[e], Device(TRUE)) ELSE down[e]
  BY <1>1, <1>2, <1>3, NewsPosted DEF MessagesOK
<1>6. TypeOK'
  <2>1. \A w \in Clients : Connected(w)' => link'[Conn(w)'] \in {"open", "orphan"}
    BY Taken DEF Takes, relaySame, TypeOK
  <2>2. devices' \subseteq {e \in Conns : e[1] = Dev /\ link'[e] \in {"open", "half"}}
    BY <1>1 DEF Takes, relaySame, TypeOK
  <2> QED BY <1>1, <2>1, <2>2 DEF Takes, relaySame, devVars, pageVars, TypeOK
<1>7. MessagesOK'
  BY <1>4, Taken DEF MessagesOK
<1>8. CacheTrue'
  <2> SUFFICES ASSUME DevOpen
               PROVE  /\ Shows(up'[Conn(Dev)], "status", lastStatus, paired)
                      /\ present # Unknown => Shows(up'[Conn(Dev)], "presence", lastPresence, present)
    BY <1>1, Taken DEF CacheTrue, Takes, relaySame, devVars
  <2>1. c = Conn(Dev)
    BY DevSpeaks DEF Takes, DevOpen, Agree
  <2>2. Hello.t # "status" /\ Hello.t # "presence"
    BY DEF Hello
  <2>3. up[c] \in Seq(DevNews) /\ up[c] # <<>>
    BY DEF MessagesOK, UpTyped, Queues, Takes
  <2>4. \A k, sh, v : Shows(up[c], k, sh, v) /\ Hello.t # k => Shows(Tail(up[c]), k, sh, v)
    BY <2>3, ShowsTail
  <2> QED BY <2>1, <2>2, <2>4, Taken DEF Agree, CacheTrue
<1>9. ASSUME NEW u \in Uis PROVE RelayShown(u)' /\ SettingsTrue(u)'
  <2> SUFFICES ASSUME Registered(u) PROVE RelayShown(u)' /\ SettingsTrue(u)'
    BY <1>1, Taken DEF RelayShown, SettingsTrue, Registered, Takes, relaySame
  <2>1. Conn(u) \in Conns /\ down[Conn(u)] \in Seq(UiNews)
    BY ConnFacts, MessageFacts DEF Registered
  <2>2. down'[Conn(u)] = Append(down[Conn(u)], Device(TRUE))
    BY <1>4, <2>1 DEF Registered
  <2>3. View(Append(down[Conn(u)], Device(TRUE)), online[u], shownPaired[u], shownPresence[u],
             TRUE, lastStatus, lastPresence)
    BY <1>2, <2>1, ViewAppend DEF Agree, RelayShown
  <2>4. (devices # {})' = TRUE
    BY <1>1
  <2>5. RelayShown(u)'
    BY <1>1, <2>2, <2>3, <2>4, Taken DEF RelayShown, Takes, relaySame, pageVars
  <2>6. \E i \in 1..Len(down'[Conn(u)]) : down'[Conn(u)][i] = Device(TRUE)
    <3> DEFINE q == down[Conn(u)]
               m == Device(TRUE)
    <3>1. q \in Seq(UiNews) /\ m \in UiNews
      BY <1>2, <2>1
    <3> HIDE DEF q, m
    <3>2. \E i \in 1..Len(Append(q, m)) : Append(q, m)[i] = m
      BY <3>1, AppendHas
    <3> QED BY <2>2, <3>2 DEF q, m
  <2>7. SettingsTrue(u)'
    <3>1. Conn(u)' = Conn(u)
      BY Taken
    <3> QED BY <2>6, <3>1 DEF SettingsTrue, Asked
  <2> QED BY <2>5, <2>7
<1> QED BY <1>6, <1>7, <1>8, <1>9, Taken DEF Agree
(* A page says hello: it is told what the relay knows, and will ask.       *)
LEMMA PageHello ==
  ASSUME IInv, NEW c \in Conns, Takes(c), Head(up[c]) = Hello, OnHello(c), c[1] # Dev
  PROVE  IInv'
<1> USE DEF IInv
<1>1. /\ uis' = uis \cup {c} /\ devices' = devices /\ lastStatus' = lastStatus
      /\ lastPresence' = lastPresence /\ down' = posted(down, {c}, welcome)
  BY DEF OnHello
<1>2. down[c] \in Seq(UiNews) /\ welcome \in Seq(UiNews) /\ down[c] \o welcome \in Seq(UiNews)
  BY WelcomeView DEF MessagesOK, DownTyped, Queues
<1>3. /\ \A e \in Conns : e # c => down'[e] = down[e]
      /\ down'[c] = IF link[c] = "open" THEN down[c] \o welcome ELSE down[c]
  BY <1>1 DEF posted
<1>4. DownTyped(down')
  <2>1. UiNews \subseteq Messages
    BY DEF Messages
  <2>2. \A e \in Conns : /\ down'[e] \in Seq(Messages)
                         /\ IF e[1] = Dev THEN down'[e] \in Seq(Requests) ELSE down'[e] \in Seq(UiNews)
    <3> SUFFICES ASSUME NEW e \in Conns
                 PROVE  /\ down'[e] \in Seq(Messages)
                        /\ IF e[1] = Dev THEN down'[e] \in Seq(Requests) ELSE down'[e] \in Seq(UiNews)
      OBVIOUS
    <3>1. CASE down'[e] = down[e]
      BY <3>1 DEF MessagesOK, DownTyped, Queues
    <3>2. CASE e = c /\ down'[c] = down[c] \o welcome
      <4>1. down'[c] \in Seq(UiNews)
        BY <1>2, <3>2
      <4>2. down'[c] \in Seq(Messages)
        BY <2>1, <4>1
      <4> QED BY <3>2, <4>1, <4>2
    <3> QED BY <1>3, <3>1, <3>2
  <2>3. down' = [e \in Conns |-> down'[e]]
    BY <1>1 DEF posted
  <2>4. down' \in [Conns -> Seq(Messages)]
    BY <2>2, <2>3
  <2> QED BY <2>2, <2>4 DEF DownTyped, Queues
<1>5. TypeOK'
  <2>1. \A w \in Clients : Connected(w)' => link'[Conn(w)'] \in {"open", "orphan"}
    BY Taken DEF Takes, relaySame, TypeOK
  <2>2. uis' \subseteq {e \in Conns : e[1] # Dev /\ link'[e] \in {"open", "half"}}
    BY <1>1 DEF Takes, relaySame, TypeOK
  <2> QED BY <1>1, <2>1, <2>2 DEF Takes, relaySame, devVars, pageVars, TypeOK
<1>6. MessagesOK'
  BY <1>4, Taken DEF MessagesOK
<1>7. DevOpen => Conn(Dev) \in Conns /\ Conn(Dev) # c /\ Conn(Dev)' = Conn(Dev)
  BY ConnFacts, Taken DEF DevOpen
<1>8. CacheTrue'
  BY <1>1, <1>7, Taken DEF Agree, CacheTrue, Takes, relaySame, devVars
<1>9. ASSUME NEW u \in Uis, Conn(u) # c PROVE RelayShown(u)' /\ SettingsTrue(u)'
  <2>1. Registered(u)' = Registered(u) /\ Conn(u)' = Conn(u)
    BY <1>1, <1>9, Taken DEF Registered, Takes, relaySame
  <2>2. Registered(u) => Conn(u) \in Conns
    BY ConnFacts DEF Registered
  <2>3. RelayShown(u)'
    BY <1>1, <1>3, <1>9, <2>1, <2>2 DEF Agree, RelayShown, Takes, relaySame, pageVars
  <2>4. SettingsTrue(u)'
    <3> SUFFICES ASSUME Registered(u), DevHere, ~unread PROVE Asked(u)' \/ Answered' \/ Coming(u)'
      BY <1>1, <1>7, <2>1, Taken DEF SettingsTrue, DevHere, Takes, relaySame, devVars
    <3>1. /\ up'[Conn(u)] = up[Conn(u)] /\ down'[Conn(u)] = down[Conn(u)]
          /\ up'[Conn(Dev)] = up[Conn(Dev)] /\ down'[Conn(Dev)] = down[Conn(Dev)]
      BY <1>3, <1>7, <1>9, <2>2, Taken DEF DevHere
    <3>2. Asked(u) => Asked(u)'
      BY <1>7, <2>1, <3>1 DEF Asked, DevHere
    <3>3. Coming(u) => Coming(u)'
      BY <1>7, <2>1, <3>1 DEF Coming, DevHere, Takes, relaySame, devVars, pageVars
    <3>4. Answered => Answered'
      BY <1>7, <3>1 DEF Answered, Forms, DevHere, Takes, relaySame, devVars
    <3> QED BY <3>2, <3>3, <3>4 DEF Agree, SettingsTrue
  <2> QED BY <2>3, <2>4
<1>10. ASSUME NEW u \in Uis, Conn(u) = c PROVE RelayShown(u)' /\ SettingsTrue(u)'
  <2>1. Conn(u)' = c /\ (Registered(u)' => link[c] = "open")
    BY <1>10, Taken DEF Registered, Takes, relaySame
  <2>2. RelayShown(u)'
    <3>1. View(down[c] \o welcome, online[u], shownPaired[u], shownPresence[u],
               devices # {}, lastStatus, lastPresence)
      BY <1>2, WelcomeView
    <3> QED BY <1>1, <1>3, <2>1, <3>1 DEF RelayShown, Takes, relaySame, pageVars
  <2>3. SettingsTrue(u)'
    <3> SUFFICES ASSUME link[c] = "open", DevHere PROVE Asked(u)'
      BY <1>1, <1>7, <2>1, Taken DEF SettingsTrue, DevHere, Takes, relaySame
    <3>1. devices # {}
      BY DEF DevHere
    <3>2. \E i \in 1..Len(down[c] \o welcome) : (down[c] \o welcome)[i] = Device(TRUE)
      BY <1>2, <3>1, WelcomeView
    <3>3. down'[c] = down[c] \o welcome
      BY <1>3
    <3> QED BY <2>1, <3>2, <3>3 DEF Asked
  <2> QED BY <2>2, <2>3
<1> QED BY <1>5, <1>6, <1>8, <1>9, <1>10, Taken DEF Agree

(* The master's news: the cache takes it, the pages are sent it.           *)
LEMMA MasterNews ==
  ASSUME IInv, NEW c \in Conns, Takes(c), Head(up[c]) # Hello, c \in devices, OnDevice(Head(up[c]))
  PROVE  IInv'
<1> DEFINE m == Head(up[c])
<1> USE DEF IInv
<1>1. /\ uis' = uis /\ devices' = devices /\ down' = posted(down, uis, <<m>>)
      /\ lastStatus' = IF m.t = "status" THEN m.paired ELSE lastStatus
      /\ lastPresence' = IF m.t = "presence" THEN m.present ELSE lastPresence
  BY DEF OnDevice
<1>2. c[1] = Dev /\ up[c] \in Seq(DevNews) /\ up[c] # <<>>
  BY DEF TypeOK, MessagesOK, UpTyped, Queues, Takes
<1>3. m \in Shared /\ m \in UiNews
  <2>1. m \in DevNews /\ m # Hello
    BY <1>2
  <2> QED BY <2>1 DEF DevNews, UiNews
<1>4. uis \in SUBSET UiConns
  BY DEF TypeOK, UiConns
<1> HIDE DEF m
<1>5. /\ DownTyped(down')
      /\ \A e \in Conns : down'[e] = IF e \in uis /\ link[e] = "open"
                                     THEN Append(down[e], m) ELSE down[e]
  BY <1>1, <1>3, <1>4, NewsPosted DEF MessagesOK
<1>6. TypeOK'
  <2>1. \A w \in Clients : Connected(w)' => link'[Conn(w)'] \in {"open", "orphan"}
    BY Taken DEF Takes, relaySame, TypeOK
  <2>2. lastStatus' \in BOOLEAN /\ lastPresence' \in {Unknown, "yes", "no"}
    BY <1>1, <1>3, SharedKinds DEF TypeOK, Presences
  <2> QED BY <1>1, <2>1, <2>2 DEF Takes, relaySame, devVars, pageVars, TypeOK
<1>7. MessagesOK'
  BY <1>5, Taken DEF MessagesOK
<1>8. DevOpen => c = Conn(Dev) /\ Conn(Dev)' = c
  BY <1>2, DevSpeaks, Taken DEF DevOpen, Agree
<1>9. \A k, sh, v : Shows(up[c], k, sh, v) => Shows(Tail(up[c]), k, IF m.t = k THEN Body(m) ELSE sh, v)
  BY <1>2, ShowsTail DEF m
<1>10. CacheTrue'
  <2> SUFFICES ASSUME DevOpen
               PROVE  /\ Shows(up'[c], "status", lastStatus', paired)
                      /\ present # Unknown => Shows(up'[c], "presence", lastPresence', present)
    BY <1>8, Taken DEF CacheTrue, Takes, relaySame, devVars
  <2>1. /\ m.t = "status" => Body(m) = m.paired
        /\ m.t = "presence" => Body(m) = m.present
    BY <1>3, SharedKinds
  <2>2. Shows(up[c], "status", lastStatus, paired)
    BY <1>8 DEF Agree, CacheTrue
  <2>3. present # Unknown => Shows(up[c], "presence", lastPresence, present)
    BY <1>8 DEF Agree, CacheTrue
  <2>4. Shows(up'[c], "status", lastStatus', paired)
    BY <1>1, <1>9, <2>1, <2>2, Taken
  <2>5. present # Unknown => Shows(up'[c], "presence", lastPresence', present)
    BY <1>1, <1>9, <2>1, <2>3, Taken
  <2> QED BY <2>4, <2>5
<1>11. ASSUME NEW u \in Uis PROVE RelayShown(u)' /\ SettingsTrue(u)'
  <2> SUFFICES ASSUME Registered(u) PROVE RelayShown(u)' /\ SettingsTrue(u)'
    BY <1>1, Taken DEF RelayShown, SettingsTrue, Registered, Takes, relaySame
  <2> DEFINE q == down[Conn(u)]
  <2>1. Conn(u) \in Conns /\ q \in Seq(UiNews) /\ Conn(u)' = Conn(u)
    BY ConnFacts, MessageFacts, Taken DEF Registered
  <2>2. down'[Conn(u)] = Append(q, m)
    BY <1>5, <2>1 DEF Registered
  <2>3. View(Append(q, m), online[u], shownPaired[u], shownPresence[u],
             IF m.t = "device" THEN m.on ELSE devices # {}, lastStatus', lastPresence')
    BY <1>1, <1>3, <2>1, ViewAppend DEF Agree, RelayShown
  <2>4. m.t # "device"
    BY <1>3, SharedKinds
  <2>5. RelayShown(u)'
    BY <1>1, <2>1, <2>2, <2>3, <2>4 DEF RelayShown, Takes, relaySame, pageVars
  <2>6. SettingsTrue(u)'
    <3> SUFFICES ASSUME DevHere, ~unread PROVE Asked(u)' \/ Answered' \/ Coming(u)'
      BY <1>1, <1>8, Taken DEF SettingsTrue, DevHere, Takes, relaySame, devVars
    <3>1. c = Conn(Dev) /\ Conn(Dev)' = c /\ c # Conn(u) /\ up'[c] = Tail(up[c])
      BY <1>8, ConnFacts, Taken DEF DevHere
    <3>2. up'[Conn(u)] = up[Conn(u)] /\ down'[c] = down[c]
      BY <1>2, <1>4, <1>5, <2>1, <3>1, Taken DEF UiConns
    <3>3. Asked(u) => Asked(u)'
      <4>1. \A i \in 1..Len(q) : i \in 1..Len(Append(q, m)) /\ Append(q, m)[i] = q[i]
        BY <1>3, <2>1, AppendHas
      <4> QED BY <2>1, <2>2, <3>1, <3>2, <4>1 DEF Asked
    <3>5. ASSUME Answered PROVE Answered' \/ Coming(u)'
      <4>1. \A x \in Forms : Shows(up[c], "settings", x, reads(settings))
        BY <3>1, <3>5 DEF Answered
      <4>2. CASE m.t = "settings"
        <5>1. Shows(Append(q, m), "settings", form[u], Body(m)) /\ Body(m) \in Forms
          BY <1>3, <2>1, <4>2, ShowsNew, SharedKinds DEF Forms
        <5>2. Shows(Tail(up[c]), "settings", Body(m), reads(settings))
          BY <1>9, <4>1, <4>2, <5>1
        <5> QED BY <2>1, <2>2, <3>1, <5>1, <5>2 DEF Coming, Takes, relaySame, devVars, pageVars
      <4>3. CASE m.t # "settings"
        <5>1. \A x \in Forms : Shows(Tail(up[c]), "settings", x, reads(settings))
          BY <1>9, <4>1, <4>3
        <5> QED BY <3>1, <5>1 DEF Answered, Forms, Takes, relaySame, devVars
      <4> QED BY <4>2, <4>3
    <3>4. ASSUME Coming(u) PROVE Coming(u)'
      <4>1. PICK x \in Forms : Shows(q, "settings", form[u], x) /\ Shows(up[c], "settings", x, reads(settings))
        BY <3>1, <3>4 DEF Coming
      <4>2. CASE m.t = "settings"
        <5>1. Shows(Append(q, m), "settings", form[u], Body(m)) /\ Body(m) \in Forms
          BY <1>3, <2>1, <4>2, ShowsNew, SharedKinds DEF Forms
        <5>2. Shows(Tail(up[c]), "settings", Body(m), reads(settings))
          BY <1>9, <4>1, <4>2
        <5> QED BY <2>1, <2>2, <3>1, <5>1, <5>2 DEF Coming, Takes, relaySame, devVars, pageVars
      <4>3. CASE m.t # "settings"
        <5>1. Shows(Append(q, m), "settings", form[u], x)
          BY <1>3, <2>1, <4>1, <4>3, ShowsOther
        <5>2. Shows(Tail(up[c]), "settings", x, reads(settings))
          BY <1>9, <4>1, <4>3
        <5> QED BY <2>1, <2>2, <3>1, <5>1, <5>2 DEF Coming, Forms, Takes, relaySame, devVars, pageVars
      <4> QED BY <4>2, <4>3
    <3> QED BY <3>3, <3>4, <3>5 DEF Agree, SettingsTrue
  <2> QED BY <2>5, <2>6
<1> QED BY <1>6, <1>7, <1>10, <1>11, Taken DEF Agree

(* A page's request goes to the master.                                    *)
LEMMA PageRequest ==
  ASSUME IInv, NEW c \in Conns, Takes(c), Head(up[c]) # Hello, c \in uis, OnUi(Head(up[c]))
  PROVE  IInv'
<1> DEFINE m == Head(up[c])
<1> USE DEF IInv
<1>1. /\ UNCHANGED relayVars /\ down' = posted(down, devices, <<m>>)
  BY DEF OnUi
<1>2. c[1] # Dev /\ up[c] \in Seq(UiSays) /\ up[c] # <<>>
  BY DEF TypeOK, MessagesOK, UpTyped, Queues, Takes
<1>3. m \in Requests
  <2>1. m \in UiSays /\ m # Hello
    BY <1>2
  <2> QED BY <2>1 DEF UiSays
<1>4. devices \in SUBSET DevConns
  BY DEF TypeOK, DevConns
<1> HIDE DEF m
<1>5. /\ DownTyped(down')
      /\ \A e \in Conns : down'[e] = IF e \in devices /\ link[e] = "open"
                                     THEN Append(down[e], m) ELSE down[e]
  BY <1>1, <1>3, <1>4, RequestPosted DEF MessagesOK
<1>6. TypeOK'
  <2>1. \A w \in Clients : Connected(w)' => link'[Conn(w)'] \in {"open", "orphan"}
    BY Taken DEF Takes, relaySame, TypeOK
  <2> QED BY <1>1, <2>1 DEF Takes, relaySame, relayVars, devVars, pageVars, TypeOK
<1>7. MessagesOK'
  BY <1>5, Taken DEF MessagesOK
<1>8. DevOpen => Conn(Dev) \in Conns /\ Conn(Dev) # c /\ Conn(Dev)' = Conn(Dev)
  BY <1>2, ConnFacts, Taken DEF DevOpen
<1>9. CacheTrue'
  BY <1>1, <1>8, Taken DEF Agree, CacheTrue, Takes, relaySame, relayVars, devVars
<1>10. ASSUME NEW u \in Uis PROVE RelayShown(u)' /\ SettingsTrue(u)'
  <2> SUFFICES ASSUME Registered(u) PROVE RelayShown(u)' /\ SettingsTrue(u)'
    BY <1>1, Taken DEF RelayShown, SettingsTrue, Registered, Takes, relaySame, relayVars
  <2>1. Conn(u) \in Conns /\ Conn(u) \notin devices /\ Conn(u)' = Conn(u)
    BY ConnFacts, Taken DEF Registered
  <2>2. RelayShown(u)'
    BY <1>1, <1>5, <2>1 DEF Agree, RelayShown, Takes, relaySame, relayVars, pageVars
  <2>3. SettingsTrue(u)'
    <3> SUFFICES ASSUME DevHere PROVE Asked(u)'
      BY <1>1, <1>8, Taken DEF SettingsTrue, DevHere, Takes, relaySame, relayVars
    <3>1. down'[Conn(Dev)] = Append(down[Conn(Dev)], m)
      BY <1>5, <1>8 DEF DevHere, DevOpen
    <3>2. Append(down[Conn(Dev)], m) # <<>>
      BY <1>3, MessageFacts DEF DevHere, DevOpen
    <3> QED BY <1>8, <3>1, <3>2 DEF Asked, DevHere
  <2> QED BY <2>2, <2>3
<1> QED BY <1>6, <1>7, <1>9, <1>10, Taken DEF Agree

LEMMA RelayHearsKeeps ==
  ASSUME IInv, NEW c \in Conns, RelayHears(c)
  PROVE  IInv'
<1>1. Takes(c)
  BY DEF RelayHears, Takes, relaySame
<1>2. CASE Head(up[c]) = Hello /\ OnHello(c)
  BY <1>1, <1>2, MasterHello, PageHello
<1>3. CASE Head(up[c]) # Hello /\ c \in devices /\ OnDevice(Head(up[c]))
  BY <1>1, <1>3, MasterNews
<1>4. CASE Head(up[c]) # Hello /\ c \in uis /\ OnUi(Head(up[c]))
  BY <1>1, <1>4, PageRequest
<1> QED BY <1>2, <1>3, <1>4 DEF RelayHears
-----------------------------------------------------------------------------
(* The relay closes a connection, or starts again.                         *)
Ends(c, d) ==
  /\ link' \in [Conns -> {"open", "half", "orphan", "closed"}]
  /\ link'[c] # "open" /\ \A e \in Conns : e # c => link'[e] = link[e]
  /\ \A w \in Clients : Connected(w) => link'[Conn(w)] \in {"open", "orphan"}
  /\ UpTyped(up') /\ (\A e \in Conns : e # c => up'[e] = up[e]) /\ (up'[c] = up[c] \/ up'[c] = <<>>)
  /\ DownTyped(d) /\ \A e \in Conns : e # c => d[e] = down[e]
  /\ closes(c, d)
  /\ UNCHANGED <<cur, devVars, pageVars>>

LEMMA ClosingKeeps ==
  ASSUME IInv, NEW c \in Conns, NEW d, Ends(c, d)
  PROVE  IInv'
<1> USE DEF IInv
<1> DEFINE m == Device(devices' # {})
<1>1. /\ devices' = devices \ {c} /\ uis' = uis \ {c}
      /\ lastStatus' = lastStatus /\ lastPresence' = lastPresence
      /\ down' = IF c \in devices THEN posted(d, uis', <<m>>) ELSE d
  BY DEF Ends, closes
<1>2. m \in UiNews /\ m.t = "device" /\ m.on = (devices' # {})
  BY DEF UiNews, Device
<1>3. uis' \in SUBSET UiConns
  BY <1>1 DEF TypeOK, UiConns
<1> HIDE DEF m
<1>4. /\ DownTyped(down')
      /\ c \in devices => \A e \in Conns : down'[e] = IF e \in uis' /\ link[e] = "open"
                                                      THEN Append(d[e], m) ELSE d[e]
      /\ c \notin devices => down' = d
  BY <1>1, <1>2, <1>3, NewsPosted DEF Ends
<1>5. \A w : Conn(w)' = Conn(w) /\ Connected(w)' = Connected(w)
  BY DEF Ends, Conn, Connected
<1>6. TypeOK'
  <2>1. \A w \in Clients : Connected(w)' => link'[Conn(w)'] \in {"open", "orphan"}
    BY <1>5 DEF Ends
  <2>2. devices' \subseteq {e \in Conns : e[1] = Dev /\ link'[e] \in {"open", "half"}}
    BY <1>1 DEF Ends, TypeOK
  <2>3. uis' \subseteq {e \in Conns : e[1] # Dev /\ link'[e] \in {"open", "half"}}
    BY <1>1 DEF Ends, TypeOK
  <2> QED BY <1>1, <2>1, <2>2, <2>3 DEF Ends, devVars, pageVars, TypeOK
<1>7. MessagesOK'
  BY <1>4 DEF Ends, MessagesOK
<1>8. OldQuiet'
  <2> SUFFICES ASSUME Connected(Dev), NEW n \in {1, 2}, n # cur[Dev] PROVE up'[<<Dev, n>>] = <<>>
    BY <1>5 DEF OldQuiet, Ends
  <2>1. up[<<Dev, n>>] = <<>> /\ <<Dev, n>> \in Conns
    BY ConnFacts DEF Agree, OldQuiet, Conns
  <2> QED BY <2>1 DEF Ends
<1>9. DevOpen' => /\ DevOpen /\ Conn(Dev)' = Conn(Dev) /\ Conn(Dev) # c /\ Conn(Dev) \in Conns
                  /\ up'[Conn(Dev)] = up[Conn(Dev)] /\ down'[Conn(Dev)] = down[Conn(Dev)]
  <2> SUFFICES ASSUME DevOpen'
               PROVE  /\ DevOpen /\ Conn(Dev) # c /\ Conn(Dev) \in Conns
                      /\ up'[Conn(Dev)] = up[Conn(Dev)] /\ down'[Conn(Dev)] = down[Conn(Dev)]
    BY <1>5
  <2>1. Connected(Dev) /\ link'[Conn(Dev)] = "open" /\ Conn(Dev) \in Conns
    BY <1>5, ConnFacts DEF DevOpen
  <2>2. Conn(Dev) # c /\ link[Conn(Dev)] = "open"
    BY <2>1 DEF Ends
  <2>3. Conn(Dev) \notin uis'
    BY <1>1, ConnFacts
  <2> QED BY <1>4, <2>1, <2>2, <2>3 DEF Ends, DevOpen
<1>10. CacheTrue'
  BY <1>1, <1>9 DEF Agree, CacheTrue, Ends, devVars
<1>11. ASSUME NEW u \in Uis PROVE RelayShown(u)' /\ SettingsTrue(u)'
  <2> SUFFICES ASSUME Registered(u)' PROVE RelayShown(u)' /\ SettingsTrue(u)'
    BY DEF RelayShown, SettingsTrue
  <2> DEFINE q == down[Conn(u)]
  <2>1. Connected(u) /\ Conn(u) \in Conns /\ Conn(u)' = Conn(u) /\ Conn(u) \in uis' /\ link'[Conn(u)] = "open"
    BY <1>5, ConnFacts DEF Registered
  <2>2. Conn(u) # c /\ link[Conn(u)] = "open" /\ up'[Conn(u)] = up[Conn(u)] /\ d[Conn(u)] = q
    BY <2>1 DEF Ends
  <2>3. Registered(u) /\ q \in Seq(UiNews)
    BY <1>1, <2>1, <2>2, MessageFacts DEF Registered
  <2>4. down'[Conn(u)] = IF c \in devices THEN Append(q, m) ELSE q
    BY <1>4, <2>1, <2>2
  <2> HIDE DEF q
  <2>5. View(q, online[u], shownPaired[u], shownPresence[u], devices # {}, lastStatus, lastPresence)
    BY <2>3 DEF Agree, RelayShown, q
  <2>6. View(Append(q, m), online[u], shownPaired[u], shownPresence[u],
             devices' # {}, lastStatus, lastPresence)
    BY <1>2, <2>3, <2>5, ViewAppend
  <2>7. RelayShown(u)'
    <3>1. c \notin devices => devices' = devices
      BY <1>1
    <3> QED BY <1>1, <2>1, <2>4, <2>5, <2>6, <3>1 DEF RelayShown, Ends, pageVars
  <2>8. SettingsTrue(u)'
    <3> SUFFICES ASSUME DevHere', ~unread PROVE Asked(u)' \/ Answered' \/ Coming(u)'
      BY DEF SettingsTrue, Ends, devVars
    <3>1. DevHere /\ DevOpen'
      BY <1>1, <1>9 DEF DevHere
    <3>2. CASE Asked(u)
      <4>1. \A i \in 1..Len(q) : i \in 1..Len(Append(q, m)) /\ Append(q, m)[i] = q[i]
        BY <1>2, <2>3, AppendHas
      <4> QED BY <1>9, <2>1, <2>2, <2>4, <3>1, <3>2, <4>1 DEF Asked, q
    <3>3. CASE Coming(u)
      <4>1. PICK x \in Forms :
              Shows(q, "settings", form[u], x) /\ Shows(up[Conn(Dev)], "settings", x, reads(settings))
        BY <3>3 DEF Coming, q
      <4>2. Shows(Append(q, m), "settings", form[u], x)
        BY <1>2, <2>3, <4>1, ShowsOther
      <4> QED BY <1>9, <2>1, <2>4, <3>1, <4>1, <4>2 DEF Coming, Forms, Ends, devVars, pageVars
    <3>4. Answered => Answered'
      BY <1>9, <3>1 DEF Answered, Forms, Ends, devVars
    <3> QED BY <2>3, <3>1, <3>2, <3>3, <3>4 DEF Agree, SettingsTrue
  <2> QED BY <2>7, <2>8
<1> QED BY <1>6, <1>7, <1>8, <1>10, <1>11 DEF Agree

LEMMA Cut ==
  ASSUME NEW S, NEW q \in Seq(S), NEW rest \in Prefixes(q)
  PROVE  rest \in Seq(S)
<1>1. PICK n \in 0..Len(q) : rest = SubSeq(q, 1, n)
  BY DEF Prefixes
<1>2. n \in Nat /\ \A i \in 1..n : q[i] \in S
  OBVIOUS
<1> QED BY <1>1, <1>2

LEMMA NoticesEnds ==
  ASSUME IInv, NEW c \in Conns, RelayNotices(c)
  PROVE  Ends(c, down)
<1> USE DEF IInv, RelayNotices
<1>1. link' \in [Conns -> {"open", "half", "orphan", "closed"}] /\ link'[c] # "open"
        /\ \A e \in Conns : e # c => link'[e] = link[e]
  BY DEF TypeOK
<1>2. \A w \in Clients : Connected(w) => link'[Conn(w)] \in {"open", "orphan"}
  <2> SUFFICES ASSUME NEW w \in Clients, Connected(w) PROVE link'[Conn(w)] \in {"open", "orphan"}
    OBVIOUS
  <2>1. Conn(w) \in Conns /\ link[Conn(w)] \in {"open", "orphan"}
    BY ConnFacts DEF TypeOK
  <2> QED BY <1>1, <2>1
<1> QED BY <1>1, <1>2 DEF Ends, MessagesOK

LEMMA LosesEnds ==
  ASSUME IInv, NEW c \in Conns, RelayLoses(c)
  PROVE  Ends(c, down)
<1> USE DEF IInv
<1>1. closes(c, down)
  BY DEF RelayLoses
<1>2. /\ link' \in [Conns -> {"open", "half", "orphan", "closed"}] /\ link'[c] = "orphan"
      /\ \A e \in Conns : e # c => link'[e] = link[e]
  BY DEF TypeOK, RelayLoses
<1>3. \A w \in Clients : Connected(w) => link'[Conn(w)] \in {"open", "orphan"}
  <2> SUFFICES ASSUME NEW w \in Clients, Connected(w) PROVE link'[Conn(w)] \in {"open", "orphan"}
    OBVIOUS
  <2>1. Conn(w) \in Conns /\ link[Conn(w)] \in {"open", "orphan"}
    BY ConnFacts DEF TypeOK
  <2> QED BY <1>2, <2>1
<1>4. UpTyped(up') /\ (\A e \in Conns : e # c => up'[e] = up[e]) /\ up'[c] = <<>>
  BY DEF RelayLoses, MessagesOK, UpTyped, Queues
<1> QED BY <1>1, <1>2, <1>3, <1>4 DEF Ends, RelayLoses, MessagesOK

LEMMA RestartKeeps ==
  ASSUME IInv, RelayRestarts
  PROVE  IInv'
<1> USE DEF IInv, RelayRestarts
<1>1. \A w : Conn(w)' = Conn(w) /\ Connected(w)' = Connected(w)
  BY DEF Conn, Connected
<1>2. /\ link' \in [Conns -> {"open", "half", "orphan", "closed"}]
      /\ \A c \in Conns : link'[c] # "open" /\ (link[c] \in {"open", "orphan"} => link'[c] = "orphan")
  BY DEF TypeOK
<1>3. TypeOK'
  <2>1. \A w \in Clients : Connected(w)' => link'[Conn(w)'] \in {"open", "orphan"}
    <3> SUFFICES ASSUME NEW w \in Clients, Connected(w) PROVE link'[Conn(w)] \in {"open", "orphan"}
      BY <1>1
    <3>1. Conn(w) \in Conns /\ link[Conn(w)] \in {"open", "orphan"}
      BY ConnFacts DEF TypeOK
    <3> QED BY <1>2, <3>1
  <2> QED BY <1>2, <2>1 DEF devVars, pageVars, TypeOK
<1>4. MessagesOK'
  BY DEF MessagesOK, UpTyped, DownTyped, Queues
<1>5. OldQuiet'
  BY DEF OldQuiet, Conns, Clients
<1>6. ~DevOpen'
  <2> SUFFICES ASSUME Connected(Dev) PROVE link'[Conn(Dev)] # "open"
    BY <1>1 DEF DevOpen
  <2> QED BY <1>2, ConnFacts
<1>7. \A u \in Uis : ~Registered(u)'
  BY DEF Registered
<1> QED BY <1>3, <1>4, <1>5, <1>6, <1>7 DEF Agree, CacheTrue, RelayShown, SettingsTrue
-----------------------------------------------------------------------------
(* A client leaves, or connects.                                           *)
DevTyped ==
  /\ paired \in BOOLEAN /\ unread \in BOOLEAN /\ present \in {Unknown, "yes", "no"}
  /\ wifi \in {"off", "joining", "up"} /\ settings \in Values

Leaves(w) ==
  /\ Connected(w)
  /\ link' \in [Conns -> {"open", "half", "orphan", "closed"}]
  /\ \A e \in Conns : e # Conn(w) => link'[e] = link[e]
  /\ link[Conn(w)] = "open" => link'[Conn(w)] = "half"
  /\ UpTyped(up') /\ DownTyped(down')
  /\ \A e \in Conns : e # Conn(w) => up'[e] = up[e] /\ down'[e] = down[e]
  /\ left(w) /\ DevTyped' /\ (w # Dev => UNCHANGED devVars)
  /\ UNCHANGED relayVars

LEMMA LeavingKeeps ==
  ASSUME IInv, NEW w \in Clients, Leaves(w)
  PROVE  IInv'
<1> USE DEF IInv
<1>1. cur' = [cur EXCEPT ![w] = 0] /\ cur \in [Clients -> 0..2]
  BY DEF Leaves, left, TypeOK
<1>2. ~Connected(w)' /\ \A v \in Clients : v # w => /\ cur'[v] = cur[v] /\ Conn(v)' = Conn(v)
                                                   /\ Connected(v)' = Connected(v)
                                                   /\ Conn(v) # Conn(w)
  BY <1>1, ConnFacts DEF Connected, Conn
<1>3. UNCHANGED relayVars /\ UNCHANGED <<shownPaired, shownPresence, form>>
        /\ online' = [u \in Uis |-> online[u] /\ u # w]
  BY DEF Leaves, left
<1>4. online' \in [Uis -> BOOLEAN] /\ \A u \in Uis : u # w => online'[u] = online[u]
  <2>1. online \in [Uis -> BOOLEAN]
    BY DEF TypeOK
  <2>2. \A u \in Uis : online'[u] = (online[u] /\ u # w)
    BY <1>3
  <2> QED BY <1>3, <2>1, <2>2
<1>5. TypeOK'
  <2>1. \A v \in Clients : Connected(v)' => link'[Conn(v)'] \in {"open", "orphan"}
    <3> SUFFICES ASSUME NEW v \in Clients, Connected(v)' PROVE link'[Conn(v)'] \in {"open", "orphan"}
      OBVIOUS
    <3>1. v # w /\ Connected(v) /\ Conn(v)' = Conn(v) /\ Conn(v) # Conn(w) /\ Conn(v) \in Conns
      BY <1>2, ConnFacts
    <3> QED BY <3>1 DEF Leaves, TypeOK
  <2>2. \A e \in Conns : link[e] \in {"open", "half"} => link'[e] \in {"open", "half"}
    <3>1. Conn(w) \in Conns /\ link[Conn(w)] \in {"open", "orphan"}
      BY ConnFacts DEF Leaves, TypeOK
    <3> QED BY <3>1 DEF Leaves
  <2>3. /\ devices' \subseteq {e \in Conns : e[1] = Dev /\ link'[e] \in {"open", "half"}}
        /\ uis' \subseteq {e \in Conns : e[1] # Dev /\ link'[e] \in {"open", "half"}}
    BY <1>3, <2>2 DEF relayVars, TypeOK
  <2>4. cur' \in [Clients -> 0..2]
    BY <1>1
  <2> QED BY <1>3, <1>4, <2>1, <2>3, <2>4 DEF Leaves, DevTyped, relayVars, TypeOK
<1>6. MessagesOK'
  BY DEF Leaves, MessagesOK
<1>7. w # Dev => /\ Conn(Dev)' = Conn(Dev) /\ Connected(Dev)' = Connected(Dev)
                 /\ cur'[Dev] = cur[Dev] /\ UNCHANGED devVars
  BY <1>2, ConnFacts DEF Leaves
<1>8. w # Dev /\ Connected(Dev) => /\ link'[Conn(Dev)] = link[Conn(Dev)]
                                   /\ up'[Conn(Dev)] = up[Conn(Dev)]
                                   /\ down'[Conn(Dev)] = down[Conn(Dev)]
  BY <1>2, ConnFacts DEF Leaves
<1>9. OldQuiet'
  <2> SUFFICES ASSUME Connected(Dev)', NEW n \in {1, 2}, n # cur'[Dev] PROVE up'[<<Dev, n>>] = <<>>
    BY DEF OldQuiet
  <2>1. w # Dev /\ Connected(Dev) /\ n # cur[Dev]
    BY <1>2, <1>7
  <2>2. up[<<Dev, n>>] = <<>> /\ <<Dev, n>> \in Conns /\ <<Dev, n>> # Conn(w)
    BY <2>1, ConnFacts DEF Agree, OldQuiet, Conns, Conn
  <2> QED BY <2>2 DEF Leaves
<1>10. CacheTrue'
  <2> SUFFICES ASSUME DevOpen' PROVE CacheTrue'
    BY DEF CacheTrue
  <2>1. w # Dev /\ DevOpen
    BY <1>2, <1>7, <1>8 DEF DevOpen
  <2> QED BY <1>3, <1>7, <1>8, <2>1 DEF DevOpen, Agree, CacheTrue, relayVars, devVars
<1>11. ASSUME NEW u \in Uis PROVE RelayShown(u)' /\ SettingsTrue(u)'
  <2> SUFFICES ASSUME Registered(u)' PROVE RelayShown(u)' /\ SettingsTrue(u)'
    BY DEF RelayShown, SettingsTrue
  <2>1. u # w /\ u \in Clients
    BY <1>2, ConnFacts DEF Registered
  <2>2. Conn(u)' = Conn(u) /\ Connected(u) /\ Conn(u) # Conn(w) /\ Conn(u) \in Conns
    BY <1>2, <2>1, ConnFacts DEF Registered
  <2>3. /\ up'[Conn(u)] = up[Conn(u)] /\ down'[Conn(u)] = down[Conn(u)]
        /\ link'[Conn(u)] = link[Conn(u)]
    BY <2>2 DEF Leaves
  <2>4. Registered(u)
    BY <1>3, <2>2, <2>3 DEF Registered, relayVars
  <2>5. RelayShown(u)'
    BY <1>3, <1>4, <2>1, <2>2, <2>3, <2>4 DEF RelayShown, Agree, relayVars
  <2>6. SettingsTrue(u)'
    <3> SUFFICES ASSUME DevHere', ~unread' PROVE Asked(u)' \/ Answered' \/ Coming(u)'
      BY DEF SettingsTrue
    <3>1. w # Dev /\ DevHere /\ ~unread
      <4>1. w # Dev /\ Connected(Dev)' /\ link'[Conn(Dev)'] = "open" /\ Conn(Dev)' \in devices'
        BY <1>2 DEF DevHere, DevOpen
      <4>2. Connected(Dev) /\ link[Conn(Dev)] = "open" /\ Conn(Dev) \in devices
        BY <1>3, <1>7, <1>8, <4>1 DEF relayVars
      <4>3. unread' = unread
        BY <1>7, <4>1 DEF devVars
      <4> QED BY <4>1, <4>2, <4>3 DEF DevHere, DevOpen
    <3>2. Asked(u) => Asked(u)'
      BY <1>7, <1>8, <2>2, <2>3, <3>1 DEF Asked, DevHere, DevOpen
    <3>3. Coming(u) => Coming(u)'
      BY <1>3, <1>7, <1>8, <2>2, <2>3, <3>1 DEF Coming, Forms, DevHere, DevOpen, devVars
    <3>4. Answered => Answered'
      BY <1>7, <1>8, <3>1 DEF Answered, Forms, DevHere, DevOpen, devVars
    <3> QED BY <2>4, <3>1, <3>2, <3>3, <3>4 DEF Agree, SettingsTrue
  <2> QED BY <2>5, <2>6
<1> QED BY <1>5, <1>6, <1>9, <1>10, <1>11 DEF Agree

(* Losing what was on its way on one connection.                           *)
LEMMA Emptied ==
  ASSUME DownTyped(down), NEW c \in Conns, down' = [down EXCEPT ![c] = <<>>]
  PROVE  DownTyped(down') /\ \A e \in Conns : e # c => down'[e] = down[e]
BY DEF DownTyped, Queues

LEMMA NoticeKeeps ==
  ASSUME IInv, NEW w \in Clients, Notice(w)
  PROVE  IInv'
<1> USE DEF IInv
<1>1. Conn(w) \in Conns
  BY ConnFacts DEF Notice
<1>2. DownTyped(down') /\ \A e \in Conns : e # Conn(w) => down'[e] = down[e]
  BY <1>1, Emptied DEF Notice, MessagesOK
<1>3. Leaves(w)
  BY <1>1, <1>2 DEF Notice, Leaves, TypeOK, MessagesOK, DevTyped, devVars
<1> QED BY <1>3, LeavingKeeps

LEMMA DropLeaves ==
  ASSUME IInv, NEW w \in Clients, Connected(w), drop(w), UNCHANGED relayVars,
         DevTyped', w # Dev => UNCHANGED devVars
  PROVE  Leaves(w)
<1> USE DEF IInv
<1>1. Conn(w) \in Conns
  BY ConnFacts
<1>2. PICK rest \in Prefixes(up[Conn(w)]) : up' = [up EXCEPT ![Conn(w)] = rest]
  BY DEF drop
<1>3. UpTyped(up') /\ \A e \in Conns : e # Conn(w) => up'[e] = up[e]
  <2>1. /\ rest \in Seq(Messages)
        /\ IF Conn(w)[1] = Dev THEN rest \in Seq(DevNews) ELSE rest \in Seq(UiSays)
    BY <1>1, Cut DEF MessagesOK, UpTyped, Queues
  <2> QED BY <1>1, <1>2, <2>1 DEF MessagesOK, UpTyped, Queues
<1>4. DownTyped(down') /\ \A e \in Conns : e # Conn(w) => down'[e] = down[e]
  BY <1>1, Emptied DEF drop, MessagesOK
<1>5. /\ link' \in [Conns -> {"open", "half", "orphan", "closed"}]
      /\ \A e \in Conns : e # Conn(w) => link'[e] = link[e]
      /\ link[Conn(w)] = "open" => link'[Conn(w)] = "half"
  BY <1>1 DEF drop, TypeOK
<1> QED BY <1>3, <1>4, <1>5 DEF drop, Leaves

(* A step that touches nothing but what the master is while it is not      *)
(* connected.                                                              *)
LEMMA OfflineKeeps ==
  ASSUME IInv, ~Connected(Dev), DevTyped', UNCHANGED <<link, up, down, cur, relayVars, pageVars>>
  PROVE  IInv'
<1> USE DEF IInv, relayVars, pageVars
<1>1. TypeOK'
  BY DEF TypeOK, DevTyped, Connected, Conn
<1>2. MessagesOK'
  BY DEF MessagesOK
<1>3. ~DevOpen' /\ ~Connected(Dev)'
  BY DEF DevOpen, Connected
<1>4. \A u \in Uis : RelayShown(u)'
  BY DEF Agree, RelayShown, Registered, Connected, Conn
<1> QED BY <1>1, <1>2, <1>3, <1>4 DEF Agree, OldQuiet, CacheTrue, SettingsTrue, DevHere

LEMMA LoseKeeps ==
  ASSUME IInv, NEW w \in Clients, Lose(w)
  PROVE  IInv'
<1>1. DevTyped'
  BY DEF Lose, devVars, DevTyped, IInv, TypeOK
<1> QED BY <1>1, DropLeaves, LeavingKeeps DEF Lose

(* The master is off the network: its radio fell off, or it restarted.     *)
LEMMA MasterGone ==
  ASSUME IInv, drop(Dev), UNCHANGED relayVars, DevTyped'
  PROVE  IInv'
<1>1. CASE Connected(Dev)
  BY <1>1, DropLeaves, LeavingKeeps, ConnFacts DEF IInv
<1>2. CASE ~Connected(Dev)
  BY <1>2, OfflineKeeps DEF drop
<1> QED BY <1>1, <1>2

LEMMA FallsKeeps ==
  ASSUME IInv, WifiFalls \/ MasterReboot
  PROVE  IInv'
<1>1. DevTyped' /\ drop(Dev) /\ UNCHANGED relayVars
  BY DEF WifiFalls, MasterReboot, radio, relayVars, DevTyped, IInv, TypeOK
<1> QED BY <1>1, MasterGone
(* A client connects; what it greets with will make the cache true.        *)
LEMMA GreetingShows ==
  ASSUME DevTyped
  PROVE  /\ greeting(Dev) \in Seq(DevNews)
         /\ \A sh : Shows(greeting(Dev), "status", sh, paired)
         /\ \A sh : present # Unknown => Shows(greeting(Dev), "presence", sh, present)
<1> DEFINE s == Status(paired)
           x == Presence(present)
           g1 == <<Hello>>
           g2 == Append(g1, s)
           g3 == Append(g2, x)
<1>1. g1 \in Seq(DevNews) /\ s \in DevNews /\ (present # Unknown => x \in DevNews)
  BY DEF DevTyped, DevNews, Shared, Presences
<1>2. s.t = "status" /\ Body(s) = paired /\ x.t = "presence" /\ Body(x) = present
  BY BodyOf
<1>3. greeting(Dev) = IF present = Unknown THEN g2 ELSE g3
  <2>1. greeting(Dev) = <<Hello, s>> \o Known(present)
    BY DEF greeting
  <2>2. <<Hello, s>> = g2 /\ Hello \in DevNews
    BY DEF DevNews
  <2> HIDE DEF s, x
  <2>3. CASE present = Unknown
    <3>1. <<Hello, s>> \o <<>> = <<Hello, s>>
      BY <1>1, <2>2
    <3> QED BY <2>1, <2>2, <2>3, <3>1 DEF Known
  <2>4. CASE present # Unknown
    <3>1. Known(present) = <<x>>
      BY <2>4 DEF Known, x
    <3>2. <<Hello, s>> \o <<x>> = Append(<<Hello, s>>, x)
      BY <1>1, <2>2, <2>4
    <3> QED BY <2>1, <2>2, <2>4, <3>1, <3>2
  <2> QED BY <2>3, <2>4
<1> HIDE DEF s, x, g1
<1>4. g2 \in Seq(DevNews) /\ \A sh : Shows(g2, "status", sh, paired)
  BY <1>1, <1>2, ShowsNew
<1>5. present # Unknown => /\ g3 \in Seq(DevNews) /\ \A sh : Shows(g3, "status", sh, paired)
                           /\ \A sh : Shows(g3, "presence", sh, present)
  <2> HIDE DEF g2
  <2> QED BY <1>1, <1>2, <1>4, ShowsNew, ShowsOther
<1> QED BY <1>3, <1>4, <1>5

LEMMA ConnectKeeps ==
  ASSUME IInv, NEW w \in Clients, Connect(w)
  PROVE  IInv'
<1> USE DEF IInv
<1>1. PICK n \in {1, 2} :
        /\ link[<<w, n>>] = "closed"
        /\ cur' = [cur EXCEPT ![w] = n]
        /\ link' = [link EXCEPT ![<<w, n>>] = "open"]
        /\ up' = [up EXCEPT ![<<w, n>>] = greeting(w)]
  BY DEF Connect
<1> DEFINE c == <<w, n>>
<1>2. /\ UNCHANGED <<down, relayVars, devVars, pageVars>> /\ ~Connected(w)
      /\ \A k \in {1, 2} : up[<<w, k>>] = <<>>
  BY DEF Connect
<1>3. c \in Conns /\ c \notin devices /\ c \notin uis /\ \A e : e = c => e[1] = w
  BY <1>1 DEF Conns, TypeOK
<1>4. Conn(w)' = c /\ Connected(w)' /\ cur'[w] = n /\ cur' \in [Clients -> 0..2]
  BY <1>1 DEF Conn, Connected, TypeOK
<1>5. \A v \in Clients : v # w => /\ cur'[v] = cur[v] /\ Conn(v)' = Conn(v)
                                  /\ Connected(v)' = Connected(v) /\ Conn(v) # c
  BY <1>1, <1>3, ConnFacts DEF Conn, Connected, TypeOK
<1>6. /\ link' \in [Conns -> {"open", "half", "orphan", "closed"}] /\ link'[c] = "open"
      /\ \A e \in Conns : e # c => link'[e] = link[e]
  BY <1>1, <1>3 DEF TypeOK
<1>7. DevTyped
  BY DEF DevTyped, TypeOK
<1>8. greeting(w) \in Seq(Messages) /\ IF w = Dev THEN greeting(w) \in Seq(DevNews)
                                                 ELSE greeting(w) \in Seq(UiSays)
  <2>1. CASE w = Dev
    <3>1. DevNews \subseteq Messages
      BY DEF Messages
    <3> QED BY <1>7, <2>1, <3>1, GreetingShows
  <2>2. CASE w # Dev
    <3>1. Hello \in UiSays /\ Hello \in Messages
      BY DEF Messages, UiSays
    <3> QED BY <2>2, <3>1 DEF greeting
  <2> QED BY <2>1, <2>2
<1>9. UpTyped(up') /\ up'[c] = greeting(w) /\ \A e \in Conns : e # c => up'[e] = up[e]
  BY <1>1, <1>3, <1>8 DEF MessagesOK, UpTyped, Queues
<1> HIDE DEF c
<1>10. TypeOK'
  <2>1. \A v \in Clients : Connected(v)' => link'[Conn(v)'] \in {"open", "orphan"}
    BY <1>4, <1>5, <1>6, ConnFacts DEF TypeOK
  <2>2. /\ devices' \subseteq {e \in Conns : e[1] = Dev /\ link'[e] \in {"open", "half"}}
        /\ uis' \subseteq {e \in Conns : e[1] # Dev /\ link'[e] \in {"open", "half"}}
    BY <1>2, <1>3, <1>6 DEF relayVars, TypeOK
  <2> QED BY <1>2, <1>4, <1>6, <2>1, <2>2 DEF relayVars, devVars, pageVars, TypeOK
<1>11. MessagesOK'
  BY <1>2, <1>9 DEF MessagesOK
<1>12. OldQuiet'
  <2> SUFFICES ASSUME Connected(Dev)', NEW k \in {1, 2}, k # cur'[Dev] PROVE up'[<<Dev, k>>] = <<>>
    BY DEF OldQuiet
  <2>1. <<Dev, k>> \in Conns
    BY ConnFacts DEF Conns
  <2>2. CASE w = Dev
    <3>1. <<Dev, k>> # c
      BY <1>4, <2>2 DEF c
    <3> QED BY <1>2, <1>9, <2>1, <2>2, <3>1
  <2>3. CASE w # Dev
    <3>1. <<Dev, k>> # c
      BY <2>3 DEF c
    <3>2. Connected(Dev) /\ cur'[Dev] = cur[Dev]
      BY <1>5, <2>3, ConnFacts
    <3> QED BY <1>9, <2>1, <3>1, <3>2 DEF Agree, OldQuiet
  <2> QED BY <2>2, <2>3
<1>13. CacheTrue'
  <2>1. CASE w = Dev
    <3>1. up'[Conn(Dev)'] = greeting(Dev)
      BY <1>4, <1>9, <2>1
    <3> QED BY <1>2, <1>7, <3>1, GreetingShows DEF CacheTrue, devVars
  <2>2. CASE w # Dev
    <3> SUFFICES ASSUME DevOpen' PROVE CacheTrue'
      BY DEF CacheTrue
    <3>1. /\ Connected(Dev) /\ Conn(Dev)' = Conn(Dev) /\ Conn(Dev) # c
          /\ link'[Conn(Dev)] = "open"
      BY <1>5, <2>2, ConnFacts DEF DevOpen
    <3>2. Conn(Dev) \in Conns
      BY <3>1, ConnFacts
    <3>3. DevOpen /\ up'[Conn(Dev)] = up[Conn(Dev)]
      BY <1>6, <1>9, <3>1, <3>2 DEF DevOpen
    <3> QED BY <1>2, <3>1, <3>3 DEF Agree, CacheTrue, relayVars, devVars
  <2> QED BY <2>1, <2>2
<1>14. ASSUME NEW u \in Uis PROVE RelayShown(u)' /\ SettingsTrue(u)'
  <2> SUFFICES ASSUME Registered(u)' PROVE RelayShown(u)' /\ SettingsTrue(u)'
    BY DEF RelayShown, SettingsTrue
  <2>1. u # w
    BY <1>2, <1>3, <1>4 DEF Registered, relayVars
  <2>2. Conn(u)' = Conn(u) /\ Connected(u) /\ Conn(u) # c /\ Conn(u) \in Conns
    BY <1>5, <2>1, ConnFacts DEF Registered
  <2>3. /\ up'[Conn(u)] = up[Conn(u)] /\ down'[Conn(u)] = down[Conn(u)]
        /\ link'[Conn(u)] = link[Conn(u)]
    BY <1>2, <1>6, <1>9, <2>2
  <2>4. Registered(u)
    BY <1>2, <2>2, <2>3 DEF Registered, relayVars
  <2>5. RelayShown(u)'
    BY <1>2, <2>2, <2>3, <2>4 DEF RelayShown, Agree, relayVars, pageVars
  <2>6. SettingsTrue(u)'
    <3> SUFFICES ASSUME DevHere', ~unread' PROVE Asked(u)' \/ Answered' \/ Coming(u)'
      BY DEF SettingsTrue
    <3>1. /\ Connected(Dev)' /\ link'[Conn(Dev)'] = "open" /\ Conn(Dev)' \in devices
          /\ ~unread /\ settings' = settings
      BY <1>2 DEF DevHere, DevOpen, relayVars, devVars
    <3>2. w # Dev
      BY <1>3, <1>4, <3>1
    <3>3. Connected(Dev) /\ Conn(Dev)' = Conn(Dev) /\ Conn(Dev) # c /\ Conn(Dev) \in Conns
      BY <1>5, <3>1, <3>2, ConnFacts
    <3>4. up'[Conn(Dev)] = up[Conn(Dev)] /\ down'[Conn(Dev)] = down[Conn(Dev)] /\ DevHere
      BY <1>2, <1>6, <1>9, <3>1, <3>3 DEF DevHere, DevOpen
    <3>5. Asked(u) => Asked(u)'
      BY <2>2, <2>3, <3>3, <3>4 DEF Asked
    <3>6. Coming(u) => Coming(u)'
      BY <1>2, <2>2, <2>3, <3>1, <3>3, <3>4 DEF Coming, Forms, pageVars
    <3>7. Answered => Answered'
      BY <3>1, <3>3, <3>4 DEF Answered, Forms
    <3> QED BY <2>4, <3>1, <3>4, <3>5, <3>6, <3>7 DEF Agree, SettingsTrue
  <2> QED BY <2>5, <2>6
<1> QED BY <1>10, <1>11, <1>12, <1>13, <1>14 DEF Agree

-----------------------------------------------------------------------------
(* The master's and the pages' own steps.                                  *)
LEMMA DevSaid ==
  ASSUME IInv, NEW m \in DevNews, say(Dev, <<m>>), UNCHANGED cur
  PROVE  /\ UpTyped(up') /\ OldQuiet'
         /\ \A e \in Conns : e # Conn(Dev) => up'[e] = up[e]
         /\ DevOpen => up'[Conn(Dev)] = Append(up[Conn(Dev)], m)
<1> USE DEF IInv
<1>1. CASE ~DevOpen
  <2>1. up' = up
    BY <1>1 DEF say, DevOpen
  <2> QED BY <1>1, <2>1 DEF MessagesOK, Agree, OldQuiet, Connected
<1>2. CASE DevOpen
  <2>1. Conn(Dev) \in Conns /\ Conn(Dev)[1] = Dev /\ up[Conn(Dev)] \in Seq(DevNews)
    BY <1>2, ConnFacts, MessageFacts DEF DevOpen
  <2>2. Append(up[Conn(Dev)], m) \in Seq(DevNews) /\ Append(up[Conn(Dev)], m) \in Seq(Messages)
    <3>1. m \in Messages /\ up[Conn(Dev)] \in Seq(Messages)
      BY <2>1 DEF Messages, MessagesOK, UpTyped, Queues
    <3> QED BY <2>1, <3>1
  <2>3. up' = [up EXCEPT ![Conn(Dev)] = Append(up[Conn(Dev)], m)]
    <3>1. up[Conn(Dev)] \o <<m>> = Append(up[Conn(Dev)], m)
      BY <2>1
    <3> QED BY <1>2, <3>1 DEF say, DevOpen
  <2>4. /\ UpTyped(up') /\ up'[Conn(Dev)] = Append(up[Conn(Dev)], m)
        /\ \A e \in Conns : e # Conn(Dev) => up'[e] = up[e]
    BY <2>1, <2>2, <2>3 DEF MessagesOK, UpTyped, Queues
  <2>5. OldQuiet'
    <3> SUFFICES ASSUME NEW n \in {1, 2}, n # cur[Dev] PROVE up'[<<Dev, n>>] = <<>>
      BY DEF OldQuiet, Connected
    <3>1. up[<<Dev, n>>] = <<>> /\ <<Dev, n>> \in Conns /\ <<Dev, n>> # Conn(Dev)
      BY <1>2, ConnFacts DEF Agree, OldQuiet, DevOpen, Conns, Conn
    <3> QED BY <2>4, <3>1
  <2> QED BY <2>4, <2>5
<1> QED BY <1>1, <1>2

LEMMA UiSaid ==
  ASSUME IInv, NEW u \in Uis, NEW m \in UiSays, say(u, <<m>>), UNCHANGED cur
  PROVE  /\ UpTyped(up') /\ OldQuiet'
         /\ \A e \in Conns : e # Conn(u) => up'[e] = up[e]
         /\ Connected(u) /\ link[Conn(u)] = "open" => up'[Conn(u)] # <<>>
<1> USE DEF IInv
<1>1. CASE ~(Connected(u) /\ link[Conn(u)] = "open")
  <2>1. up' = up
    BY <1>1 DEF say
  <2> QED BY <1>1, <2>1 DEF MessagesOK, Agree, OldQuiet, Connected
<1>2. CASE Connected(u) /\ link[Conn(u)] = "open"
  <2>1. Conn(u) \in Conns /\ Conn(u)[1] # Dev /\ up[Conn(u)] \in Seq(UiSays)
    BY <1>2, ConnFacts, MessageFacts
  <2>2. Append(up[Conn(u)], m) \in Seq(UiSays) /\ Append(up[Conn(u)], m) \in Seq(Messages)
    <3>1. m \in Messages /\ up[Conn(u)] \in Seq(Messages)
      BY <2>1 DEF Messages, MessagesOK, UpTyped, Queues
    <3> QED BY <2>1, <3>1
  <2>3. up' = [up EXCEPT ![Conn(u)] = Append(up[Conn(u)], m)]
    <3>1. up[Conn(u)] \o <<m>> = Append(up[Conn(u)], m)
      BY <2>1
    <3> QED BY <1>2, <3>1 DEF say
  <2>4. /\ UpTyped(up') /\ up'[Conn(u)] = Append(up[Conn(u)], m)
        /\ \A e \in Conns : e # Conn(u) => up'[e] = up[e]
    BY <2>1, <2>2, <2>3 DEF MessagesOK, UpTyped, Queues
  <2>5. OldQuiet'
    <3> SUFFICES ASSUME Connected(Dev), NEW n \in {1, 2}, n # cur[Dev] PROVE up'[<<Dev, n>>] = <<>>
      BY DEF OldQuiet, Connected
    <3>1. <<Dev, n>> \in Conns /\ <<Dev, n>>[1] = Dev
      BY ConnFacts DEF Conns
    <3>2. up[<<Dev, n>>] = <<>>
      BY DEF Agree, OldQuiet
    <3> QED BY <2>1, <2>4, <3>1, <3>2
  <2>6. Append(up[Conn(u)], m) # <<>>
    BY <2>1
  <2> QED BY <2>4, <2>5, <2>6
<1> QED BY <1>1, <1>2

LEMMA SaidNothing ==
  ASSUME IInv, NEW w \in Clients, say(w, <<>>)
  PROVE  up' = up
<1> USE DEF IInv
<1>1. CASE Connected(w) /\ link[Conn(w)] = "open"
  <2>1. Conn(w) \in Conns /\ up[Conn(w)] \in Seq(Messages) /\ up \in [Conns -> Seq(Messages)]
    BY <1>1, ConnFacts DEF MessagesOK, UpTyped, Queues
  <2>2. up[Conn(w)] \o <<>> = up[Conn(w)]
    BY <2>1
  <2> QED BY <1>1, <2>1, <2>2 DEF say
<1>2. CASE ~(Connected(w) /\ link[Conn(w)] = "open")
  BY <1>2 DEF say
<1> QED BY <1>1, <1>2
(* What the master takes for its settings is one of their contents.        *)
LEMMA ReadsValues ==
  ASSUME NEW v \in Values
  PROVE  reads(v) \in Values
BY DashboardAssumption DEF reads

(* The master says m of what it now is; the settings only when it answers. *)
Says(m) ==
  /\ m \in Shared /\ say(Dev, <<m>>) /\ DevTyped'
  /\ DownTyped(down') /\ \A e \in Conns : e # Conn(Dev) => down'[e] = down[e]
  /\ IF m.t = "status" THEN paired' = m.paired ELSE paired' = paired
  /\ IF m.t = "presence" THEN present' = m.present ELSE present' = present
  /\ IF m.t = "settings" THEN reads(settings') = m.form ELSE UNCHANGED <<settings, unread, down>>
  /\ UNCHANGED <<link, cur, relayVars, pageVars>>

LEMMA SaysKeeps ==
  ASSUME IInv, NEW m \in Shared, Says(m)
  PROVE  IInv'
<1> USE DEF IInv
<1>1. /\ m \in DevNews /\ say(Dev, <<m>>) /\ DevTyped'
      /\ UNCHANGED <<link, cur, relayVars, pageVars>>
  BY DEF Says, DevNews
<1>2. /\ UpTyped(up') /\ OldQuiet'
      /\ \A e \in Conns : e # Conn(Dev) => up'[e] = up[e]
      /\ DevOpen => up'[Conn(Dev)] = Append(up[Conn(Dev)], m)
  BY <1>1, DevSaid
<1>3. DownTyped(down') /\ \A e \in Conns : e # Conn(Dev) => down'[e] = down[e]
  BY DEF Says
<1>4. \A w : Conn(w)' = Conn(w) /\ Connected(w)' = Connected(w)
  BY <1>1 DEF Conn, Connected
<1>5. TypeOK'
  BY <1>1, <1>4 DEF TypeOK, DevTyped, relayVars, pageVars
<1>6. MessagesOK'
  BY <1>2, <1>3 DEF MessagesOK
<1>7. DevOpen' = DevOpen /\ DevHere' = DevHere
  BY <1>1, <1>4 DEF DevOpen, DevHere, relayVars
<1>8. DevOpen => /\ up[Conn(Dev)] \in Seq(DevNews)
                 /\ \A sh : Shows(up'[Conn(Dev)], m.t, sh, Body(m))
                 /\ \A k, sh, v : m.t # k /\ Shows(up[Conn(Dev)], k, sh, v)
                                    => Shows(up'[Conn(Dev)], k, sh, v)
  <2> SUFFICES ASSUME DevOpen
               PROVE  /\ up[Conn(Dev)] \in Seq(DevNews)
                      /\ \A sh : Shows(Append(up[Conn(Dev)], m), m.t, sh, Body(m))
                      /\ \A k, sh, v : m.t # k /\ Shows(up[Conn(Dev)], k, sh, v)
                                         => Shows(Append(up[Conn(Dev)], m), k, sh, v)
    BY <1>2
  <2>1. up[Conn(Dev)] \in Seq(DevNews)
    BY MessageFacts DEF DevOpen
  <2> QED BY <1>1, <2>1, ShowsNew, ShowsOther
<1>9. CacheTrue'
  <2> SUFFICES ASSUME DevOpen
               PROVE  /\ Shows(up'[Conn(Dev)], "status", lastStatus, paired')
                      /\ present' # Unknown =>
                           Shows(up'[Conn(Dev)], "presence", lastPresence, present')
    BY <1>1, <1>4, <1>7 DEF CacheTrue, relayVars
  <2>1. /\ Shows(up[Conn(Dev)], "status", lastStatus, paired)
        /\ present # Unknown => Shows(up[Conn(Dev)], "presence", lastPresence, present)
    BY DEF Agree, CacheTrue
  <2>2. Shows(up'[Conn(Dev)], "status", lastStatus, paired')
    <3>1. CASE m.t = "status"
      BY <1>8, <3>1, SharedKinds DEF Says
    <3>2. CASE m.t # "status"
      BY <1>8, <2>1, <3>2 DEF Says
    <3> QED BY <3>1, <3>2
  <2>3. present' # Unknown => Shows(up'[Conn(Dev)], "presence", lastPresence, present')
    <3>1. CASE m.t = "presence"
      BY <1>8, <3>1, SharedKinds DEF Says
    <3>2. CASE m.t # "presence"
      BY <1>8, <2>1, <3>2 DEF Says
    <3> QED BY <3>1, <3>2
  <2> QED BY <2>2, <2>3
<1>10. ASSUME NEW u \in Uis PROVE RelayShown(u)' /\ SettingsTrue(u)'
  <2> SUFFICES ASSUME Registered(u)' PROVE RelayShown(u)' /\ SettingsTrue(u)'
    BY DEF RelayShown, SettingsTrue
  <2>1. Registered(u) /\ Connected(u) /\ Conn(u) \in Conns /\ Conn(u) # Conn(Dev)
    BY <1>1, <1>4, ConnFacts DEF Registered, relayVars
  <2>2. Conn(u)' = Conn(u) /\ down'[Conn(u)] = down[Conn(u)] /\ up'[Conn(u)] = up[Conn(u)]
    BY <1>2, <1>3, <1>4, <2>1
  <2>3. RelayShown(u)'
    BY <1>1, <2>1, <2>2 DEF Agree, RelayShown, relayVars, pageVars
  <2>4. SettingsTrue(u)'
    <3> SUFFICES ASSUME DevHere, ~unread' PROVE Asked(u)' \/ Answered' \/ Coming(u)'
      BY <1>7 DEF SettingsTrue
    <3>0. DevOpen /\ Conn(Dev)' = Conn(Dev)
      BY <1>4 DEF DevHere
    <3>1. CASE m.t = "settings"
      <4>1. reads(settings') = Body(m)
        BY <3>1, SharedKinds DEF Says
      <4>2. Answered'
        BY <1>8, <3>0, <3>1, <4>1 DEF Answered
      <4> QED BY <4>2
    <3>2. CASE m.t # "settings"
      <4>1. UNCHANGED <<settings, unread, down>>
        BY <3>2 DEF Says
      <4>2. Asked(u) => Asked(u)'
        BY <2>2, <3>0, <4>1 DEF Asked
      <4>3. Answered => Answered'
        BY <1>8, <3>0, <3>2, <4>1 DEF Answered, Forms
      <4>4. Coming(u) => Coming(u)'
        <5> SUFFICES ASSUME NEW x \in Forms, Shows(down[Conn(u)], "settings", form[u], x),
                            Shows(up[Conn(Dev)], "settings", x, reads(settings))
                     PROVE  Coming(u)'
          BY DEF Coming
        <5>1. Shows(up'[Conn(Dev)], "settings", x, reads(settings))
          BY <1>8, <3>0, <3>2
        <5>2. form' = form
          BY <1>1 DEF pageVars
        <5> QED BY <2>2, <3>0, <4>1, <5>1, <5>2 DEF Coming, Forms
      <4> QED BY <2>1, <4>1, <4>2, <4>3, <4>4 DEF Agree, SettingsTrue
    <3> QED BY <3>1, <3>2
  <2> QED BY <2>3, <2>4
<1> QED BY <1>2, <1>5, <1>6, <1>9, <1>10 DEF Agree

(* The master says nothing; if it took a request, it could not read the    *)
(* settings.                                                               *)
LEMMA SilenceKeeps ==
  ASSUME IInv, DevTyped', UNCHANGED <<up, link, cur, relayVars, pageVars, paired, present>>,
         DownTyped(down'), \A e \in Conns : e # Conn(Dev) => down'[e] = down[e],
         unread' \/ UNCHANGED <<down, settings, unread>>
  PROVE  IInv'
<1> USE DEF IInv
<1>1. \A w : Conn(w)' = Conn(w) /\ Connected(w)' = Connected(w)
  BY DEF Conn, Connected
<1>2. TypeOK'
  BY <1>1 DEF TypeOK, DevTyped, relayVars, pageVars
<1>3. MessagesOK'
  BY DEF MessagesOK
<1>4. DevOpen' = DevOpen /\ DevHere' = DevHere
  BY <1>1 DEF DevOpen, DevHere, relayVars
<1>5. OldQuiet' /\ CacheTrue'
  BY <1>1, <1>4 DEF Agree, OldQuiet, CacheTrue, relayVars
<1>6. ASSUME NEW u \in Uis PROVE RelayShown(u)' /\ SettingsTrue(u)'
  <2> SUFFICES ASSUME Registered(u)' PROVE RelayShown(u)' /\ SettingsTrue(u)'
    BY DEF RelayShown, SettingsTrue
  <2>1. Registered(u) /\ Connected(u) /\ Conn(u) \in Conns /\ Conn(u) # Conn(Dev)
    BY <1>1, ConnFacts DEF Registered, relayVars
  <2>2. Conn(u)' = Conn(u) /\ down'[Conn(u)] = down[Conn(u)]
    BY <1>1, <2>1
  <2>3. RelayShown(u)'
    BY <2>1, <2>2 DEF Agree, RelayShown, relayVars, pageVars
  <2>4. SettingsTrue(u)'
    <3> SUFFICES ASSUME DevHere, ~unread' PROVE Asked(u)' \/ Answered' \/ Coming(u)'
      BY <1>4 DEF SettingsTrue
    <3>1. UNCHANGED <<down, settings, unread>>
      OBVIOUS
    <3>2. (Asked(u) => Asked(u)') /\ (Answered => Answered')
      BY <1>1, <3>1 DEF Asked, Answered, Forms
    <3>3. Coming(u) => Coming(u)'
      BY <1>1, <3>1 DEF Coming, Forms, pageVars
    <3> QED BY <2>1, <3>1, <3>2, <3>3 DEF Agree, SettingsTrue
  <2> QED BY <2>3, <2>4
<1> QED BY <1>2, <1>3, <1>5, <1>6 DEF Agree
LEMMA NewsKeeps ==
  ASSUME IInv, Paired \/ PresenceHeard
  PROVE  IInv'
<1>1. DevTyped /\ DownTyped(down)
  BY DEF IInv, TypeOK, DevTyped, MessagesOK
<1>2. CASE Paired
  <2>1. Status(TRUE) \in Shared /\ Status(TRUE).t = "status" /\ Status(TRUE).paired = TRUE
    BY DEF Shared, Status
  <2>2. Says(Status(TRUE))
    BY <1>1, <1>2, <2>1 DEF Paired, Says, DevTyped
  <2> QED BY <2>1, <2>2, SaysKeeps
<1>3. CASE PresenceHeard
  <2>1. PICK p \in {"yes", "no"} : present' = p /\ say(Dev, <<Presence(p)>>)
    BY <1>3 DEF PresenceHeard
  <2>2. Presence(p) \in Shared /\ Presence(p).t = "presence" /\ Presence(p).present = p
    BY DEF Shared, Presences, Presence
  <2>3. Says(Presence(p))
    BY <1>1, <1>3, <2>1, <2>2 DEF PresenceHeard, Says, DevTyped
  <2> QED BY <2>2, <2>3, SaysKeeps
<1> QED BY <1>2, <1>3

(* A request that cannot be answered must not leave a promise behind: it   *)
(* is only then that unread is set.                                        *)
LEMMA CommandKeeps ==
  ASSUME IInv, NEW stored \in BOOLEAN, NEW read \in BOOLEAN, on_command(stored, read)
  PROVE  IInv'
<1> DEFINE m == Head(down[Conn(Dev)])
<1>1. /\ Conn(Dev) \in Conns /\ Conn(Dev)[1] = Dev
      /\ down[Conn(Dev)] \in Seq(Requests) /\ down[Conn(Dev)] # <<>>
  BY ConnFacts, MessageFacts DEF IInv, on_command
<1>2. m \in Requests /\ Tail(down[Conn(Dev)]) \in Seq(Requests)
        /\ Tail(down[Conn(Dev)]) \in Seq(Messages)
  <2>1. Requests \subseteq Messages
    BY DEF Messages, UiSays
  <2>2. m \in Requests /\ Tail(down[Conn(Dev)]) \in Seq(Requests)
    BY <1>1
  <2>3. \A q \in Seq(Requests) : q \in Seq(Messages)
    BY <2>1
  <2> QED BY <2>2, <2>3
<1>3. /\ down' = [down EXCEPT ![Conn(Dev)] = Tail(down[Conn(Dev)])]
      /\ IF m.t = "set" /\ ~stored THEN settings' \in Values
         ELSE settings' = IF m.t = "set" THEN m.form ELSE settings
      /\ send_settings(read)
      /\ UNCHANGED <<link, cur, relayVars, wifi, paired, present, pageVars>>
  BY DEF on_command
<1> HIDE DEF m
<1>4. DownTyped(down') /\ \A e \in Conns : e # Conn(Dev) => down'[e] = down[e]
  BY <1>1, <1>2, <1>3 DEF IInv, MessagesOK, DownTyped, Queues
<1>5. settings' \in Values
  BY <1>2, <1>3, RequestKinds DEF IInv, TypeOK
<1>6. unread' = ~read /\ say(Dev, IF read THEN <<Settings(reads(settings'))>> ELSE <<>>)
  BY <1>3 DEF send_settings
<1>7. DevTyped'
  BY <1>3, <1>5, <1>6 DEF IInv, TypeOK, DevTyped
<1>8. CASE read
  <2>0. reads(settings') \in Values
    BY <1>5, ReadsValues
  <2>1. /\ Settings(reads(settings')) \in Shared
        /\ Settings(reads(settings')).t = "settings"
        /\ Settings(reads(settings')).form = reads(settings')
    BY <2>0 DEF Shared, Settings
  <2>2. Says(Settings(reads(settings')))
    BY <1>3, <1>4, <1>6, <1>7, <1>8, <2>1 DEF Says
  <2> QED BY <2>1, <2>2, SaysKeeps
<1>9. CASE ~read
  <2>1. up' = up
    BY <1>6, <1>9, SaidNothing, ConnFacts DEF IInv
  <2> QED BY <1>3, <1>4, <1>6, <1>7, <1>9, <2>1, SilenceKeeps
<1> QED BY <1>8, <1>9

LEMMA RadioKeeps ==
  ASSUME IInv, WifiJoins \/ WifiFails \/ WifiRetry
  PROVE  IInv'
<1>1. DevTyped' /\ UNCHANGED <<paired, present, settings, unread>> /\ steady
  BY DEF WifiJoins, WifiFails, WifiRetry, radio, DevTyped, IInv, TypeOK
<1>2. DownTyped(down)
  BY DEF IInv, MessagesOK
<1> QED BY <1>1, <1>2, SilenceKeeps DEF steady

(* A page's step leaves the master and the other pages alone.              *)
PageActs(u) ==
  /\ Connected(u) /\ UpTyped(up') /\ OldQuiet' /\ DownTyped(down')
  /\ \A e \in Conns : e # Conn(u) => up'[e] = up[e] /\ down'[e] = down[e]
  /\ online' \in [Uis -> BOOLEAN] /\ shownPaired' \in [Uis -> BOOLEAN]
  /\ shownPresence' \in [Uis -> {Unknown, "yes", "no"}] /\ form' \in [Uis -> Forms]
  /\ \A v \in Uis : v # u => /\ online'[v] = online[v] /\ shownPaired'[v] = shownPaired[v]
                             /\ shownPresence'[v] = shownPresence[v] /\ form'[v] = form[v]
  /\ UNCHANGED <<link, cur, relayVars, devVars>>

LEMMA PageActsKeeps ==
  ASSUME IInv, NEW u \in Uis, PageActs(u),
         Registered(u) => RelayShown(u)' /\ (DevHere /\ ~unread => Asked(u)' \/ Answered' \/ Coming(u)')
  PROVE  IInv'
<1> USE DEF IInv
<1>1. UNCHANGED <<link, cur, relayVars, devVars>>
  BY DEF PageActs
<1>2. \A w : Conn(w)' = Conn(w) /\ Connected(w)' = Connected(w)
  BY <1>1 DEF Conn, Connected
<1>3. TypeOK'
  BY <1>1, <1>2 DEF PageActs, TypeOK, relayVars, devVars, Forms
<1>4. MessagesOK'
  BY DEF PageActs, MessagesOK
<1>5. DevOpen' = DevOpen /\ DevHere' = DevHere /\ \A v : Registered(v)' = Registered(v)
  BY <1>1, <1>2 DEF DevOpen, DevHere, Registered, relayVars
<1>6. /\ \A v \in Uis : Conn(v) # Conn(Dev)
      /\ Connected(Dev) => /\ Conn(Dev) \in Conns
                           /\ up'[Conn(Dev)] = up[Conn(Dev)] /\ down'[Conn(Dev)] = down[Conn(Dev)]
  <2>1. (\A v \in Uis : Conn(v) # Conn(Dev)) /\ (Connected(Dev) => Conn(Dev) \in Conns)
    BY ConnFacts
  <2> QED BY <2>1 DEF PageActs
<1>7. CacheTrue'
  BY <1>1, <1>2, <1>5, <1>6 DEF Agree, CacheTrue, DevOpen, relayVars, devVars
<1>8. ASSUME NEW v \in Uis PROVE RelayShown(v)' /\ SettingsTrue(v)'
  <2> SUFFICES ASSUME Registered(v) PROVE RelayShown(v)' /\ SettingsTrue(v)'
    BY <1>5 DEF RelayShown, SettingsTrue
  <2>1. CASE v = u
    <3>1. unread' = unread
      BY <1>1 DEF devVars
    <3> QED BY <1>5, <2>1, <3>1 DEF SettingsTrue
  <2>2. CASE v # u
    <3>1. Connected(v) /\ Conn(v) \in Conns /\ Conn(v) # Conn(u) /\ Conn(v)' = Conn(v)
      BY <1>2, <2>2, ConnFacts DEF Registered
    <3>2. up'[Conn(v)] = up[Conn(v)] /\ down'[Conn(v)] = down[Conn(v)]
      BY <3>1 DEF PageActs
    <3>3. /\ online'[v] = online[v] /\ shownPaired'[v] = shownPaired[v]
          /\ shownPresence'[v] = shownPresence[v] /\ form'[v] = form[v]
      BY <2>2 DEF PageActs
    <3>4. RelayShown(v)'
      BY <1>1, <3>1, <3>2, <3>3 DEF Agree, RelayShown, relayVars
    <3>5. SettingsTrue(v)'
      <4> SUFFICES ASSUME DevHere, ~unread PROVE Asked(v)' \/ Answered' \/ Coming(v)'
        BY <1>1, <1>5 DEF SettingsTrue, devVars
      <4>1. Connected(Dev) /\ Conn(Dev)' = Conn(Dev) /\ settings' = settings
        BY <1>1, <1>2 DEF DevHere, DevOpen, devVars
      <4>2. Asked(v) => Asked(v)'
        BY <1>6, <3>1, <3>2, <4>1 DEF Asked
      <4>3. Answered => Answered'
        BY <1>6, <4>1 DEF Answered, Forms
      <4>4. Coming(v) => Coming(v)'
        BY <1>6, <3>1, <3>2, <3>3, <4>1 DEF Coming, Forms
      <4> QED BY <4>2, <4>3, <4>4 DEF Agree, SettingsTrue
    <3> QED BY <3>4, <3>5
  <2> QED BY <2>1, <2>2
<1> QED BY <1>3, <1>4, <1>7, <1>8 DEF PageActs, Agree

LEMMA SaveKeeps ==
  ASSUME IInv, NEW u \in Uis, NEW v \in Values, Save(u, v)
  PROVE  IInv'
<1>1. Set(v) \in UiSays
  BY DEF UiSays, Requests
<1>2. /\ Connected(u) /\ form' = [form EXCEPT ![u] = v] /\ say(u, <<Set(v)>>)
      /\ UNCHANGED <<link, down, cur, relayVars, devVars, online, shownPaired, shownPresence>>
  BY DEF Save
<1>3. /\ UpTyped(up') /\ OldQuiet' /\ \A e \in Conns : e # Conn(u) => up'[e] = up[e]
      /\ Connected(u) /\ link[Conn(u)] = "open" => up'[Conn(u)] # <<>>
  BY <1>1, <1>2, UiSaid
<1>4. PageActs(u)
  BY <1>2, <1>3 DEF PageActs, IInv, TypeOK, MessagesOK, Forms
<1>5. Conn(u)' = Conn(u) /\ Registered(u)' = Registered(u)
  BY <1>2 DEF Conn, Registered, Connected, relayVars
<1>6. ASSUME Registered(u) PROVE RelayShown(u)' /\ Asked(u)'
  <2>1. Asked(u)'
    BY <1>3, <1>5, <1>6 DEF Asked, Registered
  <2> QED BY <1>2, <1>5, <1>6, <2>1 DEF IInv, Agree, RelayShown, relayVars
<1> QED BY <1>4, <1>6, PageActsKeeps
LEMMA ReceiveKeeps ==
  ASSUME IInv, NEW u \in Uis, Receive(u)
  PROVE  IInv'
<1> DEFINE q == down[Conn(u)]
           m == Head(q)
<1>1. /\ Connected(u) /\ q # <<>> /\ Conn(u) \in Conns /\ Conn(u)[1] # Dev /\ Conn(u) # Conn(Dev)
      /\ q \in Seq(UiNews)
  BY ConnFacts, MessageFacts DEF IInv, Receive
<1>2. /\ online' = [online EXCEPT ![u] = IF m.t = "device" THEN m.on ELSE online[u]]
      /\ shownPaired' = [shownPaired EXCEPT ![u] = IF m.t = "status" THEN m.paired
                                                   ELSE shownPaired[u]]
      /\ shownPresence' = [shownPresence EXCEPT ![u] = IF m.t = "presence" THEN m.present
                                                       ELSE shownPresence[u]]
      /\ form' = [form EXCEPT ![u] = IF m.t = "settings" THEN m.form ELSE form[u]]
      /\ say(u, asks(m))
      /\ down' = [down EXCEPT ![Conn(u)] = Tail(q)]
      /\ UNCHANGED <<link, cur, relayVars, devVars>>
  BY DEF Receive
<1>3. m \in UiNews /\ Tail(q) \in Seq(UiNews) /\ Tail(q) \in Seq(Messages)
  <2>1. \A s \in Seq(UiNews) : s \in Seq(Messages)
    BY DEF Messages
  <2>2. m \in UiNews /\ Tail(q) \in Seq(UiNews)
    BY <1>1
  <2> QED BY <2>1, <2>2
<1>4. \A i \in 1..Len(q) : \/ i = 1 /\ q[i] = m
                           \/ i - 1 \in 1..Len(Tail(q)) /\ Tail(q)[i - 1] = q[i]
  BY <1>1
<1>5. /\ UpTyped(up') /\ OldQuiet' /\ \A e \in Conns : e # Conn(u) => up'[e] = up[e]
      /\ Registered(u) => (m = Device(TRUE) => up'[Conn(u)] # <<>>)
                          /\ (up[Conn(u)] # <<>> => up'[Conn(u)] # <<>>)
  <2>1. CASE m = Device(TRUE)
    <3>1. Get \in UiSays /\ say(u, <<Get>>)
      BY <1>2, <2>1 DEF UiSays, Requests, asks
    <3> QED BY <1>2, <3>1, UiSaid DEF Registered
  <2>2. CASE m # Device(TRUE)
    <3>1. up' = up
      BY <1>2, <2>2, SaidNothing, ConnFacts DEF IInv, asks
    <3> QED BY <1>2, <2>2, <3>1 DEF IInv, MessagesOK, Agree, OldQuiet, Connected
  <2> QED BY <2>1, <2>2
<1>6. DownTyped(down') /\ down'[Conn(u)] = Tail(q) /\ \A e \in Conns : e # Conn(u) => down'[e] = down[e]
  BY <1>1, <1>2, <1>3 DEF IInv, MessagesOK, DownTyped, Queues
<1> HIDE DEF m, q
<1>7. /\ online' \in [Uis -> BOOLEAN] /\ shownPaired' \in [Uis -> BOOLEAN]
      /\ shownPresence' \in [Uis -> {Unknown, "yes", "no"}] /\ form' \in [Uis -> Forms]
  <2>1. /\ m.t = "device" => m.on \in BOOLEAN
        /\ m.t = "status" => m.paired \in BOOLEAN
        /\ m.t = "presence" => m.present \in {Unknown, "yes", "no"}
        /\ m.t = "settings" => m.form \in Forms
    BY <1>3, UiKinds DEF Presences, Forms
  <2>2. /\ online \in [Uis -> BOOLEAN] /\ shownPaired \in [Uis -> BOOLEAN]
        /\ shownPresence \in [Uis -> {Unknown, "yes", "no"}] /\ form \in [Uis -> Forms]
    BY DEF IInv, TypeOK, Forms
  <2>3. online' \in [Uis -> BOOLEAN]
    BY <1>2, <2>1, <2>2
  <2>4. shownPaired' \in [Uis -> BOOLEAN]
    BY <1>2, <2>1, <2>2
  <2>5. shownPresence' \in [Uis -> {Unknown, "yes", "no"}]
    BY <1>2, <2>1, <2>2
  <2>6. form' \in [Uis -> Forms]
    BY <1>2, <2>1, <2>2
  <2> QED BY <2>3, <2>4, <2>5, <2>6
<1>8. /\ online'[u] = IF m.t = "device" THEN m.on ELSE online[u]
      /\ shownPaired'[u] = IF m.t = "status" THEN m.paired ELSE shownPaired[u]
      /\ shownPresence'[u] = IF m.t = "presence" THEN m.present ELSE shownPresence[u]
      /\ form'[u] = IF m.t = "settings" THEN m.form ELSE form[u]
  BY <1>2 DEF IInv, TypeOK
<1>9. PageActs(u)
  <2>1. \A v \in Uis : v # u => /\ online'[v] = online[v] /\ shownPaired'[v] = shownPaired[v]
                                /\ shownPresence'[v] = shownPresence[v] /\ form'[v] = form[v]
    BY <1>2 DEF IInv, TypeOK
  <2> QED BY <1>1, <1>2, <1>5, <1>6, <1>7, <2>1 DEF PageActs
<1>10. Conn(u)' = Conn(u) /\ Connected(u)' = Connected(u) /\ Conn(Dev)' = Conn(Dev)
  BY <1>2 DEF Conn, Connected
<1>11. ASSUME Registered(u) PROVE RelayShown(u)'
  <2>1. View(q, online[u], shownPaired[u], shownPresence[u], devices # {}, lastStatus, lastPresence)
    BY <1>11 DEF IInv, Agree, RelayShown, q
  <2>2. View(Tail(q), online'[u], shownPaired'[u], shownPresence'[u],
             devices # {}, lastStatus, lastPresence)
    BY <1>1, <1>8, <2>1, ViewTail DEF m
  <2>3. UNCHANGED <<devices, lastStatus, lastPresence>>
    BY <1>2 DEF relayVars
  <2> QED BY <1>6, <1>10, <2>2, <2>3 DEF RelayShown
<1>12. ASSUME Registered(u), DevHere, ~unread PROVE Asked(u)' \/ Answered' \/ Coming(u)'
  <2>1. Asked(u) \/ Answered \/ Coming(u)
    BY <1>12 DEF IInv, Agree, SettingsTrue
  <2>2. /\ Conn(Dev) \in Conns
        /\ up'[Conn(Dev)] = up[Conn(Dev)] /\ down'[Conn(Dev)] = down[Conn(Dev)]
        /\ settings' = settings
    BY <1>1, <1>2, <1>5, <1>6, <1>12, ConnFacts DEF IInv, DevHere, DevOpen, devVars
  <2>3. CASE Asked(u)
    <3>1. CASE \E i \in 1..Len(q) : q[i] = Device(TRUE)
      BY <1>4, <1>5, <1>6, <1>10, <1>12, <3>1 DEF Asked
    <3>2. CASE ~\E i \in 1..Len(q) : q[i] = Device(TRUE)
      BY <1>5, <1>10, <1>12, <2>2, <2>3, <3>2 DEF Asked, q
    <3> QED BY <3>1, <3>2
  <2>4. CASE Answered
    BY <1>10, <2>2, <2>4 DEF Answered, Forms
  <2>5. CASE Coming(u)
    <3>1. PICK x \in Forms : /\ Shows(q, "settings", form[u], x)
                             /\ Shows(up[Conn(Dev)], "settings", x, reads(settings))
      BY <2>5 DEF Coming, q
    <3>2. Shows(Tail(q), "settings", IF m.t = "settings" THEN Body(m) ELSE form[u], x)
      BY <1>1, <3>1, ShowsTail DEF m
    <3>3. Shows(Tail(q), "settings", form'[u], x)
      BY <1>3, <1>8, <3>2, UiKinds
    <3> QED BY <1>6, <1>10, <2>2, <3>1, <3>3 DEF Coming, Forms
  <2> QED BY <2>1, <2>3, <2>4, <2>5
<1> QED BY <1>9, <1>11, <1>12, PageActsKeeps
-----------------------------------------------------------------------------
(* The invariant holds.                                                    *)
LEMMA InitIInv == Init => IInv
<1> SUFFICES ASSUME Init PROVE IInv
  OBVIOUS
<1>1. \A w \in Clients : ~Connected(w) /\ cur[w] = 0
  BY DEF Init, Connected
<1>2. TypeOK
  <2>1. /\ link \in [Conns -> {"open", "half", "orphan", "closed"}] /\ cur \in [Clients -> 0..2]
    BY DEF Init
  <2>2. /\ devices = {} /\ uis = {}
        /\ lastStatus = FALSE /\ paired = FALSE /\ unread = FALSE
        /\ lastPresence = Unknown /\ present = Unknown /\ wifi = "joining" /\ settings \in Values
    BY DEF Init
  <2>3. /\ online \in [Uis -> BOOLEAN] /\ shownPaired \in [Uis -> BOOLEAN]
        /\ shownPresence \in [Uis -> {Unknown, "yes", "no"}]
        /\ form \in [Uis -> Values \cup {NoForm}]
    BY DEF Init
  <2> QED BY <1>1, <2>1, <2>2, <2>3 DEF TypeOK
<1>3. MessagesOK
  <2>1. \A S : <<>> \in Seq(S)
    OBVIOUS
  <2>2. /\ up \in [Conns -> Seq(Messages)] /\ down \in [Conns -> Seq(Messages)]
        /\ \A c \in Conns : up[c] = <<>> /\ down[c] = <<>>
    BY <2>1 DEF Init
  <2> QED BY <2>1, <2>2 DEF MessagesOK, UpTyped, DownTyped, Queues
<1>4. ~Connected(Dev) /\ \A u \in Uis : ~Connected(u)
  BY <1>1, <1>2, ConnFacts
<1>5. Agree
  BY <1>4 DEF Agree, OldQuiet, CacheTrue, DevOpen, RelayShown, SettingsTrue, Registered
<1> QED BY <1>2, <1>3, <1>5 DEF IInv

LEMMA ClosedKeeps ==
  ASSUME IInv, NEW c \in Conns, RelayNotices(c) \/ RelayLoses(c)
  PROVE  IInv'
<1>1. \E d : Ends(c, d)
  BY NoticesEnds, LosesEnds
<1> QED BY <1>1, ClosingKeeps

LEMMA ProgressKeeps ==
  ASSUME IInv, Progress
  PROVE  IInv'
<1>1. CASE Relay
  <2>1. PICK c \in Conns : RelayHears(c) \/ RelayNotices(c)
    BY <1>1 DEF Relay
  <2> QED BY <2>1, RelayHearsKeeps, ClosedKeeps
<1>2. CASE Client
  <2>1. PICK w \in Clients : Connect(w) \/ Notice(w)
    BY <1>2 DEF Client
  <2> QED BY <2>1, ConnectKeeps, NoticeKeeps
<1>3. CASE Master
  BY <1>3, RadioKeeps, CommandKeeps DEF Master
<1>4. CASE Page
  BY <1>4, ReceiveKeeps DEF Page
<1> QED BY <1>1, <1>2, <1>3, <1>4 DEF Progress

LEMMA StutterKeeps ==
  ASSUME IInv, UNCHANGED vars
  PROVE  IInv'
<1>1. /\ DevTyped' /\ UNCHANGED <<up, link, cur, relayVars, pageVars, paired, present>>
      /\ UNCHANGED <<down, settings, unread>>
  BY DEF vars, devVars, DevTyped, IInv, TypeOK
<1>2. DownTyped(down)
  BY DEF IInv, MessagesOK
<1> QED BY <1>1, <1>2, SilenceKeeps

LEMMA NextKeeps ==
  ASSUME IInv, [Next]_vars
  PROVE  IInv'
<1>1. CASE Progress
  BY <1>1, ProgressKeeps
<1>2. CASE Restart
  BY <1>2, RestartKeeps, FallsKeeps DEF Restart
<1>3. CASE WifiFalls
  BY <1>3, FallsKeeps
<1>4. ASSUME NEW w \in Clients, Break(w) PROVE IInv'
  <2>1. CASE Lose(w)
    BY <2>1, LoseKeeps
  <2>2. CASE Connected(w) /\ RelayLoses(Conn(w))
    <3>1. Conn(w) \in Conns
      BY <2>2, ConnFacts DEF IInv
    <3> QED BY <2>2, <3>1, ClosedKeeps
  <2> QED BY <1>4, <2>1, <2>2 DEF Break
<1>5. CASE WifiFails \/ NorFails \/ Paired \/ PresenceHeard
  BY <1>5, RadioKeeps, CommandKeeps, NewsKeeps DEF NorFails
<1>6. ASSUME NEW u \in Uis, NEW v \in Values, Save(u, v) PROVE IInv'
  BY <1>6, SaveKeeps
<1>7. CASE UNCHANGED vars
  BY <1>7, StutterKeeps
<1> QED BY <1>1, <1>2, <1>3, <1>4, <1>5, <1>6, <1>7 DEF Next

LEMMA IInvHolds == Spec => []IInv
BY InitIInv, NextKeeps, PTL DEF Spec

(* Whatever connects, drops or restarts in whatever order, at the client's *)
(* end first or at the relay's, the sets of server.js:44-48 hold only      *)
(* connections that it has not seen close, each in the set of its role,    *)
(* and every variable keeps its type.                                      *)
THEOREM TypeCorrect == Spec => []TypeOK
<1>1. IInv => TypeOK
  BY DEF IInv
<1> QED BY <1>1, IInvHolds, PTL

(* A queue that has been read shows what was before it.                    *)
LEMMA AgreeShown ==
  ASSUME IInv
  PROVE  PagesAgree
<1> USE DEF IInv
<1>1. ASSUME NEW u \in Uis, Told(u)
      PROVE  /\ online[u] = (devices # {}) /\ shownPaired[u] = lastStatus
             /\ lastPresence # Unknown => shownPresence[u] = lastPresence
  <2>1. View(<<>>, online[u], shownPaired[u], shownPresence[u],
             devices # {}, lastStatus, lastPresence)
    BY <1>1 DEF Told, Agree, RelayShown
  <2> QED BY <2>1, ShowsNothing DEF View
<1>2. ASSUME DeviceHeard
      PROVE  lastStatus = paired /\ (present # Unknown => lastPresence = present)
  <2>1. DevOpen /\ up[Conn(Dev)] = <<>>
    BY <1>2 DEF DeviceHeard, DevOpen
  <2>2. /\ Shows(<<>>, "status", lastStatus, paired)
        /\ present # Unknown => Shows(<<>>, "presence", lastPresence, present)
    BY <2>1 DEF Agree, CacheTrue
  <2> QED BY <2>2, ShowsNothing
<1>3. ASSUME NEW u \in Uis, Told(u), DeviceHeard, up[Conn(u)] = <<>>, down[Conn(Dev)] = <<>>, ~unread
      PROVE  form[u] = reads(settings)
  <2>1. /\ Registered(u) /\ down[Conn(u)] = <<>> /\ DevHere /\ up[Conn(Dev)] = <<>>
        /\ form[u] \in Forms
    BY <1>3 DEF Told, DeviceHeard, DevHere, DevOpen, TypeOK, Forms
  <2>2. ~Asked(u)
    BY <1>3, <2>1 DEF Asked
  <2>3. CASE Answered
    <3>1. Shows(<<>>, "settings", form[u], reads(settings))
      BY <2>1, <2>3 DEF Answered
    <3> QED BY <3>1, ShowsNothing
  <2>4. CASE Coming(u)
    <3>1. PICK x : Shows(<<>>, "settings", form[u], x) /\ Shows(<<>>, "settings", x, reads(settings))
      BY <2>1, <2>4 DEF Coming
    <3> QED BY <3>1, ShowsNothing
  <2> QED BY <1>3, <2>1, <2>2, <2>3, <2>4 DEF Agree, SettingsTrue
<1>4. OnlineShown
  BY <1>1 DEF OnlineShown
<1>5. StateShown
  BY <1>1, <1>2 DEF StateShown
<1>6. SettingsShown
  BY <1>3 DEF SettingsShown
<1> QED BY <1>4, <1>5, <1>6 DEF PagesAgree

(* server.js:80-110, web_link.cpp:242-259, app.js:20.  A page that has     *)
(* read what it was sent shows whether there is a master, and with the     *)
(* master heard, its pairing, its last presence and the settings as it     *)
(* reads them: for any number of pages, breaks, restarts and saves under   *)
(* way, and whichever contents of the memory it refuses.                   *)
THEOREM PagesAlwaysAgree == Spec => []PagesAgree
<1>1. IInv => PagesAgree
  BY AgreeShown
<1> QED BY <1>1, IInvHolds, PTL
==============================================================================
