------------------------------ MODULE Dashboard ------------------------------
(***************************************************************************)
(* The dashboard: browsers (app.js) and the master's web link              *)
(* (web_link.cpp), each on a WebSocket to a relay (server.js, and          *)
(* worker.js with the same handlers) that forwards between the two roles   *)
(* and keeps the last status and presence for pages that open later.       *)
(*                                                                         *)
(* A connection ends for its two sides at different moments.  It is        *)
(*   "open"    on both sides,                                              *)
(*   "half"    when the client has left and the relay has not noticed,     *)
(*   "orphan"  when the relay has left and the client has not noticed,     *)
(*   "closed"  otherwise.                                                  *)
(* Delivery is in order on one connection.  What the client still had on   *)
(* its way on an old connection arrives before it connects again (it waits *)
(* 2 or 3 s), but the relay may notice the end much later.                 *)
(*                                                                         *)
(* Events and the log, which are only appended to a page, are left out.    *)
(***************************************************************************)
EXTENDS Integers, Sequences, SequencesExt

CONSTANTS
  Uis,        (* the browsers                                              *)
  Dev,        (* the ESP32                                                 *)
  Values,     (* contents of the settings                                  *)
  Unreadable, (* those flash_get_settings refuses: a name with a byte      *)
              (* outside 0x20..0x7E, a limit of tries outside 1..30, ...   *)
  Default     (* what it returns instead, as if it had read it             *)

ASSUME DashboardAssumption ==
  /\ Dev \notin Uis
  /\ Unreadable \subseteq Values
  /\ Default \in Values \ Unreadable

VARIABLES
  link, up, down,              \* state and messages under way, per connection
  cur,                         \* each client's current connection, or 0
  devices, uis,                \* the relay's sets of connections
  lastStatus, lastPresence,    \* and its cache
  wifi,                        \* the ESP32's radio
  paired, present, settings,   \* slave_known, last_present, the NOR's settings
  online, shownPaired, shownPresence, form,   \* what each page shows
  unread                       \* history: the last read of the settings failed

relayVars == <<devices, uis, lastStatus, lastPresence>>
devVars   == <<wifi, paired, present, settings, unread>>
pageVars  == <<online, shownPaired, shownPresence, form>>
vars == <<link, up, down, cur, relayVars, devVars, pageVars>>

-----------------------------------------------------------------------------
Clients == Uis \cup {Dev}
Conns == Clients \X {1, 2}     (* at most one the relay takes for alive    *)
Unknown == "unknown"
NoForm == "none"

Hello       == [t |-> "hello"]
Device(b)   == [t |-> "device", on |-> b]
Status(b)   == [t |-> "status", paired |-> b]
Presence(p) == [t |-> "presence", present |-> p]
Settings(v) == [t |-> "settings", form |-> v]
Get         == [t |-> "get"]
Set(v)      == [t |-> "set", form |-> v]

Conn(w) == <<w, cur[w]>>
Connected(w) == cur[w] # 0

(* ws.send: nothing is sent on a connection that is not open.              *)
say(w, msgs) ==
  up' = IF Connected(w) /\ link[Conn(w)] = "open"
        THEN [up EXCEPT ![Conn(w)] = @ \o msgs] ELSE up

(* broadcast: to each connection of S in the order of msgs.                *)
posted(d, S, msgs) ==
  [c \in Conns |-> IF c \in S /\ link[c] = "open" THEN d[c] \o msgs ELSE d[c]]

-----------------------------------------------------------------------------
(* The relay.                                                              *)

Known(p) == IF p = Unknown THEN <<>> ELSE <<Presence(p)>>

welcome == <<Device(devices # {}), Status(lastStatus)>> \o Known(lastPresence)

OnHello(c) ==
  /\ IF c[1] = Dev
     THEN /\ devices' = devices \cup {c}
          /\ down' = posted(down, uis, <<Device(TRUE)>>)
          /\ UNCHANGED uis
     ELSE /\ uis' = uis \cup {c}
          /\ down' = posted(down, {c}, welcome)
          /\ UNCHANGED devices
  /\ UNCHANGED <<lastStatus, lastPresence>>

OnDevice(m) ==
  /\ lastStatus'   = IF m.t = "status" THEN m.paired ELSE lastStatus
  /\ lastPresence' = IF m.t = "presence" THEN m.present ELSE lastPresence
  /\ down' = posted(down, uis, <<m>>)
  /\ UNCHANGED <<devices, uis>>

OnUi(m) ==
  /\ down' = posted(down, devices, <<m>>)
  /\ UNCHANGED relayVars

RelayHears(c) ==
  /\ link[c] \in {"open", "half"} /\ up[c] # <<>>
  /\ up' = [up EXCEPT ![c] = Tail(@)]
  /\ LET m == Head(up[c])
     IN  \/ m = Hello /\ OnHello(c)
         \/ m # Hello /\ c \in devices /\ OnDevice(m)
         \/ m # Hello /\ c \in uis /\ OnUi(m)
  /\ UNCHANGED <<link, cur, devVars, pageVars>>

(* The close event.  Faulty variants: the sets are not updated; the pages  *)
(* are told that there is no device although another connection is there.  *)
closes_kept(c, d) ==
  /\ down' = IF c \in devices THEN posted(d, uis \ {c}, <<Device(devices \ {c} # {})>>) ELSE d
  /\ UNCHANGED relayVars
closes_offline(c, d) ==
  /\ devices' = devices \ {c} /\ uis' = uis \ {c}
  /\ down' = IF c \in devices THEN posted(d, uis', <<Device(FALSE)>>) ELSE d
  /\ UNCHANGED <<lastStatus, lastPresence>>
closes(c, d) ==
  /\ devices' = devices \ {c} /\ uis' = uis \ {c}
  /\ down' = IF c \in devices THEN posted(d, uis', <<Device(devices' # {})>>) ELSE d
  /\ UNCHANGED <<lastStatus, lastPresence>>

RelayNotices(c) ==
  /\ link[c] = "half" /\ up[c] = <<>>
  /\ link' = [link EXCEPT ![c] = "closed"]
  /\ closes(c, down)
  /\ UNCHANGED <<up, cur, devVars, pageVars>>

RelayLoses(c) ==
  /\ link[c] = "open"
  /\ link' = [link EXCEPT ![c] = "orphan"]
  /\ up' = [up EXCEPT ![c] = <<>>]
  /\ closes(c, down)
  /\ UNCHANGED <<cur, devVars, pageVars>>

(* A restart (for the worker: of its Durable Object) forgets everything.   *)
RelayRestarts ==
  /\ devices' = {} /\ uis' = {} /\ lastStatus' = FALSE /\ lastPresence' = Unknown
  /\ link' = [c \in Conns |-> CASE link[c] = "open" -> "orphan" [] link[c] = "half" -> "closed"
                                [] OTHER -> link[c]]
  /\ up' = [c \in Conns |-> <<>>]
  /\ UNCHANGED <<down, cur, devVars, pageVars>>

-----------------------------------------------------------------------------
(* Connections, seen by the clients.                                       *)

(* on_ws_event CONNECTED: hello, then protocol_publish_state.  The page's  *)
(* onopen: hello.                                                          *)
greeting(w) == IF w = Dev THEN <<Hello, Status(paired)>> \o Known(present) ELSE <<Hello>>

Connect(w) ==
  /\ ~Connected(w)
  /\ w = Dev => wifi = "up"
  /\ \A n \in {1, 2} : up[<<w, n>>] = <<>>
  /\ \E n \in {1, 2} :
       /\ link[<<w, n>>] = "closed" /\ (n = 2 => link[<<w, 1>>] # "closed")
       /\ cur' = [cur EXCEPT ![w] = n]
       /\ link' = [link EXCEPT ![<<w, n>>] = "open"]
       /\ up' = [up EXCEPT ![<<w, n>>] = greeting(w)]
  /\ UNCHANGED <<down, relayVars, devVars, pageVars>>

(* The client notices: what had not arrived is lost.  onclose of the page: *)
(* setDevice(false), and later connect().                                  *)
left(w) ==
  /\ cur' = [cur EXCEPT ![w] = 0]
  /\ online' = [u \in Uis |-> online[u] /\ u # w]
  /\ UNCHANGED <<shownPaired, shownPresence, form>>

Notice(w) ==
  /\ Connected(w) /\ link[Conn(w)] = "orphan"
  /\ link' = [link EXCEPT ![Conn(w)] = "closed"]
  /\ down' = [down EXCEPT ![Conn(w)] = <<>>]
  /\ left(w)
  /\ UNCHANGED <<up, relayVars, devVars>>

drop(w) ==
  IF ~Connected(w) THEN UNCHANGED <<link, up, down, cur, pageVars>>
  ELSE /\ link' = [link EXCEPT ![Conn(w)] = IF @ = "open" THEN "half" ELSE "closed"]
       /\ \E rest \in Prefixes(up[Conn(w)]) : up' = [up EXCEPT ![Conn(w)] = rest]
       /\ down' = [down EXCEPT ![Conn(w)] = <<>>]
       /\ left(w)

Lose(w) ==
  /\ Connected(w) /\ drop(w)
  /\ UNCHANGED <<relayVars, devVars>>

-----------------------------------------------------------------------------
(* The master.                                                             *)

(* MSG_OK and the answers to a presence request.                           *)
Paired ==
  /\ ~paired /\ paired' = TRUE
  /\ say(Dev, <<Status(TRUE)>>)
  /\ UNCHANGED <<link, down, cur, relayVars, wifi, present, settings, unread, pageVars>>

PresenceHeard ==
  /\ \E p \in {"yes", "no"} :
       /\ present' = p
       /\ say(Dev, <<Presence(p)>>)
  /\ UNCHANGED <<link, down, cur, relayVars, wifi, paired, settings, unread, pageVars>>

(* flash_get_settings, when the NOR answers.                               *)
reads(v) == IF v \in Unreadable THEN Default ELSE v

(* send_settings, after a read of the NOR that may fail.                   *)
send_settings(ok) ==
  /\ unread' = ~ok
  /\ say(Dev, IF ok THEN <<Settings(reads(settings'))>> ELSE <<>>)

(* on_command.  flash_set_settings checks only that the NOR holds what was *)
(* written; when it fails anything may be stored, and its result is not    *)
(* looked at.                                                              *)
on_command(stored, read) ==
  /\ Connected(Dev) /\ down[Conn(Dev)] # <<>>
  /\ down' = [down EXCEPT ![Conn(Dev)] = Tail(@)]
  /\ LET m == Head(down[Conn(Dev)])
     IN  IF m.t = "set" /\ ~stored THEN settings' \in Values
         ELSE settings' = IF m.t = "set" THEN m.form ELSE settings
  /\ send_settings(read)
  /\ UNCHANGED <<link, cur, relayVars, wifi, paired, present, pageVars>>

(* The radio: joins, fails to join, falls off (and joins again by itself); *)
(* the watchdog of web_link_tick starts it anew every WIFI_RETRY_MS.       *)
radio(from, to) == wifi = from /\ wifi' = to /\ UNCHANGED <<paired, present, settings, unread>>
steady == UNCHANGED <<link, up, down, cur, relayVars, pageVars>>

WifiJoins == radio("joining", "up") /\ steady
WifiFails == radio("joining", "off") /\ steady
WifiRetryNever == radio("off", "off") /\ steady
WifiRetry == radio("off", "joining") /\ steady
WifiFalls == radio("up", "joining") /\ drop(Dev) /\ UNCHANGED relayVars

MasterReboot ==
  /\ wifi' = "joining" /\ paired' = FALSE /\ present' = Unknown
  /\ drop(Dev)
  /\ UNCHANGED <<settings, unread, relayVars>>

-----------------------------------------------------------------------------
(* The page.                                                               *)

(* setDevice(true) asks for the log, the settings and the health report.   *)
asks(m) == IF m = Device(TRUE) THEN <<Get>> ELSE <<>>

(* handle.                                                                 *)
Receive(u) ==
  /\ Connected(u) /\ down[Conn(u)] # <<>>
  /\ LET m == Head(down[Conn(u)])
     IN  /\ online' = [online EXCEPT ![u] = IF m.t = "device" THEN m.on ELSE @]
         /\ shownPaired' = [shownPaired EXCEPT ![u] = IF m.t = "status" THEN m.paired ELSE @]
         /\ shownPresence' =
              [shownPresence EXCEPT ![u] = IF m.t = "presence" THEN m.present ELSE @]
         /\ form' = [form EXCEPT ![u] = IF m.t = "settings" THEN m.form ELSE @]
         /\ say(u, asks(m))
  /\ down' = [down EXCEPT ![Conn(u)] = Tail(@)]
  /\ UNCHANGED <<link, cur, relayVars, devVars>>

(* The save button, enabled while there is a device.                       *)
Save(u, v) ==
  /\ Connected(u) /\ online[u]
  /\ form' = [form EXCEPT ![u] = v]
  /\ say(u, <<Set(v)>>)
  /\ UNCHANGED <<link, down, cur, relayVars, devVars, online, shownPaired, shownPresence>>

-----------------------------------------------------------------------------
Init ==
  /\ link = [c \in Conns |-> "closed"]
  /\ up = [c \in Conns |-> <<>>] /\ down = [c \in Conns |-> <<>>]
  /\ cur = [w \in Clients |-> 0]
  /\ devices = {} /\ uis = {} /\ lastStatus = FALSE /\ lastPresence = Unknown
  /\ wifi = "joining" /\ paired = FALSE /\ present = Unknown /\ settings \in Values
  /\ unread = FALSE
  /\ online = [u \in Uis |-> FALSE] /\ shownPaired = [u \in Uis |-> FALSE]
  /\ shownPresence = [u \in Uis |-> Unknown] /\ form = [u \in Uis |-> NoForm]

Relay  == \E c \in Conns : RelayHears(c) \/ RelayNotices(c)
Client == \E w \in Clients : Connect(w) \/ Notice(w)
Master == WifiJoins \/ WifiRetry \/ on_command(TRUE, TRUE)
Page   == \E u \in Uis : Receive(u)
Progress == Relay \/ Client \/ Master \/ Page

Restart == RelayRestarts \/ MasterReboot
Break(w) == Lose(w) \/ (Connected(w) /\ RelayLoses(Conn(w)))
NorFails == on_command(FALSE, TRUE) \/ on_command(TRUE, FALSE)

Next == \/ Progress
        \/ Restart \/ WifiFalls \/ (\E w \in Clients : Break(w))
        \/ WifiFails \/ NorFails \/ Paired \/ PresenceHeard
        \/ \E u \in Uis, v \in Values : Save(u, v)

Spec == Init /\ [][Next]_vars /\ WF_vars(Progress)

-----------------------------------------------------------------------------
(* Properties.                                                             *)

Registered(u) == Connected(u) /\ link[Conn(u)] = "open" /\ Conn(u) \in uis
Told(u) == Registered(u) /\ down[Conn(u)] = <<>>
DeviceHeard == /\ Connected(Dev) /\ link[Conn(Dev)] = "open" /\ Conn(Dev) \in devices
               /\ up[Conn(Dev)] = <<>>

(* Every variable keeps its type, and the relay's sets hold connections it *)
(* has not seen close, each in the set of its role.                        *)
TypeOK ==
  /\ link \in [Conns -> {"open", "half", "orphan", "closed"}]
  /\ cur \in [Clients -> 0..2]
  /\ \A w \in Clients : Connected(w) => link[Conn(w)] \in {"open", "orphan"}
  /\ devices \subseteq {c \in Conns : c[1] = Dev /\ link[c] \in {"open", "half"}}
  /\ uis \subseteq {c \in Conns : c[1] # Dev /\ link[c] \in {"open", "half"}}
  /\ {lastStatus, paired, unread} \subseteq BOOLEAN
  /\ {lastPresence, present} \subseteq {Unknown, "yes", "no"}
  /\ wifi \in {"off", "joining", "up"} /\ settings \in Values
  /\ online \in [Uis -> BOOLEAN] /\ shownPaired \in [Uis -> BOOLEAN]
  /\ shownPresence \in [Uis -> {Unknown, "yes", "no"}]
  /\ form \in [Uis -> Values \cup {NoForm}]

(* server.js:80-93, 106-110.  A page that has read what it was sent shows  *)
(* the master as connected exactly when the relay has a connection of it,  *)
(* also when the old one closes after the new one has opened.              *)
OnlineShown == \A u \in Uis : Told(u) => online[u] = (devices # {})

(* web_link.cpp:252-259, server.js:86-99.  Once the relay has read what    *)
(* the master sent and a page what the relay sent, the page shows whether  *)
(* the slave is paired and its last presence, whoever connected, dropped   *)
(* or restarted in whatever order.                                         *)
StateShown ==
  \A u \in Uis : Told(u) /\ DeviceHeard
    => shownPaired[u] = paired /\ (present # Unknown => shownPresence[u] = present)

(* app.js:20, web_link.cpp:242-246.  With nothing left to be answered      *)
(* every page shows what the master reads in its memory, also after        *)
(* another page changed it or a save failed, unless nothing could be read: *)
(* the stored settings, or the defaults where those stored are refused.    *)
SettingsShown ==
  \A u \in Uis :
    Told(u) /\ DeviceHeard /\ up[Conn(u)] = <<>> /\ down[Conn(Dev)] = <<>> /\ ~unread
      => form[u] = reads(settings)

(* A page that is up to date with the relay agrees with relay and master.  *)
PagesAgree == OnlineShown /\ StateShown /\ SettingsShown

(* app.js:16, web_link.cpp:302, 312-327.  If faults stop, every page is    *)
(* connected again, shows the master as connected and its state.           *)
Settles ==
  <>[](\A u \in Uis : /\ online[u] /\ shownPaired[u] = paired
                      /\ present # Unknown => shownPresence[u] = present)
=============================================================================
