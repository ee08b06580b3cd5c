----------------------------- MODULE AuspNetProofs -----------------------------
(***************************************************************************)
(* The boards of codice_copiare, for any number of sensors, ids,           *)
(* provisional ids and devices, any durations, and however many texts are  *)
(* lost or cut, boards stopped and commands sent: the state is well        *)
(* typed, the ids are what IdRegistry promises, and a sensor's answer is   *)
(* repeated until the user has seen it.                                    *)
(***************************************************************************)
EXTENDS AuspNet, FiniteSetTheorems, TLAPS

(* The texts a board can send: the sensors', the hotspot's.  An id or a    *)
(* provisional id that came cut short is used like a whole one.            *)
Names == Ids \cup Cuts
SensorTexts ==
  {REQ(p) : p \in Pids} \cup {ACK(i) : i \in Names}
    \cup {ANSWER(a, i) : a \in {"YES", "NO"}, i \in Names \cup {NoId}}
Addressees == Targets \cup Names \cup {Broadcast, NoId}
HotspotTexts ==
  {SET(p, i) : p \in Pids \cup Cuts, i \in Ids}
    \cup {CMD(op, i) : op \in {"ON", "OK", "ABORT"} \cup Commands, i \in Addressees}
Texts == SensorTexts \cup HotspotTexts
Pieces == UNION {Beginnings(m) : m \in Texts}

(* A sensor says OK to an id that has been worn; a SET carries an id that  *)
(* was given to the provisional id it is for.                              *)
SensorSays(m) == m \in SensorTexts /\ (m.op = "OK" => m.src \in worn)
HotspotSays(m) ==
  m \in HotspotTexts /\ (m.ch = "CONFIG" => \E g \in given : g[2] = m.val /\ g[3] = m.dest)
Says(n, m) == IF n = Hotspot THEN HotspotSays(m) ELSE SensorSays(m)

(* What n may have got: a text of another board, or the beginning of one.  *)
Said(n, t) == \E m \in Texts : /\ SensorSays(m) \/ (n # Hotspot /\ HotspotSays(m))
                              /\ t \in Beginnings(m)

-----------------------------------------------------------------------------
(* The inductive invariant.                                                *)
Slot == [type : {"NONE", "CONFIG", "MASTER", "SLAVE"}, msg : Texts \cup {NoText}, dest : Addressees]
IdTypes ==
  /\ my_id \in [Sensors -> {NoId} \cup Names] /\ provisional_id \in [Sensors -> {NoPid} \cup Pids]
  /\ known_ids \subseteq Names /\ worn \subseteq Names
  /\ life \in Nat /\ given \subseteq Nat \X Ids \X (Pids \cup Cuts)
SlotTypes ==
  /\ pending \in [Nodes -> Slot]
  /\ awaiting_ack \in [Nodes -> BOOLEAN] /\ awaiting_response \in [Nodes -> BOOLEAN]
LoopTypes ==
  /\ doing \in [Nodes -> {"off", "idle", "send", "measure"}]
  /\ left \in [Nodes -> Nat] /\ listeners \subseteq Nodes
  /\ out \in [Nodes -> Seq(Texts)]
  /\ inbox \in [Nodes -> Pieces \cup {NoText}] /\ part \in [Nodes -> Pieces \cup {NoText}]
Typed == IdTypes /\ SlotTypes /\ LoopTypes /\ id_counter \in Ids /\ DOMAIN shown = Sensors

Listed == Cardinality(known_ids) <= MaxDevices

(* The slot: one answer at a time is waited for, and a sensor waits for    *)
(* the OK to an answer, which comes from no id.                            *)
Slots ==
  \A n \in Nodes :
    /\ ~(awaiting_ack[n] /\ awaiting_response[n])
    /\ (awaiting_ack[n] \/ awaiting_response[n]) <=> pending[n].type # "NONE"
    /\ pending[n].type # "NONE" => Says(n, pending[n].msg)
    /\ n # Hotspot => pending[n].dest = NoId

(* What loop() is in: a text is heard by boards that are idle, a board     *)
(* that sends has one text, or the two of an ABORT, and time to go.        *)
Loops ==
  /\ \A n \in Nodes : doing[n] = "send" <=> out[n] # <<>>
  /\ \A n \in Nodes : doing[n] = "send" => left[n] > 0
  /\ \A n \in Nodes : inbox[n] # NoText => doing[n] = "idle"
  /\ \A n \in listeners : doing[n] = "idle"
Powered ==
  /\ \A s \in Sensors : doing[s] = "off" <=> provisional_id[s] = NoPid
  /\ doing[Hotspot] # "off"

Sent ==
  \A n \in Nodes :
    \/ out[n] = <<>> \/ \E m \in Texts : Says(n, m) /\ out[n] = <<m>>
    \/ n = Hotspot /\ out[n] = <<ABORT, ABORT>>
Heard == \A n \in Nodes : \A t \in {inbox[n], part[n]} : t # NoText => Said(n, t)

(* The counter is ahead of every id given since the hotspot started.       *)
Fresh == \A g \in given : g[1] <= life /\ (g[1] = life => g[2] < id_counter)

(* What a sensor hears, has kept and has to deal with are on different     *)
(* channels, unless the text it hears has just begun; what it has kept     *)
(* while it measures is no command.                                        *)
Apart ==
  /\ \A n \in listeners, k \in OnAir : part[n] # NoText => Head(out[k]).ch # part[n].ch
  /\ \A n \in listeners : \A t \in Begun : inbox[n] # NoText => t.ch # inbox[n].ch
  /\ \A n \in Nodes : inbox[n] # NoText => part[n].ch # inbox[n].ch
  /\ \A s \in Sensors : doing[s] = "measure" => part[s].ch # "MASTER"

(* An OK that a sensor hears, or has heard the beginning of, while it      *)
(* repeats an answer, was shown since.                                     *)
OkSeen(s, m) == (m.op = "OK" /\ m.ch = "MASTER") => m.dest \in shown[s]
OksAreShown ==
  \A s \in Sensors :
    awaiting_ack[s] => /\ OkSeen(s, inbox[s]) /\ OkSeen(s, part[s])
                       /\ (s \in listeners /\ out[Hotspot] # <<>>) => OkSeen(s, Head(out[Hotspot]))

IInv == Typed /\ Listed /\ Slots /\ Loops /\ Powered /\ Sent /\ Heard /\ Fresh

-----------------------------------------------------------------------------
(* The texts.                                                              *)
LEMMA HotspotNode == Hotspot \in Nodes /\ Sensors \subseteq Nodes /\ Hotspot \notin Sensors
BY NetAssumption DEF Nodes

LEMMA CutsApart ==
  /\ IsFiniteSet(Cuts) /\ NoId \notin Cuts /\ NoPid \notin Cuts
  /\ \A c \in Cuts : c \notin Ids /\ c \notin Pids
BY NetAssumption DEF NoId, NoPid, Ids

LEMMA SensorTextFields ==
  ASSUME NEW m \in SensorTexts
  PROVE  /\ m.ch \in {"CONFIG", "SLAVE"} /\ m.op # "SET"
         /\ m.op \in {"REQ", "OK", "YES", "NO"}
         /\ m.op = "REQ" => m.src \in Pids
         /\ m.op = "OK" => m.src \in Names
         /\ m.ch = "SLAVE" => m.src \in Names \cup {NoId} /\ m.op \in {"YES", "NO"}
BY DEF SensorTexts, REQ, ACK, ANSWER, Text

LEMMA HotspotTextFields ==
  ASSUME NEW m \in HotspotTexts
  PROVE  /\ m.ch \in {"CONFIG", "MASTER"}
         /\ m.ch = "CONFIG" => m.op = "SET" /\ m.val \in Ids /\ m.dest \in Pids \cup Cuts
BY DEF HotspotTexts, SET, CMD, Text

LEMMA TextShape ==
  ASSUME NEW m \in Texts
  PROVE  \E ch, op, dest, src, val : m = Text(ch, op, dest, src, val)
<1>1. CASE m \in SensorTexts
  <2>1. (\E p : m = REQ(p)) \/ (\E i : m = ACK(i)) \/ (\E a, i : m = ANSWER(a, i))
    BY <1>1 DEF SensorTexts
  <2> QED BY <2>1, Zenon DEF REQ, ACK, ANSWER
<1>2. CASE m \in HotspotTexts
  <2>1. (\E p, i : m = SET(p, i)) \/ (\E op, i : m = CMD(op, i))
    BY <1>2 DEF HotspotTexts
  <2> QED BY <2>1, Zenon DEF SET, CMD
<1> QED BY <1>1, <1>2 DEF Texts

(* The beginning of a text is for the same board, on the same channel;     *)
(* what it is from, or gives, may be cut.                                  *)
LEMMA PieceFields ==
  ASSUME NEW m \in Texts, NEW t \in Beginnings(m)
  PROVE  /\ t.ch = m.ch /\ t.dest = m.dest
         /\ m.ch # "SLAVE" => t.op = m.op
         /\ m.ch = "SLAVE" => t.op \in {m.op, "PART"}
         /\ t.src = m.src \/ t.src \in Cuts
         /\ t.val = m.val \/ t.val \in Cuts
<1>1. PICK ch, op, dest, src, val : m = Text(ch, op, dest, src, val)
  BY TextShape
<1>2. PICK c : t = m \/ (t = Part(m, c) /\ c \in Cuts)
  BY DEF Beginnings
<1> QED BY <1>1, <1>2 DEF Part, Text

LEMMA NoTextIsNone ==
  /\ NoText.op = "NONE" /\ NoText.ch = "NONE"
  /\ \A m \in Texts : NoText \notin Beginnings(m) /\ m # NoText
<1>1. NoText.op = "NONE" /\ NoText.ch = "NONE"
  BY DEF NoText, Text
<1>2. \A m \in Texts : m.ch # "NONE"
  BY SensorTextFields, HotspotTextFields DEF Texts
<1>3. \A m \in Texts : NoText \notin Beginnings(m)
  BY <1>1, <1>2, PieceFields
<1> QED BY <1>1, <1>2, <1>3

(* What a board makes of a text it got.                                    *)
LEMMA SaidFields ==
  ASSUME NEW n, NEW t, Said(n, t)
  PROVE  /\ t \in Pieces /\ t # NoText /\ t.ch # "NONE"
         /\ (t.op = "REQ" /\ n = Hotspot) => t.src \in Pids \cup Cuts
         /\ (t.op = "OK" /\ (n = Hotspot \/ t.ch = "CONFIG"))
              => t.src \in Names /\ (t.src \in worn \/ (t.src \in Cuts /\ worn # {}))
         /\ t.ch = "SLAVE" => t.src \in Names \cup {NoId}
         /\ (t.op = "SET" /\ t.ch = "CONFIG")
              => /\ t.val \in Names
                 /\ \E g \in given : g[3] = t.dest /\ (g[2] = t.val \/ t.val \in Cuts)
<1>1. PICK m \in Texts : /\ SensorSays(m) \/ (n # Hotspot /\ HotspotSays(m))
                         /\ t \in Beginnings(m)
  BY DEF Said
<1>2. t \in Pieces /\ t # NoText /\ t.ch # "NONE"
  <2>1. m.ch # "NONE"
    BY SensorTextFields, HotspotTextFields DEF Texts
  <2> QED BY <1>1, <2>1, NoTextIsNone, PieceFields DEF Pieces
<1>3. /\ t.ch = m.ch /\ t.dest = m.dest /\ (m.ch # "SLAVE" => t.op = m.op)
      /\ (m.ch = "SLAVE" => t.op \in {m.op, "PART"})
      /\ (t.src = m.src \/ t.src \in Cuts) /\ (t.val = m.val \/ t.val \in Cuts)
  BY <1>1, PieceFields
<1>4. CASE SensorSays(m)
  <2>1. m \in SensorTexts
    BY <1>4 DEF SensorSays
  <2>2. /\ m.ch \in {"CONFIG", "SLAVE"} /\ m.op # "SET"
        /\ m.op \in {"REQ", "OK", "YES", "NO"}
        /\ m.op = "REQ" => m.src \in Pids
        /\ m.op = "OK" => m.src \in Names
        /\ m.ch = "SLAVE" => m.src \in Names \cup {NoId} /\ m.op \in {"YES", "NO"}
    BY <2>1, SensorTextFields
  <2>3. m.op = "OK" => m.src \in worn
    BY <1>4 DEF SensorSays
  <2> QED BY <1>2, <1>3, <2>2, <2>3 DEF Names
<1>5. CASE n # Hotspot /\ HotspotSays(m)
  <2>1. m.ch \in {"CONFIG", "MASTER"} /\ (m.ch = "CONFIG" => m.op = "SET" /\ m.val \in Ids)
    BY <1>5, HotspotTextFields DEF HotspotSays
  <2>2. m.ch = "CONFIG" => \E g \in given : g[2] = m.val /\ g[3] = m.dest
    BY <1>5 DEF HotspotSays
  <2> QED BY <1>2, <1>3, <1>5, <2>1, <2>2 DEF Names
<1> QED BY <1>1, <1>4, <1>5

(* What each handler sends.                                                *)
LEMMA SensorsSend ==
  /\ \A p \in Pids : REQ(p) \in SensorTexts /\ SensorSays(REQ(p))
  /\ \A i \in Names : ACK(i) \in SensorTexts /\ (i \in worn => SensorSays(ACK(i)))
  /\ \A a \in {"YES", "NO"}, i \in Names \cup {NoId} :
       ANSWER(a, i) \in SensorTexts /\ SensorSays(ANSWER(a, i))
BY DEF SensorTexts, SensorSays, REQ, ACK, ANSWER, Text

LEMMA HotspotSends ==
  /\ \A p \in Pids \cup Cuts, i \in Ids : SET(p, i) \in HotspotTexts /\ SET(p, i).op = "SET"
  /\ \A op \in {"ON", "OK", "ABORT"} \cup Commands, i \in Addressees :
       CMD(op, i) \in HotspotTexts /\ HotspotSays(CMD(op, i))
  /\ ABORT \in HotspotTexts /\ ABORT.op = "ABORT"
<1>1. \A op, i : CMD(op, i).ch = "MASTER"
  BY DEF CMD, Text
<1>2. ABORT = CMD("ABORT", Broadcast) /\ ABORT.op = "ABORT"
  BY DEF ABORT, CMD, Text
<1> QED BY <1>1, <1>2 DEF HotspotTexts, HotspotSays, Addressees, SET, Text

-----------------------------------------------------------------------------
(* Whatever the step, to loop() it is one of these: n starts to send, a    *)
(* sensor starts to measure, n has dealt with its text, or n stops.        *)
Shape(n, msgs) ==
  \/ \E m \in Texts : Says(n, m)' /\ msgs = <<m>>
  \/ n = Hotspot /\ msgs = <<ABORT, ABORT>>
Talks(n, msgs) ==
  /\ doing[n] # "send" /\ Send(n, msgs) /\ Take(n) /\ Shape(n, msgs)
  /\ \A s \in Sensors : IF s = n /\ doing[s] = "off" THEN provisional_id'[s] # NoPid
                        ELSE provisional_id'[s] = provisional_id[s]
Measures(n) ==
  /\ doing' = [doing EXCEPT ![n] = "measure"] /\ left' = [left EXCEPT ![n] = MeasureTime]
  /\ doing[n] = "idle" /\ listeners' = listeners \ {n} /\ CutOff(listeners \cap {n}, part) /\ Take(n)
  /\ inbox[n].ch = "MASTER" /\ UNCHANGED <<out, provisional_id>>
Deals(n) == doing[n] = "idle" /\ Take(n) /\ UNCHANGED <<loopv, provisional_id>>
LoopStep ==
  \/ \E n \in Nodes : (\E msgs : Talks(n, msgs)) \/ Measures(n) \/ Deals(n) \/ Stop(n)
  \/ Tick \/ UNCHANGED <<loopv, inbox, provisional_id>>

(* What n says it still says later: ids stay given, and worn.              *)
LEMMA SaysStays ==
  ASSUME NEW n, NEW m, Says(n, m), worn \subseteq worn', given \subseteq given'
  PROVE  Says(n, m)'
BY DEF Says, SensorSays, HotspotSays

(* A board that has no text to deal with is as if it had dealt with it.    *)
LEMMA NothingToTake ==
  ASSUME LoopTypes, NEW n \in Nodes, inbox[n] = NoText, UNCHANGED inbox
  PROVE  Take(n)
BY DEF LoopTypes, Take

LEMMA Unheard ==
  ASSUME Loops, NEW n \in Nodes, doing[n] # "idle" PROVE inbox[n] = NoText
BY DEF Loops

(* Who gets a REQ, a SET or an answer, got it from somebody.               *)
LEMMA Requested ==
  ASSUME IInv, assign_new_id
  PROVE  inbox[Hotspot].src \in Pids \cup Cuts
BY SaidFields, NoTextIsNone, HotspotNode DEF assign_new_id, IInv, Heard

LEMMA Given ==
  ASSUME IInv, NEW s \in Sensors, handle_set(s)
  PROVE  /\ inbox[s].val \in Names
         /\ \E g \in given : g[3] = provisional_id[s] /\ (g[2] = inbox[s].val \/ inbox[s].val \in Cuts)
BY SaidFields, NoTextIsNone, HotspotNode DEF handle_set, is_for, IInv, Heard

LEMMA Answered ==
  ASSUME IInv, handle_answer
  PROVE  inbox[Hotspot].src \in Names \cup {NoId}
BY SaidFields, NoTextIsNone, HotspotNode DEF handle_answer, IInv, Heard

LEMMA LoopSteps ==
  ASSUME IInv, [Next]_vars
  PROVE  LoopStep
<1> USE HotspotNode DEF IInv, Typed, ids
<1>1. ASSUME NEW s \in Sensors, NEW p \in Pids, protocol_init(s, p) PROVE Talks(s, <<REQ(p)>>)
  <2>1. Says(s, REQ(p))' /\ REQ(p) \in Texts
    BY SensorsSend DEF Says, SensorSays, Texts, REQ, Text
  <2>2. Take(s)
    BY <1>1, Unheard, NothingToTake DEF protocol_init
  <2>3. p # NoPid
    BY NetAssumption DEF NoPid
  <2> QED BY <1>1, <2>1, <2>2, <2>3 DEF protocol_init, Talks, Shape, IdTypes
<1>2. ASSUME assign_new_id PROVE \E msgs : Talks(Hotspot, msgs)
  <2>1. PICK p \in Pids \cup Cuts : p = inbox[Hotspot].src
    BY <1>2, Requested
  <2>2. PICK m : m = SET(p, id_counter)
    OBVIOUS
  <2>3. m \in HotspotTexts /\ m.val = id_counter /\ m.dest = p
    BY <2>2, HotspotSends DEF SET, Text
  <2> DEFINE g == <<life, id_counter, p>>
  <2>4. g \in given' /\ g[2] = m.val /\ g[3] = m.dest
    BY <1>2, <2>1, <2>3 DEF assign_new_id
  <2> HIDE DEF g
  <2>5. Says(Hotspot, m)' /\ m \in Texts
    BY <2>3, <2>4 DEF Says, HotspotSays, Texts
  <2>6. Talks(Hotspot, <<m>>)
    BY <1>2, <2>1, <2>2, <2>5 DEF assign_new_id, Talks, Shape
  <2> QED BY <2>6
<1>3. ASSUME NEW s \in Sensors, handle_set(s) PROVE \E msgs : Talks(s, msgs)
  <2>1. PICK i \in Names : i = inbox[s].val
    BY <1>3, Given
  <2>2. Says(s, ACK(i))' /\ ACK(i) \in Texts
    BY <1>3, <2>1, SensorsSend DEF handle_set, Says, SensorSays, Texts, ACK, Text
  <2>3. Talks(s, <<ACK(i)>>)
    BY <1>3, <2>1, <2>2 DEF handle_set, Talks, Shape
  <2> QED BY <2>3
<1>4. ASSUME NEW n \in Nodes, handle_ok(n) PROVE Deals(n)
  BY <1>4 DEF handle_ok, Deals
<1>5. ASSUME NEW s \in Sensors, handle_abort(s) PROVE Deals(s)
  BY <1>5 DEF handle_abort, Deals, Commanded
<1>6. ASSUME NEW s \in Sensors, handle_movement(s) PROVE Measures(s) \/ Deals(s)
  BY <1>6 DEF handle_movement, Deals, Measures, Commanded, addressed
<1>7. ASSUME NEW s \in Sensors, NEW a \in {"YES", "NO"}, Measured(s, a)
      PROVE  \E msgs : Talks(s, msgs)
  <2>1. PICK i \in Names \cup {NoId} : i = my_id[s]
    BY DEF IdTypes
  <2>2. Says(s, ANSWER(a, i))' /\ ANSWER(a, i) \in Texts
    BY SensorsSend DEF Says, SensorSays, Texts, ANSWER, Text
  <2>3. Take(s)
    BY <1>7, Unheard, NothingToTake DEF Measured
  <2>4. Talks(s, <<ANSWER(a, i)>>)
    BY <1>7, <2>1, <2>2, <2>3 DEF Measured, Talks, Shape
  <2> QED BY <2>4
<1>8. ASSUME handle_answer PROVE \E msgs : Talks(Hotspot, msgs)
  <2>1. PICK i \in Names \cup {NoId} : i = inbox[Hotspot].src
    BY <1>8, Answered
  <2>2. CMD("OK", i) \in Texts
    BY HotspotSends DEF Addressees, Texts
  <2>3. Says(Hotspot, CMD("OK", i))'
    BY HotspotSends DEF Addressees, Says, HotspotSays, CMD, Text
  <2>4. Talks(Hotspot, <<CMD("OK", i)>>)
    BY <1>8, <2>1, <2>2, <2>3 DEF handle_answer, Talks, Shape
  <2> QED BY <2>4
<1>9. ASSUME NEW n \in Nodes, Ignore(n) PROVE Deals(n)
  BY <1>9 DEF Ignore, Deals
<1>10. ASSUME NEW n \in Nodes, protocol_tick(n) PROVE \E msgs : Talks(n, msgs)
  <2>1. PICK m : m = pending[n].msg
    OBVIOUS
  <2>2. Says(n, m) /\ inbox[n] = NoText
    BY <1>10, <2>1 DEF protocol_tick, due, Free, Slots
  <2>3. Says(n, m)' /\ m \in Texts
    BY <1>10, <2>2 DEF protocol_tick, ids, Says, SensorSays, HotspotSays, Texts
  <2>4. Take(n)
    BY <1>10, <2>2, NothingToTake DEF protocol_tick
  <2>5. Talks(n, <<m>>)
    BY <1>10, <2>1, <2>3, <2>4 DEF protocol_tick, due, Free, Talks, Shape
  <2> QED BY <2>5
<1>11. ASSUME NEW op \in {"ON"} \cup Commands, NEW i \in Targets,
              Command, Send(Hotspot, <<CMD(op, i)>>), UNCHANGED <<ids, inbox>>
       PROVE  Talks(Hotspot, <<CMD(op, i)>>)
  <2>1. CMD(op, i) \in HotspotTexts
    BY HotspotSends DEF Addressees
  <2>2. Says(Hotspot, CMD(op, i))'
    BY <2>1 DEF Says, HotspotSays, CMD, Text
  <2>3. Take(Hotspot)
    BY <1>11, NothingToTake DEF Command, Free
  <2> QED BY <1>11, <2>1, <2>2, <2>3 DEF Command, Free, Talks, Shape, Texts
<1>12. ASSUME protocol_send_abort PROVE Talks(Hotspot, <<ABORT, ABORT>>)
  <2>1. Take(Hotspot)
    BY <1>12, NothingToTake DEF protocol_send_abort, Command, Free
  <2> QED BY <1>12, <2>1 DEF protocol_send_abort, Command, Free, Talks, Shape
<1>13. CASE UNCHANGED vars
  BY <1>13 DEF vars, loopv, LoopStep
<1>14. ASSUME NEW n \in Nodes, Hears(n) PROVE LoopStep
  BY <1>2, <1>3, <1>4, <1>5, <1>6, <1>8, <1>9, <1>14, Zenon DEF Hears, LoopStep, Nodes
<1>15. ASSUME User PROVE LoopStep
  BY <1>11, <1>12, <1>15 DEF User, LoopStep, protocol_send_movement_request, protocol_send_command
<1> QED
  BY <1>1, <1>7, <1>10, <1>13, <1>14, <1>15, Zenon DEF Next, Loop, LoopStep, Nodes

-----------------------------------------------------------------------------
(* Ids stay given, and worn.                                               *)
LEMMA IdsStay ==
  ASSUME IInv, [Next]_vars
  PROVE  worn \subseteq worn' /\ given \subseteq given'
<1>1. CASE UNCHANGED vars
  BY <1>1 DEF vars, ids
<1>2. CASE Tick
  BY <1>2 DEF Tick, ids
<1>3. ASSUME NEW n \in Nodes, Hears(n) PROVE worn \subseteq worn' /\ given \subseteq given'
  BY <1>3 DEF Hears, handle_ok, Ignore, assign_new_id, handle_answer, handle_set, handle_abort,
              handle_movement, ids
<1>4. ASSUME NEW n \in Nodes, Loop(n) \/ Stop(n) PROVE worn \subseteq worn' /\ given \subseteq given'
  BY <1>3, <1>4 DEF Loop, Stop, protocol_tick, Measured, ids
<1>5. CASE User
  BY <1>5 DEF User, protocol_send_movement_request, protocol_send_command, protocol_send_abort, ids
<1>6. ASSUME NEW s \in Sensors, NEW p \in Pids, protocol_init(s, p)
      PROVE  worn \subseteq worn' /\ given \subseteq given'
  BY <1>6 DEF protocol_init, ids
<1> QED BY <1>1, <1>2, <1>4, <1>5, <1>6 DEF Next

-----------------------------------------------------------------------------
(* What comes to a board, it had, or it is hearing.                        *)
AirOf(n) == IF n \in listeners THEN {Head(out[k]) : k \in OnAir} ELSE {}
Had(n) == {NoText, inbox[n], part[n]} \cup UNION {Beginnings(m) : m \in AirOf(n)}

LEMMA CutsOff ==
  ASSUME NEW L \in SUBSET listeners, listeners \subseteq Nodes, NEW kept \in [Nodes -> Pieces \cup {NoText}],
         CutOff(L, kept)
  PROVE  /\ part' = [n \in Nodes |-> part'[n]]
         /\ \A n \in Nodes : part'[n] = kept[n] \/ (n \in L /\ part'[n] \in Begun)
         /\ \A n \in listeners : Begun \subseteq Had(n)
<1>1. PICK K \in SUBSET L : Keeps(K, Begun, kept)
  BY DEF CutOff
<1>2. PICK t \in [K -> Begun] : part' = [n \in Nodes |-> IF n \in K THEN t[n] ELSE kept[n]]
  BY <1>1 DEF Keeps
<1>3. \A n \in listeners : Begun \subseteq Had(n)
  BY DEF Had, AirOf, Begun
<1> QED BY <1>2, <1>3

LEMMA UnmixedTyped ==
  ASSUME LoopTypes, NEW n, NEW m
  PROVE  /\ Unmixed(n, m) \in [Nodes -> Pieces \cup {NoText}]
         /\ \A k \in Nodes : Unmixed(n, m)[k] \in {part[k], NoText}
BY DEF LoopTypes, Unmixed

(* What n has got after a step.                                            *)
Comes(n) == inbox'[n] \in Had(n) /\ part'[n] \in Had(n)
Come == /\ inbox' = [n \in Nodes |-> inbox'[n]] /\ part' = [n \in Nodes |-> part'[n]]
        /\ \A n \in Nodes : Comes(n)

LEMMA TakenComes ==
  ASSUME LoopTypes, NEW n \in Nodes, Take(n)
  PROVE  inbox' = [k \in Nodes |-> inbox'[k]] /\ \A k \in Nodes : inbox'[k] \in {inbox[k], NoText}
BY DEF LoopTypes, Take

LEMMA TickComes ==
  ASSUME IInv, Tick
  PROVE  Come
<1> USE HotspotNode DEF IInv, Typed
<1>1. \A n \in Nodes : Unflushed[n] \in {part[n], NoText}
  BY DEF Unflushed
<1>2. CASE Ending = {}
  <2>1. inbox' = Flush({}, NoText) /\ part' = Unflushed
    BY <1>2 DEF Tick
  <2> QED BY <1>1, <2>1 DEF Flush, Unflushed, Come, Comes, Had
<1>3. ASSUME NEW n \in Ending, NEW L \in SUBSET Reaches(n, Head(out[n])), NEW K \in SUBSET (listeners \ L),
             inbox' = Flush(L, Head(out[n])), Keeps(K, Beginnings(Head(out[n])), Unflushed)
      PROVE  Come
  <2>1. PICK t \in [K -> Beginnings(Head(out[n]))] :
          part' = [k \in Nodes |-> IF k \in K THEN t[k] ELSE Unflushed[k]]
    BY <1>3 DEF Keeps
  <2>2. \A k \in listeners : Beginnings(Head(out[n])) \subseteq Had(k)
    BY DEF Had, AirOf, Ending, OnAir
  <2>3. L \subseteq listeners /\ (L # {} => Head(out[n]) \in Beginnings(Head(out[n])))
    BY DEF Reaches, Beginnings
  <2>4. ASSUME NEW k \in Nodes PROVE inbox'[k] \in Had(k)
    BY <1>3, <2>2, <2>3 DEF Flush, Had
  <2>5. ASSUME NEW k \in Nodes PROVE part'[k] \in Had(k)
    BY <1>1, <2>1, <2>2 DEF Had
  <2> QED BY <1>3, <2>1, <2>4, <2>5 DEF Come, Comes, Flush
<1> QED BY <1>2, <1>3 DEF Tick

LEMMA StepsCome ==
  ASSUME IInv, [Next]_vars
  PROVE  Come
<1> USE HotspotNode DEF IInv, Typed
<1>1. listeners \subseteq Nodes
  BY DEF LoopTypes
<1>2. ASSUME NEW n \in Nodes, NEW msgs, Talks(n, msgs) PROVE Come
  <2>1. CutOff(listeners, Unmixed(n, Head(msgs))) /\ Take(n)
    BY <1>2 DEF Talks, Send
  <2> QED BY <1>1, <2>1, CutsOff, UnmixedTyped, TakenComes DEF Come, Comes, Had
<1>3. ASSUME NEW n \in Nodes, Measures(n) PROVE Come
  <2>1. CutOff(listeners \cap {n}, part) /\ Take(n) /\ part \in [Nodes -> Pieces \cup {NoText}]
    BY <1>3 DEF Measures, LoopTypes
  <2> QED BY <1>1, <2>1, CutsOff, TakenComes DEF Come, Comes, Had
<1>4. ASSUME NEW n \in Nodes, Deals(n) PROVE Come
  <2>1. part' = part /\ Take(n)
    BY <1>4 DEF Deals, loopv
  <2> QED BY <2>1, TakenComes DEF Come, Comes, Had, LoopTypes
<1>5. ASSUME NEW n \in Nodes, Stop(n) PROVE Come
  <2> DEFINE L == IF doing[n] = "send" THEN listeners ELSE {}
             kept == [part EXCEPT ![n] = NoText]
  <2>1. CutOff(L, kept) /\ Take(n)
    BY <1>5 DEF Stop
  <2>2. L \in SUBSET listeners /\ kept \in [Nodes -> Pieces \cup {NoText}]
    BY DEF LoopTypes
  <2>3. \A k \in Nodes : kept[k] \in {part[k], NoText}
    BY DEF LoopTypes
  <2> HIDE DEF L, kept
  <2> QED BY <1>1, <2>1, <2>2, <2>3, CutsOff, TakenComes DEF Come, Comes, Had
<1>6. CASE UNCHANGED <<loopv, inbox, provisional_id>>
  BY <1>6 DEF loopv, Come, Comes, Had, LoopTypes
<1> QED BY <1>2, <1>3, <1>4, <1>5, <1>6, TickComes, LoopSteps DEF LoopStep

(* What n has, or is hearing, another board said.                          *)
LEMMA HadIsSaid ==
  ASSUME IInv, NEW n \in Nodes, NEW t \in Had(n), t # NoText
  PROVE  Said(n, t)
<1> USE HotspotNode DEF IInv, Typed
<1>1. CASE t \in {inbox[n], part[n]}
  BY <1>1 DEF Heard
<1>2. ASSUME n \in listeners, NEW k \in OnAir, t \in Beginnings(Head(out[k])) PROVE Said(n, t)
  <2>1. k \in Nodes /\ doing[k] = "send" /\ out[k] # <<>> /\ k # n
    BY <1>2 DEF OnAir, Loops
  <2>2. Head(out[k]) \in Texts /\ Says(k, Head(out[k]))
    <3>1. ABORT \in Texts /\ Says(Hotspot, ABORT)
      BY HotspotSends DEF Says, HotspotSays, Texts, ABORT, CMD, Text, Addressees
    <3>2. ASSUME NEW m \in Texts, out[k] = <<m>> PROVE Head(out[k]) = m
      BY <3>2
    <3>3. ASSUME out[k] = <<ABORT, ABORT>> PROVE Head(out[k]) = ABORT
      BY <3>3
    <3> QED BY <2>1, <3>1, <3>2, <3>3 DEF Sent
  <2> QED BY <1>2, <2>1, <2>2 DEF Says, Said
<1> QED BY <1>1, <1>2 DEF Had, AirOf

LEMMA SaidStays ==
  ASSUME NEW n, NEW t, Said(n, t), worn \subseteq worn', given \subseteq given'
  PROVE  Said(n, t)'
BY DEF Said, SensorSays, HotspotSays

LEMMA HeardNext ==
  ASSUME IInv, [Next]_vars, worn \subseteq worn', given \subseteq given'
  PROVE  Heard' /\ inbox' \in [Nodes -> Pieces \cup {NoText}] /\ part' \in [Nodes -> Pieces \cup {NoText}]
<1>1. ASSUME NEW n \in Nodes, NEW t \in {inbox'[n], part'[n]}, t # NoText PROVE Said(n, t)
  BY <1>1, StepsCome, HadIsSaid DEF Come, Comes
<1>2. Heard'
  BY <1>1, SaidStays DEF Heard
<1>3. \A n \in Nodes : inbox'[n] \in Pieces \cup {NoText} /\ part'[n] \in Pieces \cup {NoText}
  BY <1>1, SaidFields
<1> QED BY <1>2, <1>3, StepsCome DEF Come

(* The parts of the invariant about loop() and the air.                    *)
LoopInv == LoopTypes /\ Loops /\ Powered /\ Sent /\ Heard
Got == Heard /\ inbox \in [Nodes -> Pieces \cup {NoText}] /\ part \in [Nodes -> Pieces \cup {NoText}]

LEMMA TalksKeeps ==
  ASSUME IInv, worn \subseteq worn', given \subseteq given', Got', NEW n \in Nodes, NEW msgs, Talks(n, msgs)
  PROVE  LoopInv'
<1> USE HotspotNode, NoTextIsNone DEF IInv, Typed, LoopInv, Got
<1>1. msgs \in Seq(Texts) /\ msgs # <<>>
  <2>1. ASSUME NEW m \in Texts, msgs = <<m>> PROVE msgs \in Seq(Texts) /\ msgs # <<>>
    BY <2>1
  <2>2. ASSUME msgs = <<ABORT, ABORT>> PROVE msgs \in Seq(Texts) /\ msgs # <<>>
    <3>1. ABORT \in Texts
      BY HotspotSends DEF Texts
    <3> HIDE DEF Texts
    <3> QED BY <2>2, <3>1
  <2> QED BY <2>1, <2>2 DEF Talks, Shape
<1>2. /\ doing' = [doing EXCEPT ![n] = "send"] /\ out' = [out EXCEPT ![n] = msgs]
      /\ left' = [left EXCEPT ![n] = SendTime] /\ inbox' = [inbox EXCEPT ![n] = NoText]
      /\ listeners' \subseteq {m \in Nodes \ {n} : doing[m] = "idle"}
  BY DEF Talks, Send, Audience, Take
<1>3. SendTime \in Nat /\ SendTime > 0
  BY NetAssumption
<1>4. LoopTypes'
  BY <1>1, <1>2, <1>3 DEF LoopTypes
<1>5. Loops'
  BY <1>1, <1>2, <1>3 DEF LoopTypes, Loops
<1>6. Powered'
  BY <1>2 DEF Powered, LoopTypes, Talks
<1>7. Sent'
  <2> SUFFICES ASSUME NEW k \in Nodes
               PROVE  \/ out'[k] = <<>> \/ \E m \in Texts : Says(k, m)' /\ out'[k] = <<m>>
                      \/ k = Hotspot /\ out'[k] = <<ABORT, ABORT>>
    BY DEF Sent
  <2>1. CASE k = n
    BY <1>2, <2>1 DEF Talks, Shape, LoopTypes
  <2>2. CASE k # n
    BY <1>2, <2>2, SaysStays DEF Sent, LoopTypes
  <2> QED BY <2>1, <2>2
<1> QED BY <1>4, <1>5, <1>6, <1>7

LEMMA StopKeeps ==
  ASSUME IInv, worn \subseteq worn', given \subseteq given', Got', NEW n \in Nodes, Stop(n)
  PROVE  LoopInv'
<1> USE HotspotNode, NoTextIsNone DEF IInv, Typed, LoopInv, Got
<1>1. /\ doing' = [doing EXCEPT ![n] = IF n = Hotspot THEN "idle" ELSE "off"]
      /\ out' = [out EXCEPT ![n] = <<>>] /\ left' = [left EXCEPT ![n] = 0]
      /\ inbox' = [inbox EXCEPT ![n] = NoText] /\ listeners' \subseteq listeners \ {n}
  BY DEF Stop, Take, Loops
<1>2. LoopTypes'
  BY <1>1 DEF LoopTypes
<1>3. Loops'
  BY <1>1 DEF LoopTypes, Loops
<1>4. Powered'
  BY <1>1 DEF Powered, LoopTypes, IdTypes, Stop
<1>5. Sent'
  BY <1>1, SaysStays DEF Sent, LoopTypes
<1> QED BY <1>2, <1>3, <1>4, <1>5

LEMMA DealsKeeps ==
  ASSUME IInv, worn \subseteq worn', given \subseteq given', Got', NEW n \in Nodes, Deals(n) \/ Measures(n)
  PROVE  LoopInv'
<1> USE HotspotNode, NoTextIsNone DEF IInv, Typed, LoopInv, Got
<1>1. inbox' = [inbox EXCEPT ![n] = NoText] /\ UNCHANGED <<out, provisional_id>>
  BY DEF Deals, Measures, Take, loopv
<1>2. ASSUME Deals(n) PROVE LoopTypes' /\ Loops' /\ Powered'
  BY <1>1, <1>2 DEF Deals, loopv, LoopTypes, Loops, Powered
<1>3. ASSUME Measures(n) PROVE LoopTypes' /\ Loops' /\ Powered'
  <2>1. MeasureTime \in Nat
    BY NetAssumption
  <2>2. LoopTypes' /\ Loops' /\ Powered'
    BY <1>1, <1>3, <2>1 DEF Measures, LoopTypes, Loops, Powered
  <2> QED BY <2>2
<1>4. Sent'
  BY <1>1, SaysStays DEF Sent, LoopTypes
<1> QED BY <1>2, <1>3, <1>4

(* When a text ends: the one that was sent is over, and only of an ABORT   *)
(* there is another; what a board hears, another board said.               *)
LEMMA TickKeeps ==
  ASSUME IInv, Tick, Got'
  PROVE  LoopInv'
<1> USE HotspotNode, NoTextIsNone DEF IInv, Typed, LoopInv, Got
<1>1. ASSUME NEW n \in Nodes, out[n] # <<>>
      PROVE  /\ Head(out[n]) \in Texts /\ Says(n, Head(out[n]))
             /\ Len(out[n]) = 1 => Tail(out[n]) = <<>>
             /\ Len(out[n]) # 1 => n = Hotspot /\ Len(out[n]) = 2 /\ Tail(out[n]) = <<ABORT>>
  <2>1. ABORT \in Texts /\ Says(Hotspot, ABORT)
    BY HotspotSends DEF Says, HotspotSays, Texts, ABORT, CMD, Text, Addressees
  <2>2. ASSUME NEW m \in Texts, out[n] = <<m>>
        PROVE  Head(out[n]) = m /\ Len(out[n]) = 1 /\ Tail(out[n]) = <<>>
    BY <2>2
  <2>3. ASSUME out[n] = <<ABORT, ABORT>>
        PROVE  Head(out[n]) = ABORT /\ Len(out[n]) = 2 /\ Tail(out[n]) = <<ABORT>>
    BY <2>3
  <2> QED BY <1>1, <2>1, <2>2, <2>3 DEF Sent
<1>2. UNCHANGED <<ids, worn, given>>
  BY DEF Tick, ids
<1>3. \A n \in Ending : out[n] # <<>> /\ doing[n] = "send"
  BY DEF Ending, Loops
<1>4. LoopTypes'
  <2>1. out' \in [Nodes -> Seq(Texts)]
    <3>1. \A n \in Nodes : out[n] \in Seq(Texts) /\ (n \in Ending => Tail(out[n]) \in Seq(Texts))
      BY <1>3 DEF LoopTypes
    <3> QED BY <3>1 DEF Tick
  <2>2. left' \in [Nodes -> Nat]
    BY NetAssumption DEF Tick, LoopTypes
  <2>3. doing' \in [Nodes -> {"off", "idle", "send", "measure"}]
    BY DEF Tick, LoopTypes
  <2>4. listeners' \subseteq Nodes
    BY DEF Tick, LoopTypes
  <2> QED BY <2>1, <2>2, <2>3, <2>4 DEF LoopTypes
<1>5. Sent'
  <2> SUFFICES ASSUME NEW k \in Nodes
               PROVE  \/ out'[k] = <<>> \/ \E m \in Texts : Says(k, m)' /\ out'[k] = <<m>>
                      \/ k = Hotspot /\ out'[k] = <<ABORT, ABORT>>
    BY DEF Sent
  <2>1. CASE k \in Ending
    <3>1. out'[k] = Tail(out[k])
      BY <2>1 DEF Tick
    <3>2. ABORT \in Texts /\ Says(Hotspot, ABORT)'
      BY HotspotSends DEF Says, HotspotSays, Texts, ABORT, CMD, Text, Addressees
    <3> QED BY <1>1, <1>3, <2>1, <3>1, <3>2
  <2>2. CASE k \notin Ending
    BY <1>2, <2>2, SaysStays DEF Sent, Tick
  <2> QED BY <2>1, <2>2
<1>6. ASSUME NEW n \in Nodes
      PROVE  /\ doing'[n] = (IF n \in Ending /\ Len(out[n]) = 1 THEN "idle" ELSE doing[n])
             /\ out'[n] = (IF n \in Ending THEN Tail(out[n]) ELSE out[n])
             /\ left'[n] = (IF n \in Ending /\ Len(out[n]) > 1 THEN SendTime
                              ELSE IF left[n] > 0 THEN left[n] - 1 ELSE 0)
  BY DEF Tick
<1>7. /\ \A n \in Nodes : inbox'[n] # NoText => doing[n] = "idle" \/ doing'[n] = "idle"
      /\ \A n \in listeners' : doing[n] = "idle"
  BY DEF Tick, Flush, Loops, Reaches
<1>8. \A n \in Nodes : doing'[n] = "idle" <=> doing[n] = "idle" \/ (n \in Ending /\ Len(out[n]) = 1)
  BY <1>6
<1>9. Loops'
  <2>1. ASSUME NEW n \in Nodes, n \notin Ending
        PROVE  (doing'[n] = "send" <=> out'[n] # <<>>) /\ (doing'[n] = "send" => left'[n] > 0)
    <3>1. left[n] \in Nat /\ (doing[n] = "send" => left[n] > 1)
      BY <2>1 DEF LoopTypes, Loops, Ending
    <3> QED BY <1>6, <2>1, <3>1 DEF Loops
  <2>2. ASSUME NEW n \in Nodes, n \in Ending
        PROVE  (doing'[n] = "send" <=> out'[n] # <<>>) /\ (doing'[n] = "send" => left'[n] > 0)
    <3>1. CASE Len(out[n]) = 1
      BY <1>1, <1>3, <1>6, <2>2, <3>1
    <3>2. CASE Len(out[n]) # 1
      <4>1. Len(out[n]) = 2 /\ Tail(out[n]) = <<ABORT>>
        BY <1>1, <1>3, <2>2, <3>2
      <4>2. Len(out[n]) > 1 /\ Tail(out[n]) # <<>>
        BY <4>1
      <4>3. doing'[n] = "send" /\ out'[n] = Tail(out[n]) /\ left'[n] = SendTime
        BY <1>3, <1>6, <2>2, <3>2, <4>2
      <4> QED BY <4>2, <4>3, NetAssumption
    <3> QED BY <3>1, <3>2
  <2>3. listeners' \subseteq Nodes
    BY <1>4 DEF LoopTypes
  <2> QED BY <1>7, <1>8, <2>1, <2>2, <2>3 DEF Loops
<1>10. Powered'
  BY <1>2, <1>3, <1>6, <1>8 DEF Powered, ids
<1> QED BY <1>4, <1>5, <1>9, <1>10

LEMMA LoopInvNext ==
  ASSUME IInv, [Next]_vars
  PROVE  LoopInv'
<1>1. worn \subseteq worn' /\ given \subseteq given'
  BY IdsStay
<1>2. Got'
  BY <1>1, HeardNext DEF Got
<1>3. CASE UNCHANGED <<loopv, inbox, provisional_id>>
  BY <1>1, <1>2, <1>3, SaysStays
     DEF IInv, Typed, LoopInv, Got, LoopTypes, Loops, Powered, Sent, loopv
<1> QED BY <1>1, <1>2, <1>3, LoopSteps, TalksKeeps, StopKeeps, DealsKeeps, TickKeeps DEF LoopStep

-----------------------------------------------------------------------------
(* The ids: every step is one of the registry's, or leaves it alone.       *)
regv == <<life, given, provisional_id, my_id, worn, known_ids>>

LEMMA Gives ==
  ASSUME IInv, assign_new_id
  PROVE  \E i \in Ids, p \in Pids \cup Cuts : Registry!Give(i, p)
<1>1. PICK p \in Pids \cup Cuts : p = inbox[Hotspot].src
  BY Requested
<1>2. PICK i \in Ids : i = id_counter
  BY DEF IInv, Typed
<1>3. \A g \in given : g[1] = life => g[2] # i
  BY <1>2 DEF IInv, Fresh, Ids
<1>4. given' = given \cup {<<life, i, p>>} /\ UNCHANGED <<life, provisional_id, my_id, worn, known_ids>>
  BY <1>1, <1>2 DEF assign_new_id, hist
<1>5. Registry!Give(i, p)
  BY <1>3, <1>4 DEF Registry!Give
<1> QED BY <1>5

LEMMA Adopts ==
  ASSUME IInv, NEW s \in Sensors, handle_set(s)
  PROVE  \E i \in Names : Registry!Adopt(s, i)
<1>1. PICK i \in Names : i = inbox[s].val
  BY Given
<1>2. provisional_id[s] # NoPid
  BY DEF handle_set, IInv, Powered
<1>3. \E g \in given : g[3] = provisional_id[s] /\ (g[2] = i \/ i \in Cuts)
  BY <1>1, Given
<1>4. Registry!Adopt(s, i)
  BY <1>1, <1>2, <1>3 DEF handle_set, hist, Registry!Adopt, Registry!NoPid, NoPid
<1> QED BY <1>4

LEMMA Lists ==
  ASSUME IInv, NEW n \in Nodes, handle_ok(n)
  PROVE  (\E i \in Names : Registry!List(i)) \/ UNCHANGED regv
<1>1. CASE n # Hotspot
  BY <1>1 DEF handle_ok, hist, regv
<1>2. CASE n = Hotspot
  <2>1. PICK i \in Names : i = inbox[n].src /\ (i \in worn \/ (i \in Cuts /\ worn # {}))
    BY <1>2, HotspotNode, NoTextIsNone, SaidFields DEF handle_ok, IInv, Heard
  <2>2. known_ids' = known_ids \cup {i} \/ known_ids' = known_ids
    BY <1>2, <2>1 DEF handle_ok, register_device
  <2> QED BY <1>2, <2>1, <2>2 DEF handle_ok, hist, regv, Registry!List
<1> QED BY <1>1, <1>2

LEMMA Stops ==
  ASSUME IInv, NEW n \in Nodes, Stop(n)
  PROVE  Registry!HotspotRestarts \/ \E s \in Sensors : Registry!SensorStops(s)
<1>1. CASE n = Hotspot
  BY <1>1 DEF Stop, Registry!HotspotRestarts
<1>2. CASE n # Hotspot
  <2>1. n \in Sensors /\ provisional_id[n] # NoPid
    BY <1>2 DEF Nodes, Stop, IInv, Powered
  <2> QED BY <1>2, <2>1 DEF Stop, Registry!SensorStops, Registry!NoPid, NoPid, Registry!NoId, NoId
<1> QED BY <1>1, <1>2

LEMMA RegistrySteps ==
  ASSUME IInv, [Next]_vars
  PROVE  Registry!Next \/ UNCHANGED regv
<1>1. CASE UNCHANGED vars
  BY <1>1 DEF vars, ids, hist, regv
<1>2. CASE Tick
  BY <1>2 DEF Tick, ids, regv
<1>3. CASE User
  BY <1>3 DEF User, protocol_send_movement_request, protocol_send_command, protocol_send_abort,
              Command, ids, regv
<1>4. ASSUME NEW s \in Sensors, NEW p \in Pids, protocol_init(s, p) PROVE Registry!Next
  <2>1. Registry!Start(s, p)
    BY <1>4 DEF protocol_init, hist, IInv, Powered, Registry!Start, Registry!NoPid, NoPid
  <2> QED BY <2>1 DEF Registry!Next
<1>5. ASSUME NEW n \in Nodes, Hears(n) PROVE Registry!Next \/ UNCHANGED regv
  <2>1. CASE handle_ok(n)
    BY <2>1, Lists DEF Registry!Next, Names
  <2>2. CASE n = Hotspot /\ assign_new_id
    BY <2>2, Gives DEF Registry!Next
  <2>3. CASE n # Hotspot /\ handle_set(n)
    <3>1. n \in Sensors
      BY <2>3 DEF Nodes
    <3> QED BY <2>3, <3>1, Adopts DEF Registry!Next, Names
  <2>4. CASE Ignore(n) \/ handle_answer \/ handle_abort(n) \/ handle_movement(n)
    BY <2>4 DEF Ignore, handle_answer, handle_abort, handle_movement, ids, hist, regv
  <2> QED BY <1>5, <2>1, <2>2, <2>3, <2>4 DEF Hears
<1>6. ASSUME NEW n \in Nodes, Loop(n) \/ Stop(n) PROVE Registry!Next \/ UNCHANGED regv
  <2>1. CASE Stop(n)
    BY <2>1, Stops DEF Registry!Next
  <2>2. CASE Loop(n)
    BY <1>5, <2>2 DEF Loop, protocol_tick, Measured, ids, hist, regv
  <2> QED BY <1>6, <2>1, <2>2
<1> QED BY <1>1, <1>2, <1>3, <1>4, <1>6 DEF Next

LEMMA IdTypesNext ==
  ASSUME IInv, [Next]_vars
  PROVE  IdTypes'
<1> USE DEF IInv, Typed, IdTypes, Registry!NoPid, NoPid, Registry!NoId, NoId
<1>1. CASE UNCHANGED regv
  BY <1>1 DEF regv
<1>2. ASSUME NEW s \in Sensors, NEW p \in Pids, Registry!Start(s, p) PROVE IdTypes'
  BY <1>2 DEF Registry!Start
<1>3. ASSUME NEW i \in Ids, NEW p \in Pids \cup Cuts, Registry!Give(i, p) PROVE IdTypes'
  BY <1>3 DEF Registry!Give
<1>4. ASSUME NEW s \in Sensors, NEW i \in Names, Registry!Adopt(s, i) PROVE IdTypes'
  BY <1>4 DEF Registry!Adopt
<1>5. ASSUME NEW i \in Names, Registry!List(i) PROVE IdTypes'
  BY <1>5 DEF Registry!List
<1>6. ASSUME NEW s \in Sensors, Registry!SensorStops(s) PROVE IdTypes'
  BY <1>6 DEF Registry!SensorStops
<1>7. CASE Registry!HotspotRestarts
  BY <1>7 DEF Registry!HotspotRestarts
<1> QED BY <1>1, <1>2, <1>3, <1>4, <1>5, <1>6, <1>7, RegistrySteps DEF Registry!Next, Names

(* The counter moves only when an id is given, and starts again with the   *)
(* next life; the list grows by one id at a time, while there is room.     *)
LEMMA CounterSteps ==
  ASSUME [Next]_vars
  PROVE  \/ assign_new_id \/ \E n \in Nodes : Stop(n) \/ handle_ok(n)
         \/ UNCHANGED <<id_counter, life, given, known_ids>>
<1> USE DEF ids, hist
<1>1. CASE UNCHANGED vars \/ Tick \/ User
  BY <1>1 DEF vars, Tick, User, protocol_send_movement_request, protocol_send_command,
              protocol_send_abort, Command
<1>2. ASSUME NEW s \in Sensors, NEW p \in Pids, protocol_init(s, p)
      PROVE  UNCHANGED <<id_counter, life, given, known_ids>>
  BY <1>2 DEF protocol_init
<1>3. ASSUME NEW n \in Nodes, Hears(n)
      PROVE  \/ assign_new_id \/ handle_ok(n)
             \/ UNCHANGED <<id_counter, life, given, known_ids>>
  BY <1>3 DEF Hears, Ignore, handle_answer, handle_set, handle_abort, handle_movement
<1>4. ASSUME NEW n \in Nodes, Loop(n)
      PROVE  \/ assign_new_id \/ handle_ok(n)
             \/ UNCHANGED <<id_counter, life, given, known_ids>>
  BY <1>3, <1>4 DEF Loop, protocol_tick, Measured
<1> QED BY <1>1, <1>2, <1>4 DEF Next

LEMMA IdsFinite == \A S : S \subseteq Names => IsFiniteSet(S)
<1>1. IsFiniteSet(Ids)
  BY FS_Interval, NetAssumption DEF Ids
<1>2. IsFiniteSet(Names)
  BY <1>1, CutsApart, FS_Union DEF Names
<1> QED BY <1>2, FS_Subset

LEMMA CountsOn == \A i, m \in Nat : i < m - 1 => (i + 1) % m = i + 1 /\ i + 1 \in 1..m - 1
OBVIOUS

LEMMA CounterNext ==
  ASSUME IInv, [Next]_vars
  PROVE  id_counter' \in Ids /\ Fresh' /\ Listed'
<1> USE DEF IInv, Typed
<1>1. CASE assign_new_id
  <2>1. id_counter' = id_counter + 1 /\ id_counter + 1 \in Ids
    <3>1. id_counter' = (id_counter + 1) % IdSpace /\ id_counter < IdSpace - 1
      BY <1>1 DEF assign_new_id, next_id
    <3>2. id_counter \in Nat /\ IdSpace \in Nat
      BY NetAssumption DEF Ids
    <3> QED BY <3>1, <3>2, CountsOn DEF Ids
  <2>2. given' = given \cup {<<life, id_counter, inbox[Hotspot].src>>} /\ UNCHANGED <<life, known_ids>>
    BY <1>1 DEF assign_new_id, hist
  <2>3. \A g \in given : g[1] <= life /\ (g[1] = life => g[2] < id_counter + 1)
    BY DEF Fresh, IdTypes, Ids
  <2>4. Fresh'
    BY <2>1, <2>2, <2>3 DEF Fresh, IdTypes, Ids
  <2> QED BY <2>1, <2>2, <2>4 DEF Listed
<1>2. ASSUME NEW n \in Nodes, Stop(n) PROVE id_counter' \in Ids /\ Fresh' /\ Listed'
  <2>1. CASE n = Hotspot
    <3>1. id_counter' = 1 /\ known_ids' = {} /\ life' = life + 1 /\ given' = given
      BY <1>2, <2>1 DEF Stop
    <3>2. \A g \in given : g[1] <= life + 1 /\ g[1] # life + 1
      BY DEF Fresh, IdTypes
    <3>3. Fresh'
      BY <3>1, <3>2 DEF Fresh
    <3>4. Cardinality({}) = 0
      BY FS_EmptySet
    <3> QED BY <3>1, <3>3, <3>4, NetAssumption DEF Listed, Ids
  <2>2. CASE n # Hotspot
    BY <1>2, <2>2 DEF Stop, Fresh, Listed
  <2> QED BY <2>1, <2>2
<1>3. ASSUME NEW n \in Nodes, handle_ok(n) PROVE id_counter' \in Ids /\ Fresh' /\ Listed'
  <2>1. UNCHANGED <<id_counter, life, given>>
    BY <1>3 DEF handle_ok, hist
  <2>2. CASE known_ids' = known_ids
    BY <2>1, <2>2 DEF Fresh, Listed
  <2>3. CASE known_ids' = known_ids \cup {inbox[n].src} /\ Cardinality(known_ids) < MaxDevices
    <3>1. IsFiniteSet(known_ids)
      BY IdsFinite DEF IdTypes
    <3>2. Cardinality(known_ids) \in Nat
          /\ Cardinality(known_ids') \in {Cardinality(known_ids), Cardinality(known_ids) + 1}
      BY <2>3, <3>1, FS_AddElement, FS_CardinalityType
    <3>3. Listed'
      BY <2>3, <3>2, NetAssumption DEF Listed
    <3> QED BY <2>1, <3>3 DEF Fresh
  <2> QED BY <1>3, <2>2, <2>3 DEF handle_ok, register_device
<1>4. CASE UNCHANGED <<id_counter, life, given, known_ids>>
  BY <1>4 DEF Fresh, Listed
<1> QED BY <1>1, <1>2, <1>3, <1>4, CounterSteps

-----------------------------------------------------------------------------
(* The slot: a step fills it, closes it, or leaves it alone.               *)
slotv == <<pending, awaiting_ack, awaiting_response>>
Fills(n) ==
  \E type \in {"CONFIG", "MASTER", "SLAVE"}, m \in Texts, dest \in Addressees, ack \in BOOLEAN :
    \E wait : Await(n, type, m, dest, ack, wait) /\ Says(n, m)' /\ (n # Hotspot => dest = NoId)
Closes(n) ==
  /\ pending' = [pending EXCEPT ![n] = NoPending]
  /\ awaiting_ack' = [awaiting_ack EXCEPT ![n] = FALSE]
  /\ awaiting_response' = [awaiting_response EXCEPT ![n] = FALSE]

LEMMA SlotSteps ==
  ASSUME IInv, [Next]_vars
  PROVE  UNCHANGED slotv \/ \E n \in Nodes : Fills(n) \/ Closes(n)
<1> USE HotspotNode DEF IInv, Typed
<1>1. ASSUME assign_new_id PROVE Fills(Hotspot)
  <2>1. PICK p \in Pids \cup Cuts : p = inbox[Hotspot].src
    BY <1>1, Requested
  <2>2. PICK i \in Ids : i = id_counter
    OBVIOUS
  <2>3. SET(p, i) \in HotspotTexts /\ SET(p, i).val = i /\ SET(p, i).dest = p
    BY HotspotSends DEF SET, Text
  <2> DEFINE g == <<life, i, p>>
  <2>4. g \in given' /\ g[2] = i /\ g[3] = p
    BY <1>1, <2>1, <2>2 DEF assign_new_id
  <2> HIDE DEF g
  <2>5. Says(Hotspot, SET(p, i))' /\ SET(p, i) \in Texts
    BY <2>3, <2>4 DEF Says, HotspotSays, Texts
  <2>6. Await(Hotspot, "CONFIG", SET(p, i), i, TRUE, 0)
    BY <1>1, <2>1, <2>2 DEF assign_new_id
  <2> QED BY <2>2, <2>5, <2>6 DEF Fills, Addressees, Names
<1>2. ASSUME NEW s \in Sensors, NEW a \in {"YES", "NO"}, Measured(s, a) PROVE Fills(s)
  <2>1. PICK i \in Names \cup {NoId} : i = my_id[s]
    BY DEF IdTypes
  <2>2. Says(s, ANSWER(a, i))' /\ ANSWER(a, i) \in Texts
    BY SensorsSend DEF Says, SensorSays, Texts, ANSWER, Text
  <2>3. Await(s, "SLAVE", ANSWER(a, i), NoId, TRUE, 0)
    BY <1>2, <2>1 DEF Measured
  <2> QED BY <2>2, <2>3 DEF Fills, Addressees
<1>3. ASSUME NEW op \in {"ON"} \cup Commands, NEW i \in Targets, NEW ack \in BOOLEAN, NEW wait,
             Await(Hotspot, "MASTER", CMD(op, i), i, ack, wait)
      PROVE  Fills(Hotspot)
  <2>1. CMD(op, i) \in Texts /\ Says(Hotspot, CMD(op, i))'
    BY HotspotSends DEF Addressees, Texts, Says, HotspotSays, CMD, Text
  <2> QED BY <1>3, <2>1 DEF Fills, Addressees
<1>4. CASE User
  BY <1>3, <1>4 DEF User, protocol_send_movement_request, protocol_send_command, protocol_send_abort,
                    proto, slotv
<1>5. ASSUME NEW n \in Nodes, handle_ok(n) PROVE UNCHANGED slotv \/ Closes(n)
  <2>1. CASE UNCHANGED <<awaiting_ack, pending, retry_at>>
    BY <1>5, <2>1 DEF handle_ok, slotv
  <2>2. CASE closes(n, inbox[n])
    <3>1. ~awaiting_response[n]
      BY <2>2 DEF closes, Slots
    <3> QED BY <1>5, <2>2, <3>1 DEF handle_ok, Forget, Closes, SlotTypes
  <2> QED BY <1>5, <2>1, <2>2 DEF handle_ok
<1>6. ASSUME handle_answer PROVE UNCHANGED slotv \/ Closes(Hotspot)
  <2>1. CASE UNCHANGED <<awaiting_response, pending, retry_at>>
    BY <1>6, <2>1 DEF handle_answer, slotv
  <2>2. CASE awaiting_response[Hotspot] /\ inbox[Hotspot].src = pending[Hotspot].dest
    <3>1. ~awaiting_ack[Hotspot]
      BY <2>2 DEF Slots
    <3> QED BY <1>6, <2>2, <3>1 DEF handle_answer, Forget, Closes, SlotTypes
  <2> QED BY <1>6, <2>1, <2>2 DEF handle_answer
<1>7. ASSUME NEW n \in Nodes, Stop(n) PROVE Closes(n)
  BY <1>7 DEF Stop, Forget, Closes
<1>8. ASSUME NEW n \in Nodes, Hears(n) PROVE UNCHANGED slotv \/ \E k \in Nodes : Fills(k) \/ Closes(k)
  <2>1. CASE Ignore(n) \/ handle_set(n) \/ handle_abort(n) \/ handle_movement(n)
    BY <2>1 DEF Ignore, handle_set, handle_abort, handle_movement, proto, slotv
  <2> QED BY <1>1, <1>5, <1>6, <1>8, <2>1 DEF Hears
<1>9. ASSUME NEW n \in Nodes, Loop(n) PROVE UNCHANGED slotv \/ \E k \in Nodes : Fills(k) \/ Closes(k)
  <2>1. CASE protocol_tick(n)
    BY <2>1 DEF protocol_tick, slotv
  <2>2. CASE n # Hotspot /\ \E a \in {"YES", "NO"} : Measured(n, a)
    BY <1>2, <2>2 DEF Nodes
  <2> QED BY <1>8, <1>9, <2>1, <2>2 DEF Loop
<1>10. CASE Tick \/ UNCHANGED vars \/ \E s \in Sensors, p \in Pids : protocol_init(s, p)
  BY <1>10 DEF Tick, vars, protocol_init, proto, slotv
<1> QED BY <1>4, <1>7, <1>9, <1>10 DEF Next

LEMMA SlotsNext ==
  ASSUME IInv, [Next]_vars
  PROVE  SlotTypes' /\ Slots'
<1> USE HotspotNode DEF IInv, Typed
<1>1. worn \subseteq worn' /\ given \subseteq given'
  BY IdsStay
<1>2. CASE UNCHANGED slotv
  BY <1>1, <1>2, SaysStays DEF slotv, SlotTypes, Slots
<1>3. ASSUME NEW n \in Nodes, Fills(n) PROVE SlotTypes' /\ Slots'
  <2>1. PICK type \in {"CONFIG", "MASTER", "SLAVE"}, m \in Texts, dest \in Addressees, ack \in BOOLEAN :
          /\ pending' = [pending EXCEPT ![n] = [type |-> type, msg |-> m, dest |-> dest]]
          /\ awaiting_ack' = [awaiting_ack EXCEPT ![n] = ack]
          /\ awaiting_response' = [awaiting_response EXCEPT ![n] = ~ack]
          /\ Says(n, m)' /\ (n # Hotspot => dest = NoId)
    BY <1>3 DEF Fills, Await
  <2>2. SlotTypes'
    BY <2>1 DEF SlotTypes, Slot
  <2>3. ASSUME NEW k \in Nodes, k # n
        PROVE  /\ pending'[k] = pending[k] /\ awaiting_ack'[k] = awaiting_ack[k]
               /\ awaiting_response'[k] = awaiting_response[k]
    BY <2>1, <2>3 DEF SlotTypes
  <2>4. /\ pending'[n].type = type /\ pending'[n].msg = m /\ pending'[n].dest = dest
        /\ awaiting_ack'[n] = ack /\ awaiting_response'[n] = ~ack
    BY <2>1 DEF SlotTypes
  <2>5. ASSUME NEW k \in Nodes
        PROVE  /\ ~(awaiting_ack'[k] /\ awaiting_response'[k])
               /\ (awaiting_ack'[k] \/ awaiting_response'[k]) <=> pending'[k].type # "NONE"
               /\ pending'[k].type # "NONE" => Says(k, pending[k].msg)'
               /\ k # Hotspot => pending'[k].dest = NoId
    <3>1. CASE k = n
      BY <2>1, <2>4, <3>1
    <3>2. CASE k # n
      BY <1>1, <2>3, <3>2, SaysStays DEF Slots
    <3> QED BY <3>1, <3>2
  <2>6. Slots'
    BY <2>5 DEF Slots
  <2> QED BY <2>2, <2>6
<1>4. ASSUME NEW n \in Nodes, Closes(n) PROVE SlotTypes' /\ Slots'
  <2>1. NoPending \in Slot /\ NoPending.type = "NONE" /\ NoPending.dest = NoId
    BY DEF NoPending, Slot, Addressees
  <2>2. SlotTypes'
    BY <1>4, <2>1 DEF Closes, SlotTypes
  <2>3. Slots'
    BY <1>1, <1>4, <2>1, SaysStays DEF Closes, SlotTypes, Slots
  <2> QED BY <2>2, <2>3
<1> QED BY <1>2, <1>3, <1>4, SlotSteps

-----------------------------------------------------------------------------
(* The invariant holds.                                                    *)
LEMMA ShownTyped ==
  ASSUME DOMAIN shown = Sensors, [Next]_vars
  PROVE  DOMAIN shown' = Sensors
<1>1. ASSUME NEW n \in Nodes, Hears(n) PROVE DOMAIN shown' = Sensors
  BY <1>1 DEF Hears, handle_ok, Ignore, assign_new_id, handle_answer, told, handle_set, handle_abort,
              handle_movement
<1>2. ASSUME NEW n \in Nodes, Loop(n) \/ Stop(n) PROVE DOMAIN shown' = Sensors
  BY <1>1, <1>2 DEF Loop, Stop, protocol_tick, told, Measured
<1>3. CASE User
  BY <1>3 DEF User, protocol_send_movement_request, protocol_send_command, told, protocol_send_abort
<1> QED BY <1>2, <1>3 DEF Next, Tick, vars, protocol_init

LEMMA InitIInv == Init => IInv
<1> SUFFICES ASSUME Init PROVE IInv
  OBVIOUS
<1> USE HotspotNode, NetAssumption DEF Init
<1>1. Typed
  BY DEF Typed, IdTypes, SlotTypes, LoopTypes, Slot, NoPending, Ids, Addressees
<1>2. Listed /\ Fresh
  BY FS_EmptySet DEF Listed, Fresh
<1>3. Slots /\ Loops /\ Powered /\ Sent /\ Heard
  BY DEF Slots, NoPending, Loops, Powered, Sent, Heard
<1> QED BY <1>1, <1>2, <1>3 DEF IInv

LEMMA NextIInv == IInv /\ [Next]_vars => IInv'
BY LoopInvNext, IdTypesNext, CounterNext, SlotsNext, ShownTyped DEF IInv, Typed, LoopInv

LEMMA IInvHolds == Spec => []IInv
<1>1. Init => IInv
  BY InitIInv
<1>2. IInv /\ [Next]_vars => IInv'
  BY NextIInv
<1> QED BY <1>1, <1>2, PTL DEF Spec

(* main.cpp:180-193, protocol.c:28-48, 161-192, 242-289.  Every state is   *)
(* well typed: the list never holds more than MAX_DEVICES ids, a board     *)
(* waits for one answer at a time, and hears only while it is idle.        *)
THEOREM TypeCorrect == Spec => []TypeOK
<1>1. IInv => TypeOK
  BY DEF IInv, Typed, IdTypes, Names, Listed, Slots, Loops, TypeOK
<1> QED BY <1>1, IInvHolds, PTL

(* protocol.c:161-192, 198-211, 227-264, 318-357.  Whatever is lost,       *)
(* repeated, superseded or cut off, also where the beginning of a text is  *)
(* taken for one, and however often boards restart, ids are given out,     *)
(* taken and listed as IdRegistry says: every step of the boards is a step *)
(* of the registry or leaves it alone.                                     *)
THEOREM IdsAreRegistered == Spec => ImplementsRegistry
<1>1. Init => Registry!Init
  BY DEF Init, Registry!Init, Registry!NoPid, NoPid, Registry!NoId, NoId
<1>2. IInv /\ [Next]_vars => [Registry!Next]_Registry!vars
  BY RegistrySteps DEF regv, Registry!vars
<1> QED BY <1>1, <1>2, IInvHolds, PTL DEF Spec, ImplementsRegistry, Registry!Spec

-----------------------------------------------------------------------------
(* What a board hears, has kept and has to deal with stay apart.           *)
LEMMA InboxChannel ==
  ASSUME IInv, NEW n \in Nodes, inbox[n] # NoText
  PROVE  inbox[n].ch # "NONE" /\ doing[n] = "idle"
BY SaidFields DEF IInv, Heard, Loops

LEMMA Heads ==
  ASSUME IInv, NEW k \in Nodes, out[k] # <<>>
  PROVE  /\ Head(out[k]) \in Texts /\ Says(k, Head(out[k]))
         /\ \A t \in Beginnings(Head(out[k])) :
              /\ t.ch = Head(out[k]).ch /\ t.dest = Head(out[k]).dest
              /\ t.ch = "MASTER" => t.op = Head(out[k]).op
<1>1. Head(out[k]) \in Texts /\ Says(k, Head(out[k]))
  <2>1. ABORT \in Texts /\ Says(Hotspot, ABORT)
    BY HotspotSends DEF Says, HotspotSays, Texts, ABORT, CMD, Text, Addressees
  <2> QED BY <2>1 DEF IInv, Sent
<1> QED BY <1>1, PieceFields

LEMMA ApartTalks ==
  ASSUME IInv, Apart, NEW n \in Nodes, NEW msgs, Talks(n, msgs)
  PROVE  Apart'
<1> USE HotspotNode, NoTextIsNone DEF IInv, Typed
<1>1. /\ doing' = [doing EXCEPT ![n] = "send"] /\ out' = [out EXCEPT ![n] = msgs]
      /\ left' = [left EXCEPT ![n] = SendTime] /\ inbox' = [inbox EXCEPT ![n] = NoText]
      /\ listeners' = Audience(n) /\ CutOff(listeners, Unmixed(n, Head(msgs)))
  BY DEF Talks, Send, Take
<1>2. \A k \in Nodes : \/ part'[k] = Unmixed(n, Head(msgs))[k]
                       \/ k \in listeners /\ part'[k] \in Begun
  BY <1>1, CutsOff, UnmixedTyped DEF LoopTypes
<1>3. ASSUME listeners' # {}
      PROVE  /\ \A k \in listeners', j \in OnAir' : part'[k] # NoText => Head(out'[j]).ch # part'[k].ch
             /\ Begun' = {}
  <2>1. OnAir = {} /\ Begun = {}
    BY <1>1, <1>3 DEF Audience, Begun
  <2>2. OnAir' \subseteq {n}
    BY <1>1, <2>1 DEF OnAir, LoopTypes
  <2>3. left'[n] = SendTime /\ out'[n] = msgs
    BY <1>1 DEF LoopTypes
  <2>4. ASSUME NEW k \in listeners' PROVE part'[k] # NoText => Head(msgs).ch # part'[k].ch
    BY <1>1, <1>2, <2>1 DEF Unmixed, Audience
  <2>5. {j \in OnAir' : left'[j] < SendTime} = {}
    BY <2>2, <2>3, NetAssumption
  <2>6. Begun' = {}
    BY <2>5 DEF Begun
  <2> QED BY <2>2, <2>3, <2>4, <2>6
<1>4. ASSUME NEW k \in Nodes, inbox'[k] # NoText PROVE part'[k].ch # inbox'[k].ch
  <2>1. inbox'[k] = inbox[k] /\ k # n
    BY <1>1, <1>4 DEF LoopTypes
  <2>2. part'[k] \in {part[k], NoText} \/ (k \in listeners /\ part'[k] \in Begun)
    BY <1>2, UnmixedTyped
  <2> QED BY <1>4, <2>1, <2>2, InboxChannel DEF Apart
<1>5. ASSUME NEW s \in Sensors, doing'[s] = "measure" PROVE part'[s].ch # "MASTER"
  <2>1. doing[s] = "measure" /\ s \notin listeners
    BY <1>1, <1>5 DEF LoopTypes, Loops
  <2>2. part'[s] \in {part[s], NoText}
    BY <1>2, <2>1, UnmixedTyped
  <2> QED BY <2>1, <2>2 DEF Apart
<1> QED BY <1>3, <1>4, <1>5 DEF Apart

LEMMA ApartMeasures ==
  ASSUME IInv, Apart, NEW n \in Nodes, Measures(n)
  PROVE  Apart'
<1> USE HotspotNode, NoTextIsNone DEF IInv, Typed
<1>1. /\ doing' = [doing EXCEPT ![n] = "measure"] /\ left' = [left EXCEPT ![n] = MeasureTime]
      /\ doing[n] = "idle" /\ listeners' = listeners \ {n} /\ CutOff(listeners \cap {n}, part)
      /\ inbox' = [inbox EXCEPT ![n] = NoText] /\ inbox[n].ch = "MASTER" /\ out' = out
  BY DEF Measures, Take
<1>2. \A k \in Nodes : part'[k] = part[k] \/ (k = n /\ n \in listeners /\ part'[k] \in Begun)
  <2>1. PICK L \in SUBSET listeners : L = listeners \cap {n}
    OBVIOUS
  <2>2. CutOff(L, part) /\ listeners \subseteq Nodes /\ part \in [Nodes -> Pieces \cup {NoText}]
    BY <1>1, <2>1 DEF LoopTypes
  <2> QED BY <2>1, <2>2, CutsOff
<1>3. OnAir' = OnAir
  BY <1>1 DEF OnAir, LoopTypes
<1>4. n \notin OnAir
  BY <1>1 DEF OnAir
<1>5. {j \in OnAir' : left'[j] < SendTime} = {j \in OnAir : left[j] < SendTime}
  BY <1>1, <1>3, <1>4 DEF OnAir, LoopTypes
<1>6. Begun' = Begun
  BY <1>1, <1>5 DEF Begun
<1>7. ASSUME NEW k \in Nodes, k # n PROVE part'[k] = part[k] /\ inbox'[k] = inbox[k] /\ doing'[k] = doing[k]
  BY <1>1, <1>2, <1>7 DEF LoopTypes
<1>8. inbox'[n] = NoText /\ part'[n].ch # "MASTER"
  BY <1>1, <1>2 DEF Apart, LoopTypes
<1> QED BY <1>1, <1>3, <1>6, <1>7, <1>8 DEF Apart, LoopTypes

LEMMA ApartStops ==
  ASSUME IInv, Apart, NEW n \in Nodes, Stop(n)
  PROVE  Apart'
<1> USE HotspotNode, NoTextIsNone DEF IInv, Typed
<1> DEFINE L == IF doing[n] = "send" THEN listeners ELSE {}
           kept == [part EXCEPT ![n] = NoText]
<1>1. /\ doing' = [doing EXCEPT ![n] = IF n = Hotspot THEN "idle" ELSE "off"]
      /\ out' = [out EXCEPT ![n] = <<>>] /\ left' = [left EXCEPT ![n] = 0]
      /\ inbox' = [inbox EXCEPT ![n] = NoText]
      /\ listeners' = IF doing[n] = "send" THEN {} ELSE listeners \ {n}
      /\ CutOff(L, kept)
  BY DEF Stop, Take
<1>2. \A k \in Nodes : part'[k] = kept[k] \/ (k \in L /\ part'[k] \in Begun)
  <2>1. L \in SUBSET listeners /\ kept \in [Nodes -> Pieces \cup {NoText}] /\ listeners \subseteq Nodes
    BY DEF LoopTypes
  <2> HIDE DEF L, kept
  <2> QED BY <1>1, <2>1, CutsOff
<1>3. \A k \in Nodes : \/ part'[k] \in {part[k], NoText}
                       \/ k \in listeners /\ part'[k] \in Begun /\ doing[n] = "send"
  BY <1>2 DEF LoopTypes
<1>4. ASSUME NEW k \in listeners'
      PROVE  /\ \A j \in OnAir' : part'[k] # NoText => Head(out'[j]).ch # part'[k].ch
             /\ \A t \in Begun' : inbox'[k] # NoText => t.ch # inbox'[k].ch
  <2> doing[n] # "send"
    BY <1>1, <1>4
  <2>1. OnAir' = OnAir /\ n \notin OnAir
    BY <1>1 DEF OnAir, LoopTypes
  <2>2. /\ \A j \in OnAir : out'[j] = out[j]
        /\ {j \in OnAir' : left'[j] < SendTime} = {j \in OnAir : left[j] < SendTime}
    BY <1>1, <2>1 DEF OnAir, LoopTypes
  <2>3. Begun' = Begun
    BY <2>2 DEF Begun
  <2>4. k \in listeners /\ k \in Nodes /\ inbox'[k] \in {inbox[k], NoText} /\ part'[k] \in {part[k], NoText}
    BY <1>1, <1>3, <1>4 DEF LoopTypes
  <2> QED BY <2>1, <2>2, <2>3, <2>4 DEF Apart
<1>5. ASSUME NEW k \in Nodes, inbox'[k] # NoText PROVE part'[k].ch # inbox'[k].ch
  <2>1. inbox'[k] = inbox[k]
    BY <1>1, <1>5 DEF LoopTypes
  <2> QED BY <1>3, <1>5, <2>1, InboxChannel DEF Apart
<1>6. ASSUME NEW s \in Sensors, doing'[s] = "measure" PROVE part'[s].ch # "MASTER"
  <2>1. doing[s] = "measure" /\ s \notin listeners
    BY <1>1, <1>6 DEF LoopTypes, Loops
  <2> QED BY <1>3, <2>1 DEF Apart
<1> QED BY <1>4, <1>5, <1>6 DEF Apart

LEMMA NotOne == \A l \in Nat : l > 1 => l # 1
OBVIOUS

LEMMA ApartTick ==
  ASSUME IInv, Apart, Tick
  PROVE  Apart'
<1> USE HotspotNode, NoTextIsNone DEF IInv, Typed
<1>1. ASSUME NEW n \in Nodes
      PROVE  /\ doing'[n] = (IF n \in Ending /\ Len(out[n]) = 1 THEN "idle" ELSE doing[n])
             /\ out'[n] = (IF n \in Ending THEN Tail(out[n]) ELSE out[n])
             /\ left'[n] = (IF n \in Ending /\ Len(out[n]) > 1 THEN SendTime
                              ELSE IF left[n] > 0 THEN left[n] - 1 ELSE 0)
             /\ Unflushed[n] = (IF doing'[n] = "idle" THEN NoText ELSE part[n])
  BY DEF Tick, Unflushed
<1>2. OnAir' \subseteq OnAir
  BY <1>1 DEF OnAir, Loops
<1>3. CASE Ending = {}
  <2>1. inbox' = Flush({}, NoText) /\ part' = Unflushed /\ listeners' = listeners
    BY <1>3 DEF Tick
  <2>2. \A k \in Nodes : /\ inbox'[k] = IF doing[k] = "idle" THEN part[k] ELSE NoText
                         /\ part'[k] = IF doing[k] = "idle" THEN NoText ELSE part[k]
                         /\ doing'[k] = doing[k] /\ out'[k] = out[k]
    BY <1>1, <1>3, <2>1 DEF Flush
  <2>3. ASSUME NEW t \in Begun' PROVE \E j \in OnAir : t.ch = Head(out[j]).ch
    <3>1. PICK j \in OnAir' : t \in Beginnings(Head(out[j]))'
      BY DEF Begun
    <3>2. t \in Beginnings(Head(out[j])) /\ j \in OnAir
      BY <1>2, <2>2, <3>1 DEF OnAir, Beginnings
    <3>3. j \in Nodes /\ out[j] # <<>>
      BY <3>2 DEF OnAir, Loops
    <3>4. t.ch = Head(out[j]).ch
      BY <3>2, <3>3, Heads
    <3> QED BY <3>2, <3>4
  <2>4. ASSUME NEW k \in listeners'
        PROVE  /\ \A j \in OnAir' : part'[k] # NoText => Head(out'[j]).ch # part'[k].ch
               /\ \A t \in Begun' : inbox'[k] # NoText => t.ch # inbox'[k].ch
    <3>1. k \in Nodes /\ k \in listeners /\ part'[k] = NoText /\ inbox'[k] = part[k]
      BY <2>1, <2>2 DEF Loops, LoopTypes
    <3>2. \A j \in OnAir : part[k] # NoText => Head(out[j]).ch # part[k].ch
      BY <3>1 DEF Apart
    <3> QED BY <2>3, <3>1, <3>2
  <2>5. ASSUME NEW k \in Nodes, inbox'[k] # NoText PROVE part'[k].ch # inbox'[k].ch
    <3>1. inbox'[k] = part[k] /\ part'[k] = NoText
      BY <2>2, <2>5
    <3>2. part[k].ch # "NONE"
      BY <2>5, <3>1, SaidFields DEF Heard
    <3> QED BY <3>1, <3>2
  <2>6. ASSUME NEW k \in Sensors, doing'[k] = "measure" PROVE part'[k].ch # "MASTER"
    BY <2>2, <2>6 DEF Apart
  <2> QED BY <2>4, <2>5, <2>6 DEF Apart
<1>4. ASSUME NEW n \in Ending, NEW L \in SUBSET Reaches(n, Head(out[n])), NEW K \in SUBSET (listeners \ L),
             inbox' = Flush(L, Head(out[n])), Keeps(K, Beginnings(Head(out[n])), Unflushed),
             K # {} => Len(out[n]) = 1,
             listeners' = IF Len(out[n]) > 1 /\ OnAir = {n}
                            THEN {m \in Nodes \ {n} : doing[m] = "idle"} ELSE {}
      PROVE  Apart'
  <2>1. n \in OnAir /\ L \subseteq listeners /\ \A k \in listeners : doing[k] = "idle" /\ k \in Nodes
    BY DEF Ending, OnAir, Reaches, Loops, LoopTypes
  <2>2. ASSUME NEW k \in Nodes
        PROVE  /\ inbox'[k] = IF k \in L THEN Head(out[n]) ELSE IF doing'[k] = "idle" THEN part[k] ELSE NoText
               /\ \/ k \in K /\ part'[k] \in Beginnings(Head(out[n]))
                  \/ k \notin K /\ part'[k] = IF doing'[k] = "idle" THEN NoText ELSE part[k]
    <3>1. PICK t \in [K -> Beginnings(Head(out[n]))] :
            part' = [j \in Nodes |-> IF j \in K THEN t[j] ELSE Unflushed[j]]
      BY <1>4 DEF Keeps
    <3> QED BY <1>1, <1>4, <3>1 DEF Flush
  <2>3. ASSUME NEW k \in Nodes, doing[k] = "idle" PROVE doing'[k] = "idle"
    BY <1>1, <2>3
  <2>4. \A t \in Beginnings(Head(out[n])) : t.ch = Head(out[n]).ch
    BY <2>1, Heads DEF OnAir, Loops
  <2>5. ASSUME NEW k \in listeners'
        PROVE  part'[k] = NoText /\ Begun' = {}
    <3>0. Len(out[n]) > 1 /\ OnAir = {n} /\ k \in Nodes /\ doing[k] = "idle"
      BY <1>4, <2>5
    <3>1. Len(out[n]) # 1
      <4>1. Len(out[n]) \in Nat
        <5>1. out[n] \in Seq(Texts)
          BY <2>1 DEF OnAir, LoopTypes
        <5> QED BY <5>1
      <4> QED BY <3>0, <4>1, NotOne
    <3>2. K = {}
      BY <1>4, <3>1
    <3>3. left'[n] = SendTime
      BY <1>1, <3>0 DEF Ending
    <3>4. {j \in OnAir' : left'[j] < SendTime} = {}
      BY <1>2, <3>0, <3>3, NetAssumption
    <3>5. Begun' = {}
      BY <3>4 DEF Begun
    <3> QED BY <2>2, <2>3, <3>0, <3>2, <3>5
  <2>6. ASSUME NEW k \in Nodes, inbox'[k] # NoText PROVE part'[k].ch # inbox'[k].ch
    <3>1. CASE k \in L
      <4>1. part'[k] = NoText /\ inbox'[k] = Head(out[n])
        BY <2>1, <2>2, <2>3, <3>1
      <4>2. Head(out[n]).ch # "NONE"
        <5>1. Head(out[n]) \in Had(k)
          BY <2>1, <3>1 DEF Had, AirOf, Reaches, Beginnings
        <5> QED BY <2>6, <4>1, <5>1, HadIsSaid, SaidFields
      <4> QED BY <4>1, <4>2
    <3>2. CASE k \notin L
      <4>1. inbox'[k] = part[k] /\ part[k] # NoText /\ doing'[k] = "idle"
        BY <2>2, <2>6, <3>2
      <4>2. part[k].ch # "NONE"
        BY <4>1, SaidFields DEF Heard
      <4>3. CASE k \in K
        BY <2>1, <2>2, <2>4, <4>1, <4>3 DEF Apart
      <4>4. CASE k \notin K
        BY <2>2, <4>1, <4>2, <4>4
      <4> QED BY <4>3, <4>4
    <3> QED BY <3>1, <3>2
  <2>7. ASSUME NEW s \in Sensors, doing'[s] = "measure" PROVE part'[s].ch # "MASTER"
    <3>1. doing[s] = "measure" /\ s \notin K
      BY <1>1, <2>1, <2>7
    <3> QED BY <2>2, <2>7, <3>1 DEF Apart
  <2> QED BY <2>5, <2>6, <2>7 DEF Apart
<1> QED BY <1>3, <1>4 DEF Tick

LEMMA ApartNext ==
  ASSUME IInv, Apart, [Next]_vars
  PROVE  Apart'
<1>1. ASSUME NEW n \in Nodes, Deals(n) PROVE Apart'
  <2>1. inbox' = [inbox EXCEPT ![n] = NoText] /\ UNCHANGED loopv
    BY <1>1 DEF Deals, Take
  <2>2. \A k \in Nodes : inbox'[k] \in {inbox[k], NoText}
    BY <2>1 DEF IInv, Typed, LoopTypes
  <2>3. OnAir' = OnAir /\ Begun' = Begun
    BY <2>1 DEF loopv, OnAir, Begun, Beginnings
  <2> QED BY <2>1, <2>2, <2>3 DEF Apart, loopv, IInv, Typed, LoopTypes
<1>2. CASE UNCHANGED <<loopv, inbox, provisional_id>>
  <2>1. OnAir' = OnAir /\ Begun' = Begun
    BY <1>2 DEF loopv, OnAir, Begun, Beginnings
  <2> QED BY <1>2, <2>1 DEF Apart, loopv
<1> QED BY <1>1, <1>2, ApartTalks, ApartMeasures, ApartStops, ApartTick, LoopSteps DEF LoopStep

-----------------------------------------------------------------------------
(* While a sensor repeats an answer, what was shown stays shown; a new     *)
(* answer begins with nothing.                                             *)
LEMMA Waiting ==
  ASSUME IInv, [Next]_vars, NEW s \in Sensors, awaiting_ack'[s]
  PROVE  (\E a \in {"YES", "NO"} : Measured(s, a)) \/ (awaiting_ack[s] /\ shown[s] \subseteq shown'[s])
<1> USE HotspotNode DEF IInv, Typed
<1>1. ASSUME NEW type, NEW msg, NEW dest, NEW ack, NEW wait, Await(Hotspot, type, msg, dest, ack, wait)
      PROVE  awaiting_ack'[s] = awaiting_ack[s]
  BY <1>1 DEF Await, SlotTypes
<1>2. ASSUME NEW n \in Nodes, Hears(n) PROVE awaiting_ack[s] /\ shown[s] \subseteq shown'[s]
  <2>1. CASE handle_ok(n)
    BY <2>1 DEF handle_ok, SlotTypes
  <2>2. CASE Ignore(n) \/ handle_set(n) \/ handle_abort(n) \/ handle_movement(n)
    BY <2>2 DEF Ignore, handle_set, handle_abort, handle_movement, proto
  <2>3. CASE assign_new_id
    BY <1>1, <2>3 DEF assign_new_id
  <2>4. CASE handle_answer
    BY <2>4 DEF handle_answer, told
  <2> QED BY <1>2, <2>1, <2>2, <2>3, <2>4 DEF Hears
<1>3. ASSUME NEW n \in Nodes, protocol_tick(n) PROVE awaiting_ack[s] /\ shown[s] \subseteq shown'[s]
  BY <1>3 DEF protocol_tick, told
<1>4. ASSUME NEW t \in Sensors, t # s, NEW a, Measured(t, a) PROVE awaiting_ack[s] /\ shown[s] \subseteq shown'[s]
  BY <1>4 DEF Measured, Await, SlotTypes
<1>5. ASSUME NEW n \in Nodes, Stop(n) PROVE awaiting_ack[s] /\ shown[s] \subseteq shown'[s]
  BY <1>5 DEF Stop, SlotTypes
<1>6. CASE User
  BY <1>1, <1>6 DEF User, protocol_send_movement_request, protocol_send_command, protocol_send_abort, told,
                    proto
<1>7. CASE Tick \/ UNCHANGED vars \/ \E t \in Sensors, p \in Pids : protocol_init(t, p)
  BY <1>7 DEF Tick, vars, protocol_init, proto
<1> QED BY <1>2, <1>3, <1>4, <1>5, <1>6, <1>7 DEF Next, Loop, Nodes

(* What a sensor has, or is hearing, was shown.                            *)
LEMMA HadSeen ==
  ASSUME IInv, OksAreShown, NEW s \in Sensors, awaiting_ack[s], NEW t \in Had(s)
  PROVE  OkSeen(s, t)
<1> USE HotspotNode, NoTextIsNone DEF IInv, Typed
<1>1. CASE t \in {NoText, inbox[s], part[s]}
  BY <1>1 DEF OksAreShown, OkSeen
<1>2. ASSUME s \in listeners, NEW k \in OnAir, t \in Beginnings(Head(out[k])) PROVE OkSeen(s, t)
  <2>1. k \in Nodes /\ out[k] # <<>>
    BY <1>2 DEF OnAir, Loops
  <2>2. t.ch = Head(out[k]).ch /\ t.dest = Head(out[k]).dest /\ (t.ch = "MASTER" => t.op = Head(out[k]).op)
    BY <1>2, <2>1, Heads
  <2>3. CASE k = Hotspot
    BY <1>2, <2>1, <2>2, <2>3 DEF OksAreShown, OkSeen
  <2>4. CASE k # Hotspot
    <3>1. PICK m \in Texts : SensorSays(m) /\ out[k] = <<m>>
      BY <2>1, <2>4 DEF Sent, Says
    <3>2. Head(out[k]) = m /\ m.ch # "MASTER"
      BY <3>1, SensorTextFields DEF SensorSays
    <3> QED BY <2>2, <3>2 DEF OkSeen
  <2> QED BY <2>3, <2>4
<1> QED BY <1>1, <1>2 DEF Had, AirOf

(* An OK the hotspot begins to send is shown for every sensor that waits.  *)
LEMMA HotspotSpeaks ==
  ASSUME IInv, [Next]_vars, NEW s \in Sensors, awaiting_ack[s], doing[Hotspot] # "send", out'[Hotspot] # <<>>
  PROVE  OkSeen(s, Head(out[Hotspot]))'
<1> USE HotspotNode DEF IInv, Typed
<1> SUFFICES ASSUME Head(out'[Hotspot]).op = "OK", Head(out'[Hotspot]).ch = "MASTER"
             PROVE  Head(out'[Hotspot]).dest \in shown'[s]
  BY DEF OkSeen
<1>1. out[Hotspot] = <<>>
  BY DEF Loops
<1>2. ASSUME NEW n \in Sensors, NEW msgs, Send(n, msgs) PROVE FALSE
  BY <1>1, <1>2 DEF Send, LoopTypes
<1>3. ASSUME NEW m, Send(Hotspot, <<m>>) PROVE Head(out'[Hotspot]) = m
  BY <1>3 DEF Send, LoopTypes
<1>4. ASSUME NEW m, Send(Hotspot, <<m>>), shown' = told(m) PROVE Head(out'[Hotspot]).dest \in shown'[s]
  BY <1>3, <1>4 DEF told
<1>5. CASE assign_new_id
  <2>1. PICK m : m = SET(inbox[Hotspot].src, id_counter)
    OBVIOUS
  <2>2. m.op = "SET"
    BY <2>1 DEF SET, Text
  <2> QED BY <1>3, <1>5, <2>1, <2>2 DEF assign_new_id
<1>6. CASE handle_answer
  BY <1>4, <1>6 DEF handle_answer
<1>7. CASE protocol_tick(Hotspot)
  BY <1>4, <1>7 DEF protocol_tick
<1>8. ASSUME NEW i, protocol_send_movement_request(i) PROVE FALSE
  BY <1>3, <1>8 DEF protocol_send_movement_request, CMD, Text
<1>9. ASSUME NEW op, NEW i, protocol_send_command(op, i) PROVE Head(out'[Hotspot]).dest \in shown'[s]
  BY <1>4, <1>9 DEF protocol_send_command
<1>10. CASE protocol_send_abort
  <2>1. Head(out'[Hotspot]) = ABORT
    BY <1>10 DEF protocol_send_abort, Send, LoopTypes
  <2> QED BY <2>1, HotspotSends
<1>11. ASSUME NEW n \in Nodes, Hears(n) PROVE Head(out'[Hotspot]).dest \in shown'[s]
  <2>1. CASE handle_ok(n) \/ Ignore(n) \/ handle_abort(n) \/ handle_movement(n)
    BY <1>1, <2>1 DEF handle_ok, Ignore, handle_abort, handle_movement, loopv
  <2>2. CASE n # Hotspot /\ handle_set(n)
    BY <1>2, <2>2 DEF handle_set, Nodes
  <2> QED BY <1>5, <1>6, <1>11, <2>1, <2>2 DEF Hears
<1>12. ASSUME NEW n \in Nodes, protocol_tick(n) PROVE Head(out'[Hotspot]).dest \in shown'[s]
  BY <1>2, <1>7, <1>12 DEF protocol_tick, Nodes
<1>13. ASSUME NEW n \in Nodes, n # Hotspot, NEW a, Measured(n, a) PROVE FALSE
  BY <1>2, <1>13 DEF Measured, Nodes
<1>14. ASSUME NEW n \in Nodes, Stop(n) PROVE FALSE
  BY <1>1, <1>14 DEF Stop, LoopTypes
<1>15. ASSUME NEW t \in Sensors, NEW p \in Pids, protocol_init(t, p) PROVE FALSE
  BY <1>2, <1>15 DEF protocol_init
<1>16. ASSUME Tick \/ UNCHANGED vars PROVE FALSE
  BY <1>1, <1>16 DEF Tick, Ending, vars, loopv
<1> QED BY <1>8, <1>9, <1>10, <1>11, <1>12, <1>13, <1>14, <1>15, <1>16 DEF Next, Loop, User

LEMMA OksNext ==
  ASSUME IInv, Apart, OksAreShown, [Next]_vars
  PROVE  OksAreShown'
<1> USE HotspotNode, NoTextIsNone DEF IInv, Typed
<1> SUFFICES ASSUME NEW s \in Sensors, awaiting_ack'[s]
             PROVE  /\ OkSeen(s, inbox[s])' /\ OkSeen(s, part[s])'
                    /\ (s \in listeners' /\ out'[Hotspot] # <<>>) => OkSeen(s, Head(out[Hotspot]))'
  BY DEF OksAreShown
<1>1. ASSUME NEW a \in {"YES", "NO"}, Measured(s, a)
      PROVE  /\ OkSeen(s, inbox[s])' /\ OkSeen(s, part[s])' /\ s \notin listeners'
  <2>1. inbox'[s] = NoText /\ s \notin listeners /\ doing[s] = "measure"
    BY <1>1 DEF Measured, Loops
  <2>2. Send(s, <<ANSWER(a, my_id[s])>>)
    BY <1>1 DEF Measured
  <2>3. part'[s] \in {part[s], NoText}
    <3>1. CutOff(listeners, Unmixed(s, Head(<<ANSWER(a, my_id[s])>>))) /\ listeners \subseteq Nodes
      BY <2>2 DEF Send, LoopTypes
    <3> QED BY <2>1, <3>1, CutsOff, UnmixedTyped
  <2>4. part'[s].ch # "MASTER"
    BY <2>1, <2>3 DEF Apart
  <2>5. s \notin listeners'
    BY <2>2 DEF Send, Audience
  <2> QED BY <2>1, <2>4, <2>5 DEF OkSeen
<1>2. ASSUME awaiting_ack[s], shown[s] \subseteq shown'[s]
      PROVE  /\ OkSeen(s, inbox[s])' /\ OkSeen(s, part[s])'
             /\ (s \in listeners' /\ out'[Hotspot] # <<>>) => OkSeen(s, Head(out[Hotspot]))'
  <2>1. ASSUME NEW t, OkSeen(s, t) PROVE (t.op = "OK" /\ t.ch = "MASTER") => t.dest \in shown'[s]
    BY <1>2, <2>1 DEF OkSeen
  <2>2. OkSeen(s, inbox[s])' /\ OkSeen(s, part[s])'
    <3>1. inbox'[s] \in Had(s) /\ part'[s] \in Had(s)
      BY StepsCome DEF Come, Comes
    <3> QED BY <1>2, <2>1, <3>1, HadSeen DEF OkSeen
  <2>3. ASSUME s \in listeners', out'[Hotspot] # <<>>, s \in listeners, out'[Hotspot] = out[Hotspot]
        PROVE  OkSeen(s, Head(out[Hotspot]))'
    BY <1>2, <2>1, <2>3 DEF OksAreShown, OkSeen
  <2>4. ASSUME s \in listeners', out'[Hotspot] # <<>>, NEW n \in Nodes, NEW msgs, Talks(n, msgs)
        PROVE  OkSeen(s, Head(out[Hotspot]))'
    <3>1. CASE n = Hotspot
      BY <1>2, <2>4, <3>1, HotspotSpeaks DEF Talks
    <3>2. CASE n # Hotspot
      <4>1. OnAir = {}
        BY <2>4 DEF Talks, Send, Audience
      <4>2. doing[Hotspot] # "send"
        BY <4>1 DEF OnAir, Loops
      <4>3. out'[Hotspot] = <<>>
        BY <2>4, <3>2, <4>2 DEF Talks, Send, LoopTypes, Loops
      <4> QED BY <2>4, <4>3
    <3> QED BY <3>1, <3>2
  <2>5. ASSUME s \in listeners', out'[Hotspot] # <<>>, Tick
        PROVE  OkSeen(s, Head(out[Hotspot]))'
    <3>1. CASE Ending = {}
      <4>1. listeners' = listeners /\ out'[Hotspot] = out[Hotspot]
        BY <2>5, <3>1 DEF Tick
      <4> QED BY <2>3, <2>5, <4>1
    <3>2. ASSUME NEW n \in Ending, listeners' = IF Len(out[n]) > 1 /\ OnAir = {n}
                                                  THEN {m \in Nodes \ {n} : doing[m] = "idle"} ELSE {}
          PROVE  OkSeen(s, Head(out[Hotspot]))'
      <4>1. n \in Nodes /\ out[n] # <<>> /\ Len(out[n]) > 1
        BY <2>5, <3>2 DEF Ending, Loops
      <4>2. ASSUME NEW m, out[n] = <<m>> PROVE FALSE
        <5>1. Len(out[n]) = 1
          BY <4>2
        <5> QED BY <4>1, <5>1
      <4>3. n = Hotspot /\ out[Hotspot] = <<ABORT, ABORT>>
        BY <4>1, <4>2 DEF Sent
      <4>4. out'[Hotspot] = Tail(out[Hotspot])
        BY <2>5, <3>2, <4>3 DEF Tick
      <4>5. Head(out'[Hotspot]) = ABORT
        BY <4>3, <4>4
      <4> QED BY <4>5, HotspotSends DEF OkSeen
    <3> QED BY <2>5, <3>1, <3>2 DEF Tick
  <2>6. ASSUME s \in listeners', out'[Hotspot] # <<>>, NEW n \in Nodes, Stop(n)
        PROVE  OkSeen(s, Head(out[Hotspot]))'
    <3>1. n # Hotspot
      BY <2>6 DEF Stop, LoopTypes
    <3>2. out'[Hotspot] = out[Hotspot] /\ s \in listeners
      BY <2>6, <3>1 DEF Stop, LoopTypes
    <3> QED BY <2>3, <2>6, <3>2
  <2>7. ASSUME s \in listeners', out'[Hotspot] # <<>>, NEW n \in Nodes, Deals(n) \/ Measures(n)
        PROVE  OkSeen(s, Head(out[Hotspot]))'
    BY <2>3, <2>7 DEF Deals, Measures, loopv
  <2>8. ASSUME s \in listeners', out'[Hotspot] # <<>> PROVE OkSeen(s, Head(out[Hotspot]))'
    BY <2>3, <2>4, <2>5, <2>6, <2>7, <2>8, LoopSteps DEF LoopStep, loopv
  <2> QED BY <2>2, <2>8
<1> QED BY <1>1, <1>2, Waiting

(* Only an OK to a command on the master's channel closes an answer: no    *)
(* OK of a registration comes from the id 0000.                            *)
LEMMA AnswerCloses ==
  ASSUME IInv, OksAreShown, [Next]_vars, NEW s \in Sensors, awaiting_ack[s], ~awaiting_ack'[s]
  PROVE  Seen(s) \/ doing'[s] = "off"
<1> USE HotspotNode DEF IInv, Typed
<1>1. ASSUME NEW n \in Nodes, handle_ok(n) PROVE Seen(s)
  <2>1. n = s /\ closes(s, inbox[s])
    BY <1>1 DEF handle_ok, SlotTypes
  <2>2. inbox[s].src = NoId
    BY <2>1 DEF closes, Slots
  <2>3. NoId \notin Names
    BY CutsApart DEF Names, Ids, NoId
  <2>4. inbox[s] # NoText /\ inbox[s].op = "OK"
    BY <1>1, <2>1, NoTextIsNone DEF handle_ok
  <2>5. inbox[s].ch # "CONFIG"
    BY <2>2, <2>3, <2>4, SaidFields DEF Heard
  <2>6. addressed(s, inbox[s])
    BY <1>1, <2>1, <2>5 DEF handle_ok
  <2> QED BY <2>4, <2>6 DEF OksAreShown, OkSeen, addressed, Seen
<1>2. ASSUME NEW n \in Nodes, Stop(n) PROVE doing'[s] = "off"
  BY <1>2 DEF Stop, SlotTypes, LoopTypes
<1>3. ASSUME NEW n \in Nodes, NEW type, NEW msg, NEW dest, NEW wait, Await(n, type, msg, dest, TRUE, wait)
      PROVE  FALSE
  BY <1>3 DEF Await, SlotTypes
<1>4. ASSUME NEW type, NEW msg, NEW dest, NEW ack, NEW wait, Await(Hotspot, type, msg, dest, ack, wait)
      PROVE  FALSE
  BY <1>4 DEF Await, SlotTypes
<1>5. ASSUME NEW n \in Nodes, Hears(n) PROVE Seen(s)
  <2>1. CASE Ignore(n) \/ handle_answer \/ handle_set(n) \/ handle_abort(n) \/ handle_movement(n)
    BY <2>1 DEF Ignore, handle_answer, handle_set, handle_abort, handle_movement, proto
  <2>2. CASE assign_new_id
    BY <1>4, <2>2 DEF assign_new_id
  <2> QED BY <1>1, <1>5, <2>1, <2>2 DEF Hears
<1>6. ASSUME NEW n \in Nodes, Loop(n) PROVE Seen(s)
  <2>1. CASE protocol_tick(n)
    BY <2>1 DEF protocol_tick
  <2> QED BY <1>3, <1>5, <1>6, <2>1 DEF Loop, Measured
<1>7. CASE User
  BY <1>4, <1>7 DEF User, protocol_send_movement_request, protocol_send_command, protocol_send_abort, proto
<1>8. CASE Tick \/ UNCHANGED vars \/ \E t \in Sensors, p \in Pids : protocol_init(t, p)
  BY <1>8 DEF Tick, vars, protocol_init, proto
<1> QED BY <1>2, <1>6, <1>7, <1>8 DEF Next

-----------------------------------------------------------------------------
(* The registry of ids alone, for any steps of its own: what it promises,  *)
(* the boards inherit.                                                     *)

(* An id names one SET of a life of the hotspot.                           *)
GivenOnce == \A g, h \in given : (g[1] = h[1] /\ g[2] = h[2]) => g = h

(* SETs belong to the lives so far, and there has been one.                *)
GivenInLife == life >= 1 /\ \A g \in given : g[1] \in 1..life

(* Whoever holds an id holds it, or is left with it, from a SET to the     *)
(* provisional id it still has; a sensor that is off holds none.           *)
HeldIsGiven ==
  \A s \in Sensors :
    my_id[s] # NoId => /\ provisional_id[s] # NoPid
                      /\ \E g \in given : /\ g[3] = provisional_id[s]
                                          /\ g[2] = my_id[s] \/ my_id[s] \in Cuts

RegistryInv == Registry!TypeOK /\ GivenOnce /\ GivenInLife /\ HeldIsGiven

LEMMA RegistryInit == Registry!Init => RegistryInv
BY DEF Registry!Init, RegistryInv, Registry!TypeOK, GivenOnce, GivenInLife, HeldIsGiven,
       Registry!NoPid, NoPid, Registry!NoId, NoId

LEMMA RegistryNext == RegistryInv /\ [Registry!Next]_Registry!vars => RegistryInv'
<1> SUFFICES ASSUME RegistryInv, [Registry!Next]_Registry!vars PROVE RegistryInv'
  OBVIOUS
<1> USE DEF RegistryInv, Registry!TypeOK, Registry!NoPid, NoPid, Registry!NoId, NoId
<1>1. ASSUME NEW s \in Sensors, NEW p \in Pids, Registry!Start(s, p) PROVE RegistryInv'
  <2>1. Registry!TypeOK'
    BY <1>1 DEF Registry!Start
  <2>2. GivenOnce' /\ GivenInLife'
    BY <1>1 DEF Registry!Start, GivenOnce, GivenInLife
  <2>3. my_id[s] = NoId
    BY <1>1 DEF Registry!Start, HeldIsGiven
  <2>4. HeldIsGiven'
    BY <1>1, <2>3 DEF Registry!Start, HeldIsGiven
  <2> QED BY <2>1, <2>2, <2>4
<1>2. ASSUME NEW i \in Ids, NEW p \in Pids \cup Cuts, Registry!Give(i, p) PROVE RegistryInv'
  <2>1. Registry!TypeOK'
    BY <1>2 DEF Registry!Give
  <2>2. GivenOnce'
    BY <1>2 DEF Registry!Give, GivenOnce
  <2>3. life \in 1..life
    BY DEF GivenInLife
  <2>4. GivenInLife'
    BY <1>2, <2>3 DEF Registry!Give, GivenInLife
  <2>5. HeldIsGiven'
    BY <1>2 DEF Registry!Give, HeldIsGiven
  <2> QED BY <2>1, <2>2, <2>4, <2>5
<1>3. ASSUME NEW s \in Sensors, NEW i \in Ids \cup Cuts, Registry!Adopt(s, i) PROVE RegistryInv'
  <2>1. Registry!TypeOK'
    BY <1>3 DEF Registry!Adopt
  <2>2. GivenOnce' /\ GivenInLife'
    BY <1>3 DEF Registry!Adopt, GivenOnce, GivenInLife
  <2>3. HeldIsGiven'
    BY <1>3 DEF Registry!Adopt, HeldIsGiven
  <2> QED BY <2>1, <2>2, <2>3
<1>4. ASSUME NEW i \in Ids \cup Cuts, Registry!List(i) PROVE RegistryInv'
  BY <1>4 DEF Registry!List, GivenOnce, GivenInLife, HeldIsGiven
<1>5. ASSUME NEW s \in Sensors, Registry!SensorStops(s) PROVE RegistryInv'
  <2>1. Registry!TypeOK'
    BY <1>5 DEF Registry!SensorStops
  <2>2. GivenOnce' /\ GivenInLife'
    BY <1>5 DEF Registry!SensorStops, GivenOnce, GivenInLife
  <2>3. HeldIsGiven'
    BY <1>5 DEF Registry!SensorStops, HeldIsGiven
  <2> QED BY <2>1, <2>2, <2>3
<1>6. ASSUME Registry!HotspotRestarts PROVE RegistryInv'
  <2>1. Registry!TypeOK'
    BY <1>6 DEF Registry!HotspotRestarts
  <2>2. GivenOnce' /\ HeldIsGiven'
    BY <1>6 DEF Registry!HotspotRestarts, GivenOnce, HeldIsGiven
  <2>3. GivenInLife'
    BY <1>6 DEF Registry!HotspotRestarts, GivenInLife
  <2> QED BY <2>1, <2>2, <2>3
<1>7. ASSUME UNCHANGED Registry!vars PROVE RegistryInv'
  BY <1>7 DEF Registry!vars, GivenOnce, GivenInLife, HeldIsGiven
<1> QED BY <1>1, <1>2, <1>3, <1>4, <1>5, <1>6, <1>7 DEF Registry!Next

LEMMA RegistryInvHolds == Registry!Spec => []RegistryInv
<1>1. Registry!Init => RegistryInv
  BY RegistryInit
<1>2. RegistryInv /\ [Registry!Next]_Registry!vars => RegistryInv'
  BY RegistryNext
<1> QED BY <1>1, <1>2, PTL DEF Registry!Spec

(* Every state of the registry is well typed.                              *)
THEOREM RegistryTypeCorrect == Registry!Spec => []Registry!TypeOK
<1>1. RegistryInv => Registry!TypeOK
  BY DEF RegistryInv
<1> QED BY <1>1, RegistryInvHolds, PTL

(* protocol.c:178-192, 227-235.  While the hotspot has not restarted, two  *)
(* sensors that hold one whole id have drawn the same provisional id,      *)
(* however often they restart, SETs are repeated or other sensors come and *)
(* go.  What is left of two ids may be the same.                           *)
THEOREM OneIdOneSensor == Registry!Spec => []Registry!OneIdOnePid
<1>1. RegistryInv => Registry!OneIdOnePid
  <2> SUFFICES ASSUME RegistryInv, life = 1, NEW s \in Sensors, NEW t \in Sensors,
                      my_id[s] \notin Cuts \cup {NoId}, my_id[s] = my_id[t]
               PROVE  provisional_id[s] = provisional_id[t]
    BY DEF Registry!OneIdOnePid, Registry!NoId, NoId
  <2>1. PICK g \in given : g[2] = my_id[s] /\ g[3] = provisional_id[s]
    BY DEF RegistryInv, HeldIsGiven
  <2>2. PICK h \in given : h[2] = my_id[t] /\ h[3] = provisional_id[t]
    BY DEF RegistryInv, HeldIsGiven
  <2>3. g[1] = 1 /\ h[1] = 1
    BY DEF RegistryInv, GivenInLife
  <2>4. g = h
    BY <2>1, <2>2, <2>3 DEF RegistryInv, GivenOnce
  <2> QED BY <2>1, <2>2, <2>4
<1> QED BY <1>1, RegistryInvHolds, PTL
(* protocol.c:178-192, 227-235.  As long as the hotspot has not restarted, *)
(* two boards with one whole id are two that drew the same provisional id, *)
(* with all that AuspNet loses, cuts short and repeats.                    *)
THEOREM OneIdOneBoard == Spec => []Registry!OneIdOnePid
BY IdsAreRegistered, OneIdOneSensor, PTL DEF ImplementsRegistry

-----------------------------------------------------------------------------
(* protocol.c:242-264, 432-439, 466-490.  A sensor that repeats an answer  *)
(* stops only when the user was shown an answer of the id it now has (or   *)
(* of the id 1111, which every sensor takes for its own) since it was      *)
(* measured, or an OK of the user's own went to that id, or when it is     *)
(* switched off, whatever is lost, cut short, repeated or overheard.       *)
THEOREM AnswersShown == Spec => AnswersAreShown
<1>1. Init => Apart /\ OksAreShown
  <2> SUFFICES ASSUME Init PROVE Apart /\ OksAreShown
    OBVIOUS
  <2> QED BY NoTextIsNone, HotspotNode DEF Init, Apart, OksAreShown, OkSeen
<1>2. IInv /\ Apart /\ OksAreShown /\ [Next]_vars => Apart' /\ OksAreShown'
  BY ApartNext, OksNext
<1>3. IInv /\ OksAreShown /\ [Next]_vars
        => [\A s \in Sensors : (awaiting_ack[s] /\ ~awaiting_ack'[s]) => (Seen(s) \/ doing'[s] = "off")]_vars
  BY AnswerCloses
<1> QED BY <1>1, <1>2, <1>3, IInvHolds, PTL DEF Spec, AnswersAreShown

=============================================================================
