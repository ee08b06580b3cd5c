-------------------------------- MODULE AuspNet --------------------------------
(***************************************************************************)
(* The boards of codice_copiare talking to each other: one hotspot (the    *)
(* board whose HOTSPOT_PIN is high) and sensors.  protocol.c,              *)
(* movement_sensor.c and the parts of main.cpp that drive them.            *)
(*                                                                         *)
(* A text is a record; what becomes of it on the way is what AuspCodec     *)
(* shows: it arrives whole at every board that was free to listen all the  *)
(* time, unless noise spoils it, another board talks meanwhile (the        *)
(* channels share their data tones), or it holds "NO}" or a '5'.  Of a     *)
(* text cut off a board keeps the beginning, which a second of silence     *)
(* hands to the protocol as if it were a text.  Everything a board does    *)
(* happens in loop(), and sending and measuring block it.  Time passes in  *)
(* Tick; whatever a board can do at once, it does before.                  *)
(*                                                                         *)
(* Left out: what noise or two voices at once turn into letters nobody     *)
(* sent, pieces of two texts run together, and what protocol.c:337 reads   *)
(* behind the end of a text cut before its '}'.                            *)
(***************************************************************************)
EXTENDS Integers, Sequences, FiniteSets

CONSTANTS
  Sensors, Pids,
  IdSpace,               (* ids are IdSpace numbers: 16 bits               *)
  Broadcast,             (* the id "1111"                                  *)
  Cuts,                  (* ids and pids cut short, the empty one included *)
  Fives,                 (* the ids and pids written with a '5'            *)
  MaxDevices,            (* MAX_DEVICES                                    *)
  SendTime, MeasureTime, RetryTime,      (* in ticks; 20 s is RETRY_MS     *)
  Targets, Commands,     (* ids the user sends to, names command_dict has  *)
  MaxFaults, MaxCommands (* bounds: texts lost and boards stopped, commands *)

NoId == 0
NoPid == 0
Hotspot == "hotspot"
Nodes == Sensors \cup {Hotspot}

(* A sensor that answers at once is heard before the retry is due.         *)
ASSUME NetAssumption ==
  /\ Hotspot \notin Sensors /\ Pids \subseteq 100..999
  /\ {MaxDevices, SendTime, MeasureTime} \subseteq Nat \ {0} /\ IdSpace \in Nat /\ IdSpace > 1
  /\ Broadcast \in Nat /\ Targets \subseteq Nat
  /\ IsFiniteSet(Cuts) /\ Cuts \subseteq Nat \ (Pids \cup {Broadcast} \cup 0..IdSpace - 1)
  /\ Commands \subseteq {"REQ", "SET", "OK", "MOVEMENT", "ABORT", "EXT"}
  /\ RetryTime \in Nat /\ RetryTime > SendTime
  /\ {MaxFaults, MaxCommands} \subseteq Nat

VARIABLES
  my_id, provisional_id,             \* per sensor
  id_counter, known_ids,             \* of the hotspot
  pending, awaiting_ack, awaiting_response, retry_at,   \* per node
  abort_flag,                        \* per sensor (movement_sensor.c)
  doing, out, left,  \* per node: what loop() is in, texts to send, ticks left
  listeners,         \* nodes that have heard all of the text now on the air
  part,              \* per node: the beginning of a text that it has kept
  inbox,             \* per node: the text just decoded, or NoText
  \* history and bounds
  life, given, worn, \* for IdRegistry
  shown,             \* per sensor that repeats an answer: ids whose answers were shown since
  faults, commands

proto == <<pending, awaiting_ack, awaiting_response, retry_at>>
ids   == <<my_id, provisional_id, id_counter, known_ids, given, worn>>
loopv == <<doing, out, left, listeners, part>>
hist  == <<life, faults, commands>>
vars  == <<proto, ids, abort_flag, loopv, inbox, shown, hist>>

-----------------------------------------------------------------------------
(* Texts.  op stands for the command and its value: "ON" is MOVEMENT:ON    *)
(* (main.cpp:226 never finds the '_' of a duration behind the 18 letters   *)
(* of movement_sensor_on), "YES" and "NO" are the answers and "PART" is    *)
(* what is left of one.                                                    *)
Text(ch, op, dest, src, val) == [ch |-> ch, op |-> op, dest |-> dest, src |-> src, val |-> val]
NoText == Text("NONE", "NONE", NoId, NoId, 0)
REQ(p)      == Text("CONFIG", "REQ", NoId, p, 0)
SET(p, i)   == Text("CONFIG", "SET", p, NoId, i)
ACK(i)      == Text("CONFIG", "OK", NoId, i, 0)
CMD(op, i)  == Text("MASTER", op, i, NoId, 0)
ABORT       == CMD("ABORT", Broadcast)
ANSWER(a,i) == Text("SLAVE", a, NoId, i, 0)

(* Texts no board ever gets: swallowed by the master's carrier, or printed *)
(* by the router.                                                          *)
Survives(m) == m.op # "NO" /\ {m.dest, m.src, m.val} \cap Fives = {}

(* The beginnings of m that the protocol acts on, for it looks for no '}': *)
(* m without its last one, m with its last field cut, or, of a SET and of  *)
(* an answer, with the field before it cut.  Shorter ones do nothing.      *)
Part(m, c) ==
  IF m.ch = "CONFIG" /\ m.op = "SET" THEN [m EXCEPT !.val = c]
  ELSE [m EXCEPT !.src = c, !.op = IF m.ch = "SLAVE" THEN "PART" ELSE m.op]
Beginnings(m) == {t \in {m} \cup {Part(m, c) : c \in Cuts} : Survives(t)}

NoPending == [type |-> "NONE", msg |-> NoText, dest |-> NoId]
Free(n) == doing[n] = "idle" /\ inbox[n] = NoText

(* The boards of K have heard the beginning of a text and no more: what    *)
(* each has kept.  Another text on its channel would run into it.          *)
Minds(n, m) == m.ch = "CONFIG" \/ m.ch = (IF n = Hotspot THEN "SLAVE" ELSE "MASTER")
Keeps(K, beginnings, kept) ==
  \E t \in [K -> beginnings] :
    /\ \A n \in K : Minds(n, t[n])
    /\ part' = [n \in Nodes |-> IF n \in K THEN t[n] ELSE kept[n]]

(* emit_tones: n blocks while it sends msgs one after another.  Who is     *)
(* free hears it, if it is alone on the air; whoever was hearing a text,   *)
(* n itself maybe, has heard the beginning of that.                        *)
OnAir == {n \in Nodes : doing[n] = "send" /\ left[n] > 0}
Audience(n) == IF OnAir = {} THEN {m \in Nodes \ {n} : doing[m] = "idle"} ELSE {}
Begun == UNION {Beginnings(Head(out[n])) : n \in {m \in OnAir : left[m] < SendTime}}
CutOff(L, kept) == \E K \in SUBSET L : Keeps(K, Begun, kept)
Unmixed(n, m) == [k \in Nodes |-> IF k \in Audience(n) /\ part[k].ch = m.ch THEN NoText ELSE part[k]]
Send(n, msgs) ==
  /\ doing' = [doing EXCEPT ![n] = "send"] /\ out' = [out EXCEPT ![n] = msgs]
  /\ left' = [left EXCEPT ![n] = SendTime] /\ listeners' = Audience(n)
  /\ CutOff(listeners, Unmixed(n, Head(msgs)))

(* The single slot of a command that waits for its answer.  The next try   *)
(* comes RetryTime and the estimated length of the text after its end.     *)
Await(n, type, msg, dest, ack, wait) ==
  /\ pending' = [pending EXCEPT ![n] = [type |-> type, msg |-> msg, dest |-> dest]]
  /\ awaiting_ack' = [awaiting_ack EXCEPT ![n] = ack]
  /\ awaiting_response' = [awaiting_response EXCEPT ![n] = ~ack]
  /\ retry_at' = [retry_at EXCEPT ![n] = wait + SendTime + SendTime + RetryTime]

(* Answered: what is left of the command is not looked at again.           *)
Forget(n) == pending' = [pending EXCEPT ![n] = NoPending] /\ retry_at' = [retry_at EXCEPT ![n] = 0]

Take(n) == inbox' = [inbox EXCEPT ![n] = NoText]

-----------------------------------------------------------------------------
Init ==
  /\ my_id = [s \in Sensors |-> NoId] /\ provisional_id = [s \in Sensors |-> NoPid]
  /\ id_counter = 1 /\ known_ids = {}
  /\ pending = [n \in Nodes |-> NoPending] /\ retry_at = [n \in Nodes |-> 0]
  /\ awaiting_ack = [n \in Nodes |-> FALSE] /\ awaiting_response = [n \in Nodes |-> FALSE]
  /\ abort_flag = [s \in Sensors |-> FALSE]
  /\ doing = [n \in Nodes |-> IF n = Hotspot THEN "idle" ELSE "off"]
  /\ out = [n \in Nodes |-> <<>>] /\ left = [n \in Nodes |-> 0]
  /\ listeners = {} /\ part = [n \in Nodes |-> NoText] /\ inbox = [n \in Nodes |-> NoText]
  /\ life = 1 /\ given = {} /\ worn = {} /\ shown = [s \in Sensors |-> {}]
  /\ faults = 0 /\ commands = 0

(* setup, protocol_init of a sensor: it draws a provisional id and asks    *)
(* for an id, once.                                                        *)
protocol_init(s, p) ==
  /\ doing[s] = "off"
  /\ provisional_id' = [provisional_id EXCEPT ![s] = p]
  /\ Send(s, <<REQ(p)>>)
  /\ UNCHANGED <<proto, my_id, id_counter, known_ids, given, worn, abort_flag, inbox, shown, hist>>

(* Power off, or a reset: everything a board knew is gone, and what it was *)
(* sending ends there.  The hotspot starts again at once.                  *)
Stop(n) ==
  /\ faults < MaxFaults /\ faults' = faults + 1 /\ doing[n] # "off"
  /\ Forget(n) /\ awaiting_ack' = [awaiting_ack EXCEPT ![n] = FALSE]
  /\ awaiting_response' = [awaiting_response EXCEPT ![n] = FALSE]
  /\ doing' = [doing EXCEPT ![n] = IF n = Hotspot THEN "idle" ELSE "off"]
  /\ out' = [out EXCEPT ![n] = <<>>] /\ left' = [left EXCEPT ![n] = 0]
  /\ listeners' = IF doing[n] = "send" THEN {} ELSE listeners \ {n}
  /\ CutOff(IF doing[n] = "send" THEN listeners ELSE {}, [part EXCEPT ![n] = NoText])
  /\ Take(n)
  /\ IF n = Hotspot
       THEN /\ id_counter' = 1 /\ known_ids' = {} /\ life' = life + 1
            /\ UNCHANGED <<my_id, provisional_id, abort_flag, shown>>
       ELSE /\ my_id' = [my_id EXCEPT ![n] = NoId] /\ shown' = [shown EXCEPT ![n] = {}]
            /\ provisional_id' = [provisional_id EXCEPT ![n] = NoPid]
            /\ abort_flag' = [abort_flag EXCEPT ![n] = FALSE]
            /\ UNCHANGED <<id_counter, known_ids, life>>
  /\ UNCHANGED <<given, worn, commands>>

-----------------------------------------------------------------------------
(* protocol_handle_message.                                                *)

(* {REQ}: assign_new_id.  The counter moves on and the slot is overwritten,*)
(* whatever was waiting in it; a pid cut short gets an id too.             *)
(* Bound: before the counter comes round.                                  *)
(* Faulty variant: the counter stays.                                      *)
next_id_same == id_counter
next_id == (id_counter + 1) % IdSpace
assign_new_id ==
  LET p == inbox[Hotspot].src
      text == SET(p, id_counter)
  IN  /\ inbox[Hotspot].op = "REQ" /\ doing[Hotspot] = "idle" /\ id_counter < IdSpace - 1
      /\ id_counter' = next_id /\ given' = given \cup {<<life, id_counter, p>>}
      /\ Send(Hotspot, <<text>>) /\ Take(Hotspot)
      /\ Await(Hotspot, "CONFIG", text, id_counter, TRUE, 0)
      /\ UNCHANGED <<my_id, provisional_id, known_ids, worn, abort_flag, shown, hist>>

(* SET: handle_set.  A sensor takes any id sent to its provisional id, at  *)
(* any time, whole or cut short, and says OK.                              *)
is_for(s, m) == m.dest = provisional_id[s]
handle_set(s) ==
  LET m == inbox[s]
  IN  /\ doing[s] = "idle" /\ m.op = "SET" /\ m.ch = "CONFIG" /\ is_for(s, m)
      /\ my_id' = [my_id EXCEPT ![s] = m.val] /\ worn' = worn \cup {m.val}
      /\ Send(s, <<ACK(m.val)>>) /\ Take(s)
      /\ UNCHANGED <<proto, provisional_id, id_counter, known_ids, given, abort_flag, shown, hist>>

(* OK: handle_ok, on either side; the hotspot lists whoever says OK.       *)
(* Faulty variants: a sensor does not look for whom a command is; the list *)
(* has no limit.                                                           *)
addressed_any(n, m) == m.ch = "MASTER"
addressed(n, m) == m.ch = "MASTER" /\ m.dest \in {my_id[n], Broadcast}
closes(n, m) == awaiting_ack[n] /\ m.src = pending[n].dest
register_any(i) == known_ids \cup {i}
register_device(i) == IF Cardinality(known_ids) < MaxDevices THEN known_ids \cup {i} ELSE known_ids
handle_ok(n) ==
  LET m == inbox[n]
  IN  /\ doing[n] = "idle" /\ m.op = "OK"
      /\ IF n = Hotspot THEN m.ch # "MASTER"
                        ELSE m.ch = "CONFIG" \/ addressed(n, m)
      /\ known_ids' = IF n = Hotspot THEN register_device(m.src) ELSE known_ids
      /\ IF closes(n, m)
           THEN awaiting_ack' = [awaiting_ack EXCEPT ![n] = FALSE] /\ Forget(n)
           ELSE UNCHANGED <<awaiting_ack, pending, retry_at>>
      /\ Take(n)
      /\ UNCHANGED <<awaiting_response, my_id, provisional_id, id_counter, given, worn,
                     abort_flag, loopv, shown, hist>>

(* What a sensor does with a command on the master's channel.              *)
Commanded(s) == doing[s] = "idle" /\ addressed(s, inbox[s])

(* ABORT: the flag is looked at by the next measurement.                   *)
handle_abort(s) ==
  /\ Commanded(s) /\ inbox[s].op = "ABORT"
  /\ abort_flag' = [abort_flag EXCEPT ![s] = TRUE] /\ Take(s)
  /\ UNCHANGED <<proto, ids, loopv, shown, hist>>

(* MOVEMENT: movement_sensor_detect begins; an ABORT that came before ends *)
(* it at its first look, and nothing is answered.                          *)
handle_movement(s) ==
  /\ Commanded(s) /\ inbox[s].op \in {"ON", "MOVEMENT"} /\ Take(s)
  /\ abort_flag' = [abort_flag EXCEPT ![s] = FALSE]
  /\ IF abort_flag[s] THEN UNCHANGED loopv
     ELSE /\ doing' = [doing EXCEPT ![s] = "measure"] /\ left' = [left EXCEPT ![s] = MeasureTime]
          /\ listeners' = listeners \ {s} /\ CutOff(listeners \cap {s}, part) /\ UNCHANGED out
  /\ UNCHANGED <<proto, ids, shown, hist>>

(* The measurement ends, by movement or by time, and protocol_send_response*)
(* sends the answer, to be repeated until the hotspot says OK.             *)
Measured(s, answer) ==
  /\ doing[s] = "measure" /\ (answer = "NO" => left[s] = 0)
  /\ abort_flag' = [abort_flag EXCEPT ![s] = FALSE]
  /\ Send(s, <<ANSWER(answer, my_id[s])>>)
  /\ Await(s, "SLAVE", ANSWER(answer, my_id[s]), NoId, TRUE, 0)
  /\ shown' = [shown EXCEPT ![s] = {}]
  /\ UNCHANGED <<ids, inbox, hist>>

(* History: the id that an OK is for, after an answer, or when the user    *)
(* sends it or it is repeated.                                             *)
told(m) ==
  [s \in Sensors |-> IF m.op = "OK" /\ awaiting_ack[s] THEN shown[s] \cup {m.dest} ELSE shown[s]]

(* An answer at the hotspot: the user sees it (log_recv, protocol.c:303,   *)
(* and again at :500), OK is sent to whoever it is from, cut short or not, *)
(* and the request is closed if it was to that id.                         *)
handle_answer ==
  LET m == inbox[Hotspot]
  IN  /\ doing[Hotspot] = "idle" /\ m.ch = "SLAVE" /\ m.op \in {"YES", "NO", "PART"}
      /\ Send(Hotspot, <<CMD("OK", m.src)>>) /\ Take(Hotspot)
      /\ shown' = told(CMD("OK", m.src))
      /\ IF awaiting_response[Hotspot] /\ m.src = pending[Hotspot].dest
           THEN awaiting_response' = [awaiting_response EXCEPT ![Hotspot] = FALSE] /\ Forget(Hotspot)
           ELSE UNCHANGED <<awaiting_response, pending, retry_at>>
      /\ UNCHANGED <<awaiting_ack, ids, abort_flag, hist>>

(* Everything else is dropped.                                             *)
Ignores(n, m) ==
  IF n = Hotspot THEN ~(m.ch = "CONFIG" /\ m.op \in {"REQ", "OK"}) /\ m.ch # "SLAVE"
  ELSE \/ m.ch = "SLAVE" \/ (m.ch = "CONFIG" /\ m.op = "REQ")
       \/ m.ch = "CONFIG" /\ m.op = "SET" /\ ~is_for(n, m)
       \/ m.ch = "MASTER" /\ (~addressed(n, m) \/ m.op \in {"REQ", "SET", "EXT"})
Ignore(n) ==
  /\ doing[n] = "idle" /\ inbox[n] # NoText /\ Ignores(n, inbox[n]) /\ Take(n)
  /\ UNCHANGED <<proto, ids, abort_flag, loopv, shown, hist>>

(* protocol_tick: what waits is sent again.                                *)
(* Faulty variant: it is not.                                              *)
due_never(n) == FALSE
due(n) == Free(n) /\ retry_at[n] = 0 /\ (awaiting_ack[n] \/ awaiting_response[n])
protocol_tick(n) ==
  /\ due(n) /\ Send(n, <<pending[n].msg>>)
  /\ retry_at' = [retry_at EXCEPT ![n] = SendTime + RetryTime]
  /\ shown' = told(pending[n].msg)
  /\ UNCHANGED <<pending, awaiting_ack, awaiting_response, ids, abort_flag, inbox, hist>>

-----------------------------------------------------------------------------
(* BLYNK_WRITE: the user's commands.                                       *)
Command ==
  /\ Free(Hotspot) /\ ~due(Hotspot) /\ commands < MaxCommands /\ commands' = commands + 1
  /\ UNCHANGED <<life, faults>>

(* movement_sensor_on->id: waits for an answer.                            *)
protocol_send_movement_request(i) ==
  /\ Command /\ Send(Hotspot, <<CMD("ON", i)>>)
  /\ Await(Hotspot, "MASTER", CMD("ON", i), i, FALSE, MeasureTime)
  /\ UNCHANGED <<ids, abort_flag, inbox, shown>>

(* op->id: waits for an OK.                                                *)
protocol_send_command(op, i) ==
  /\ Command /\ Send(Hotspot, <<CMD(op, i)>>)
  /\ Await(Hotspot, "MASTER", CMD(op, i), i, TRUE, 0)
  /\ shown' = told(CMD(op, i))
  /\ UNCHANGED <<ids, abort_flag, inbox>>

(* ABORT: sent twice, to everybody.                                        *)
protocol_send_abort ==
  /\ Command /\ Send(Hotspot, <<ABORT, ABORT>>)
  /\ UNCHANGED <<proto, ids, abort_flag, inbox, shown>>

(* Time passes.  A text that ends reaches its listeners, except those      *)
(* where noise spoils it, which may keep its beginning; those are counted, *)
(* but not on the master's channel, which no board decodes as built.  What *)
(* an idle board has kept comes out: the second of silence is about a tick.*)
Ending == {n \in Nodes : doing[n] = "send" /\ left[n] = 1}
Reaches(n, m) == IF Survives(m) THEN listeners ELSE {}
Flush(L, m) == [n \in Nodes |-> IF n \in L THEN m ELSE IF doing'[n] = "idle" THEN part[n] ELSE NoText]
Unflushed == [n \in Nodes |-> IF doing'[n] = "idle" THEN NoText ELSE part[n]]
Tick ==
  /\ \A n \in Nodes : inbox[n] = NoText /\ ~due(n) /\ ~(doing[n] = "measure" /\ left[n] = 0)
  /\ retry_at' = [n \in Nodes |-> IF retry_at[n] > 0 THEN retry_at[n] - 1 ELSE 0]
  /\ out' = [n \in Nodes |-> IF n \in Ending THEN Tail(out[n]) ELSE out[n]]
  /\ doing' = [n \in Nodes |-> IF n \in Ending /\ Len(out[n]) = 1 THEN "idle" ELSE doing[n]]
  /\ left' = [n \in Nodes |-> IF n \in Ending /\ Len(out[n]) > 1 THEN SendTime
                              ELSE IF left[n] > 0 THEN left[n] - 1 ELSE 0]
  /\ IF Ending = {} THEN inbox' = Flush({}, NoText) /\ part' = Unflushed /\ UNCHANGED <<listeners, faults>>
     ELSE \E n \in Ending : \E L \in SUBSET Reaches(n, Head(out[n])) : \E K \in SUBSET (listeners \ L) :
            /\ inbox' = Flush(L, Head(out[n])) /\ (K # {} => Len(out[n]) = 1)
            /\ Keeps(K, Beginnings(Head(out[n])), Unflushed)
            /\ IF (L = Reaches(n, Head(out[n])) /\ K = {}) \/ Head(out[n]).ch = "MASTER"
                 THEN UNCHANGED faults ELSE faults < MaxFaults /\ faults' = faults + 1
            /\ listeners' = IF Len(out[n]) > 1 /\ OnAir = {n}
                              THEN {m \in Nodes \ {n} : doing[m] = "idle"} ELSE {}
  /\ UNCHANGED <<pending, awaiting_ack, awaiting_response, ids, abort_flag, shown, life, commands>>

Hears(n) ==
  \/ handle_ok(n) \/ Ignore(n)
  \/ n = Hotspot /\ (assign_new_id \/ handle_answer)
  \/ n # Hotspot /\ (handle_set(n) \/ handle_abort(n) \/ handle_movement(n))
User ==
  \/ \E i \in Targets :
       \/ protocol_send_movement_request(i)
       \/ \E op \in Commands : protocol_send_command(op, i)
  \/ protocol_send_abort
Loop(n) ==
  \/ Hears(n) \/ protocol_tick(n)
  \/ n # Hotspot /\ \E a \in {"YES", "NO"} : Measured(n, a)

Next ==
  \/ Tick \/ \E n \in Nodes : Loop(n) \/ Stop(n)
  \/ User
  \/ \E s \in Sensors, p \in Pids : protocol_init(s, p)

(* Boards run and time passes; nobody has to switch on, press or move.     *)
(* Tick waits for everything that can be done at once, so that this one    *)
(* condition keeps every loop() going.                                     *)
Boards == Tick \/ (\E n \in Nodes : Hears(n) \/ protocol_tick(n)) \/ (\E s \in Sensors : Measured(s, "NO"))
Fairness == WF_vars(Boards)

Spec == Init /\ [][Next]_vars /\ Fairness

-----------------------------------------------------------------------------
Ids == 1..IdSpace - 1
TypeOK ==
  /\ my_id \in [Sensors -> {NoId} \cup Ids \cup Cuts] /\ provisional_id \in [Sensors -> {NoPid} \cup Pids]
  /\ id_counter \in Ids /\ known_ids \subseteq Ids \cup Cuts /\ Cardinality(known_ids) <= MaxDevices
  /\ \A n \in Nodes : ~(awaiting_ack[n] /\ awaiting_response[n])
  /\ \A n \in Nodes : (awaiting_ack[n] \/ awaiting_response[n]) <=> pending[n].type # "NONE"
  /\ \A n \in Nodes : doing[n] = "send" <=> out[n] # <<>>
  /\ \A n \in Nodes : inbox[n] # NoText => doing[n] = "idle"
  /\ \A n \in listeners : doing[n] = "idle"

(* The ids are what IdRegistry promises: each provisional id gets an id of *)
(* its own while the hotspot runs, a sensor only takes an id given to its  *)
(* provisional id, or the beginning of one, and the hotspot only lists ids *)
(* a sensor has taken, or the beginning of one, whatever is lost,          *)
(* repeated, superseded or cut off.                                        *)
Registry == INSTANCE IdRegistry WITH pid <- provisional_id, held <- my_id, known <- known_ids
ImplementsRegistry == Registry!Spec

(* A sensor stops repeating an answer only when the hotspot has shown the  *)
(* user an answer of the id it now has, whole or cut short, since it was   *)
(* measured (or has sent an OK of the user's own to it since, or to all),  *)
(* or because it was switched off.                                         *)
Seen(s) == {my_id[s], Broadcast} \cap shown[s] # {}
AnswersAreShown ==
  [][\A s \in Sensors : (awaiting_ack[s] /\ ~awaiting_ack'[s]) => (Seen(s) \/ doing'[s] = "off")]_vars

(* A SET that a sensor could read is repeated until the sensor's OK is     *)
(* heard, unless another request takes the only slot, another sensor has   *)
(* drawn the same provisional id (their OKs then sound together), or a     *)
(* sensor keeps repeating an answer: both are sent again after the same    *)
(* time and can fall on each other for ever.                               *)
waits_for(s) ==
  /\ awaiting_ack[Hotspot] /\ pending[Hotspot].type = "CONFIG"
  /\ pending[Hotspot].msg.dest = provisional_id[s] /\ Survives(pending[Hotspot].msg)
  /\ \A t \in Sensors \ {s} : provisional_id[t] # provisional_id[s]
  /\ \A t \in Sensors : ~awaiting_ack[t]
SetGetsThrough == \A s \in Sensors : waits_for(s) ~> ~waits_for(s)

=============================================================================
