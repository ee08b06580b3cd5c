------------------------------- MODULE IdRegistry -------------------------------
(***************************************************************************)
(* What the hotspot and the sensors of codice_copiare promise about ids,   *)
(* with no messages, no loss and no time.  AuspNet implements it.  Of an   *)
(* id that was cut short nobody can tell which one it was.                 *)
(***************************************************************************)
EXTENDS Naturals

CONSTANTS
  Sensors,
  Ids,               (* what the hotspot may hand out                      *)
  Pids,              (* provisional ids, 100 to 999 in the code            *)
  Cuts               (* ids and provisional ids cut short on the way       *)

NoId == 0            \* my_id before a SET: "0000"
NoPid == 0

VARIABLES
  life,      \* how often the hotspot has started
  given,     \* triples <<life, id, pid>>: SETs the hotspot has decided on
  pid,       \* [Sensors -> Pids \cup {NoPid}]: NoPid while it is off
  held,      \* [Sensors -> {NoId} \cup Ids \cup Cuts]
  worn,      \* ids some sensor has adopted
  known      \* ids the hotspot lists (CONNS)

vars == <<life, given, pid, held, worn, known>>

Init ==
  /\ life = 1 /\ given = {} /\ worn = {} /\ known = {}
  /\ pid = [s \in Sensors |-> NoPid] /\ held = [s \in Sensors |-> NoId]

(* A sensor starts, under any provisional id.                              *)
Start(s, p) ==
  /\ pid[s] = NoPid /\ pid' = [pid EXCEPT ![s] = p]
  /\ UNCHANGED <<life, given, held, worn, known>>

(* The hotspot gives a provisional id an id it has not given in this life. *)
Give(i, p) ==
  /\ \A g \in given : g[1] = life => g[2] # i
  /\ given' = given \cup {<<life, i, p>>}
  /\ UNCHANGED <<life, pid, held, worn, known>>

(* A sensor takes an id that was given to its provisional id, or what is   *)
(* left of one.                                                            *)
Adopt(s, i) ==
  /\ pid[s] # NoPid /\ \E g \in given : g[3] = pid[s] /\ (g[2] = i \/ i \in Cuts)
  /\ held' = [held EXCEPT ![s] = i] /\ worn' = worn \cup {i}
  /\ UNCHANGED <<life, given, pid, known>>

(* The hotspot lists an id that a sensor has adopted, or what is left of   *)
(* one.                                                                    *)
List(i) ==
  /\ (i \in worn \/ (i \in Cuts /\ worn # {})) /\ known' = known \cup {i}
  /\ UNCHANGED <<life, given, pid, held, worn>>

SensorStops(s) ==
  /\ pid[s] # NoPid
  /\ pid' = [pid EXCEPT ![s] = NoPid] /\ held' = [held EXCEPT ![s] = NoId]
  /\ UNCHANGED <<life, given, worn, known>>

HotspotRestarts ==
  /\ life' = life + 1 /\ known' = {}
  /\ UNCHANGED <<given, pid, held, worn>>

Next ==
  \/ HotspotRestarts
  \/ \E s \in Sensors : SensorStops(s) \/ \E p \in Pids : Start(s, p)
  \/ \E i \in Ids \cup Cuts : List(i) \/ \E s \in Sensors : Adopt(s, i)
  \/ \E i \in Ids, p \in Pids \cup Cuts : Give(i, p)

Spec == Init /\ [][Next]_vars

-----------------------------------------------------------------------------
TypeOK ==
  /\ life \in Nat /\ given \subseteq Nat \X Ids \X (Pids \cup Cuts)
  /\ pid \in [Sensors -> Pids \cup {NoPid}] /\ held \in [Sensors -> Ids \cup Cuts \cup {NoId}]
  /\ worn \subseteq Ids \cup Cuts /\ known \subseteq Ids \cup Cuts

(* While the hotspot has not restarted, two sensors with one whole id are  *)
(* two that drew the same provisional id (protocol_init: rand seeded with  *)
(* the milliseconds since power on).                                       *)
OneIdOnePid ==
  life = 1 => \A s, t \in Sensors : (held[s] \notin Cuts \cup {NoId} /\ held[s] = held[t]) => pid[s] = pid[t]

=============================================================================
