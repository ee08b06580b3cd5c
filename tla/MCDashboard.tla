----------------------------- MODULE MCDashboard -----------------------------
(***************************************************************************)
(* Dashboard for TLC: a budget of breaks (a lost connection, a restart, a  *)
(* failure of the NOR) and one of events (news from the slave, a save, the *)
(* radio failing to join).                                                 *)
(***************************************************************************)
EXTENDS Dashboard

CONSTANTS MaxBreaks, MaxEvents

VARIABLE used    \* [break, event]

Spend(A, b, e) ==
  /\ used.break + b <= MaxBreaks /\ used.event + e <= MaxEvents
  /\ A
  /\ used' = [break |-> used.break + b, event |-> used.event + e]

MCProgress == Spend(Progress, 0, 0)

MCNext == \/ MCProgress
          \/ \E w \in Clients : Spend(Break(w), 1, 0)
          \/ Spend(WifiFalls, 1, 0) \/ Spend(NorFails, 1, 0)
          \/ Spend(Restart, 1, 0)
          \/ Spend(WifiFails, 0, 1) \/ Spend(Paired, 0, 1)
          \/ Spend(PresenceHeard /\ present' # present, 0, 1)
          \/ \E u \in Uis, v \in Values \ {settings} : Spend(Save(u, v), 0, 1)

(* Reached from Init when everybody has connected and read everything; the *)
(* slave is paired and was absent when last asked.                         *)
Settled ==
  /\ cur = [w \in Clients |-> 1]
  /\ link = [c \in Conns |-> IF c[2] = 1 THEN "open" ELSE "closed"]
  /\ up = [c \in Conns |-> <<>>] /\ down = [c \in Conns |-> <<>>]
  /\ devices = {<<Dev, 1>>} /\ uis = {<<u, 1>> : u \in Uis}
  /\ wifi = "up" /\ paired = TRUE /\ lastStatus = TRUE
  /\ present = "no" /\ lastPresence = "no"
  /\ settings = Default /\ unread = FALSE
  /\ online = [u \in Uis |-> TRUE] /\ shownPaired = [u \in Uis |-> TRUE]
  /\ shownPresence = [u \in Uis |-> present] /\ form = [u \in Uis |-> settings]

MCInit == \/ Init /\ used = [break |-> MaxBreaks, event |-> 0]
          \/ Settled /\ used = [break |-> 0, event |-> 0]

(* The relay's event loop, the pages' and the master's timers and handlers *)
(* and the radio go on; nothing else has to happen.                        *)
MCSpec == MCInit /\ [][MCNext]_<<vars, used>> /\ WF_<<vars, used>>(MCProgress)
=============================================================================
