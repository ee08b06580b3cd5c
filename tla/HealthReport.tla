---------------------------- MODULE HealthReport ----------------------------
(***************************************************************************)
(* The firmware's health check (health.c): every 15 s one register of each *)
(* slave of the bus is read and judged; a mask of the slaves that look     *)
(* well is kept for the display and told to the dashboard ($HLT).          *)
(*                                                                         *)
(* A slave that does not acknowledge does not stop the CPU: the            *)
(* interconnect answers for it (cpu_watchdog) with what its data lines     *)
(* hold.  It is broken here if they hold a bad value, fine otherwise.      *)
(***************************************************************************)
EXTENDS Integers, Sequences, FiniteSets

CONSTANTS
  Slaves,  (* the slaves of the mask (S0 to S8)                            *)
  Counted  (* S1, judged by its sample counter, which must move            *)

ASSUME HealthAssumption == IsFiniteSet(Slaves) /\ Counted \in Slaves

VARIABLES
  cond,      \* condition of each slave
  prev_rdy,  \* S1's count at the previous round: "true", "wrong" or "none"
  prev_mask, \* slaves that looked well at the previous round
  primed,    \* the first round, which only takes the counter, is over
  s_mask,    \* the mask for the display
  told       \* the mask of the last $HLT, or Untold

(* History: for each slave, what the last three rounds met, newest first.  *)
VARIABLE met

healthVars ==
  <<cond, prev_rdy, prev_mask, primed, s_mask, told, met>>

Untold == {"untold"}
Conditions == {"fine", "broken"}

HealthTypeOK ==
  /\ cond \in [Slaves -> Conditions]
  /\ prev_rdy \in {"true", "wrong", "none"}
  /\ prev_mask \subseteq Slaves /\ s_mask \subseteq Slaves
  /\ primed \in BOOLEAN
  /\ told = Untold \/ told \subseteq Slaves
  /\ \A s \in Slaves : Len(met[s]) <= 3

HealthInit ==
  /\ cond = [s \in Slaves |-> "fine"]
  /\ prev_rdy = "none"
  /\ prev_mask = {} /\ primed = FALSE /\ s_mask = {} /\ told = Untold
  /\ met = [s \in Slaves |-> <<>>]

(* S1's count has moved since the last round, or one of the two readings   *)
(* of it was wrong (and so some other number).                             *)
Moved(w) == cond[Counted] = "fine" \/ Counted \in w \/ prev_rdy # "true"

(* The slaves that pass their test.                                        *)
LooksWell(s, w) ==
  IF s = Counted THEN primed /\ Moved(w) ELSE (cond[s] = "fine") # (s \in w)

(* Faulty variant: one wrong reading is enough.                            *)
debounce_none(m, previous) == m
debounce(m, previous) == m \cup previous

(* A round in which the readings of the slaves of w come out wrong.        *)
health_tick(w) ==
  LET m == {s \in Slaves : LooksWell(s, w)}
  IN  /\ prev_rdy' = IF Counted \in w THEN "wrong" ELSE "true"
      /\ s_mask' = debounce(m, prev_mask)
      /\ prev_mask' = m
      /\ primed' = TRUE
      /\ told' = IF primed THEN debounce(m, prev_mask) ELSE Untold
      /\ met' = [s \in Slaves |->
                   SubSeq(<<IF s \in w THEN "misread" ELSE cond[s]>> \o met[s],
                          1, IF Len(met[s]) < 3 THEN Len(met[s]) + 1 ELSE 3)]
      /\ UNCHANGED cond

(* Hardware breaks, or comes back.                                         *)
ConditionChanges ==
  /\ \E s \in Slaves : \E c \in Conditions \ {cond[s]} : cond' = [cond EXCEPT ![s] = c]
  /\ UNCHANGED <<prev_rdy, prev_mask, primed, s_mask, told, met>>

(* What the dashboard is told.  A slave is reported as failed only if the  *)
(* last two rounds both met something other than a healthy reading: one    *)
(* dirty reading switches no block off (health.c:95).  (Not so the first   *)
(* report on S1, whose first round has nothing to compare with.)  One that *)
(* has been broken for three rounds is reported as failed.                 *)
ToldIsTrue ==
  told # Untold =>
    \A s \in Slaves :
      /\ s \notin told => met[s][1] # "fine"
      /\ s \notin told => met[s][2] # "fine" \/ (s = Counted /\ Len(met[s]) = 2)
      /\ met[s] = <<"broken", "broken", "broken">> => s \notin told
=============================================================================
