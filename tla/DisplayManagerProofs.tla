------------------------ MODULE DisplayManagerProofs ------------------------
(***************************************************************************)
(* The TFT dashboard and the health check, for any settings, any memory,   *)
(* any number of slaves, rows and steps, and any number of events: the     *)
(* state is well typed, what the dashboard is told of a slave is true, no  *)
(* zone ever mixes two contents or two themes, and whenever there is       *)
(* nothing left to draw every zone is whole.                               *)
(***************************************************************************)
EXTENDS DisplayManager, FiniteSetTheorems, SequenceTheorems, TLAPS

(* JOBQ_N, 48, is enough for the jobs of one zone: the 41 of the spectrum, *)
(* the 10 of the slaves, the 6 of the log, the 3 of a frame.               *)
QueueFits ==
  /\ Bars + 1 <= JobQ /\ Cardinality(Slaves) + 1 <= JobQ /\ LogRows <= JobQ /\ 4 <= JobQ

-----------------------------------------------------------------------------
(* The health check.                                                       *)
Readings == {"fine", "broken", "misread"}
HealthTyped ==
  /\ HealthTypeOK
  /\ met \in [Slaves -> Seq(Readings)]

(* What is remembered of the last round: S1 needs two to be judged.        *)
Remembered ==
  /\ \A s \in Slaves : primed <=> Len(met[s]) > 0
  /\ \A s, t \in Slaves : Len(met[s]) = Len(met[t])
  /\ told # Untold => \A s \in Slaves : Len(met[s]) > 1
  /\ primed => prev_rdy = IF met[Counted][1] = "misread" THEN "wrong" ELSE "true"
  /\ \A s \in Slaves :
       LET judged == IF s = Counted THEN Len(met[s]) > 1 ELSE primed
       IN  /\ (judged /\ met[s][1] = "fine") => s \in prev_mask
           /\ (judged /\ met[s][1] = "broken" /\ (s = Counted => met[s][2] = "broken")) => s \notin prev_mask

HealthInv == HealthTyped /\ Remembered /\ ToldIsTrue

-----------------------------------------------------------------------------
(* The jobs that are not drawn yet: the one being executed and the queue.  *)
Left == Len(jq) + (IF ex = NoJob THEN 0 ELSE 1)
Item(i) == IF ex = NoJob THEN jq[i] ELSE IF i = 1 THEN ex ELSE jq[i - 1]

(* They are always the last ones of one batch: a cleared screen, the frame *)
(* of a zone, or the rows of one; and what the batch has drawn so far is   *)
(* on the panel.                                                           *)
FrameJob(z, con, c, k, v) == Job(z, <<"zone", "bar", "title">>[k], 0, con, c, v)
Filling(c) == Left = 1 /\ Item(1) = Job(0, "all", 0, "NONE", c, Item(1).value)
Framing(z, con, c) ==
  /\ Left \in 1..3 /\ \A i \in 1..Left : Item(i) = FrameJob(z, con, c, 3 - Left + i, Item(i).value)
  /\ Left < 3 => screen[z].colours = c /\ DOMAIN screen[z].rows = {}
  /\ Left < 2 => screen[z].bar = c
Listing(z, con, c, n) ==
  /\ Left \in 1..n
  /\ \A i \in 1..Left : Item(i) = Job(z, "row", n - Left + i, con, c, Item(i).value)
  /\ screen[z].title = con /\ screen[z].bar = c
  /\ 1..(n - Left) \subseteq DOMAIN screen[z].rows
OneBatch ==
  \/ Left = 0 \/ \E c : Filling(c)
  \/ \E c : \E z \in Zones, con \in Contents : Framing(z, con, c)
  \/ \E c : \E z \in Zones, con \in Contents, n \in Nat : Listing(z, con, c, n)

(* While the settings in force are those being drawn, what is neither      *)
(* marked dirty nor in the batch is on the panel.                          *)
RowCount(con) ==
  CASE con = "SLAVES" -> Cardinality(Slaves) + 1 [] con \in {"RX", "IRQ", "TX"} -> 3
    [] con = "WAVE" -> Bars + 1 [] con = "PEAKS" -> 4 [] con = "NONE" -> 0
Needed(z) ==
  IF zone_content(z) # "LOGS" THEN RowCount(zone_content(z)) ELSE IF dlog = <<>> THEN 1 ELSE Len(dlog)
Framed(z) ==
  /\ screen[z].colours = theme /\ screen[z].bar = theme /\ screen[z].title = zone_content(z)
Rowed(z) == 1..Needed(z) \subseteq DOMAIN screen[z].rows
Cleared == Filling(theme) /\ statics_dirty = Zones /\ content_dirty = Zones
FramesLeft ==
  \E z \in Zones :
    /\ Framing(z, zone_content(z), theme) /\ content_dirty = Zones
    /\ \A y \in Zones \ (statics_dirty \cup {z}) : Framed(y)
RowsLeft ==
  \E z \in Zones :
    /\ Listing(z, zone_content(z), theme, Needed(z)) /\ statics_dirty = {}
    /\ \A y \in Zones : Framed(y)
    /\ \A y \in Zones \ (content_dirty \cup {z}) : Rowed(y)
AllDrawn ==
  /\ Left = 0 /\ (statics_dirty # {} => content_dirty = Zones)
  /\ \A y \in Zones \ statics_dirty : Framed(y)
  /\ \A y \in Zones \ content_dirty : Rowed(y)
Planned ==
  seen_epoch = set_epoch => theme = set.colours /\ (Cleared \/ FramesLeft \/ RowsLeft \/ AllDrawn)

QueueTyped == \E n \in 0..JobQ : jq = [i \in 1..n |-> jq[i]]
ScreenTyped ==
  /\ DOMAIN screen = Zones
  /\ \A z \in Zones :
       /\ screen[z] = [colours |-> screen[z].colours, bar |-> screen[z].bar,
                       title |-> screen[z].title, rows |-> screen[z].rows]
       /\ screen[z].title \in Contents \cup {Nothing}
SourcesTyped ==
  /\ set \in Settings /\ log \in Seq(Int) /\ Len(log) <= LogBack
  /\ set_epoch \in Nat /\ log_epoch \in Nat /\ events \in Nat
  /\ set_epoch + log_epoch <= events /\ events <= MaxEvents
  /\ seen_epoch \in Int /\ seen_epoch <= set_epoch
DisplayTyped ==
  /\ \E n \in 0..LogRows : dlog = [i \in 1..n |-> dlog[i]]
  /\ phase \in {"RST0", "RST1", "INIT", "RUN"} /\ init_ix \in 0..InitSteps
  /\ ex_rem \in 0..Chunks /\ (ex # NoJob => ex_rem # 0)
  /\ statics_dirty \subseteq Zones /\ content_dirty \subseteq Zones /\ rot \in Zones

Drawing == QueueTyped /\ ScreenTyped /\ NeverMixed /\ OneBatch /\ Planned
IInv == HealthInv /\ SourcesTyped /\ DisplayTyped /\ Drawing

-----------------------------------------------------------------------------
(* The health check keeps its invariant.                                   *)
LEMMA CutPrefix ==
  ASSUME NEW S, NEW q \in Seq(S), NEW x \in S, NEW k \in 1..Len(q) + 1
  PROVE  LET r == SubSeq(<<x>> \o q, 1, k)
         IN  /\ r \in Seq(S) /\ Len(r) = k /\ r[1] = x
             /\ \A i \in 2..k : r[i] = q[i - 1]
<1>1. <<x>> \o q \in Seq(S) /\ Len(<<x>> \o q) = Len(q) + 1
  OBVIOUS
<1>2. \A i \in 1..Len(q) + 1 : (<<x>> \o q)[i] = IF i = 1 THEN x ELSE q[i - 1]
  OBVIOUS
<1>3. SubSeq(<<x>> \o q, 1, k) = [i \in 1..k |-> (<<x>> \o q)[i]]
  OBVIOUS
<1> HIDE <1>1
<1>4. /\ SubSeq(<<x>> \o q, 1, k) \in Seq(S) /\ Len(SubSeq(<<x>> \o q, 1, k)) = k
      /\ \A i \in 1..k : SubSeq(<<x>> \o q, 1, k)[i] = (<<x>> \o q)[i]
  BY <1>1, SubSeqProperties
<1> QED BY <1>2, <1>4

(* The new reading comes first, and the last two are kept.                 *)
LEMMA MetNext ==
  ASSUME HealthTyped, NEW w \in SUBSET Slaves, health_tick(w), NEW s \in Slaves
  PROVE  /\ met'[s] \in Seq(Readings)
         /\ Len(met'[s]) = IF Len(met[s]) < 3 THEN Len(met[s]) + 1 ELSE 3
         /\ met'[s][1] = IF s \in w THEN "misread" ELSE cond[s]
         /\ \A i \in 2..Len(met'[s]) : met'[s][i] = met[s][i - 1]
<1> DEFINE x == IF s \in w THEN "misread" ELSE cond[s]
           k == IF Len(met[s]) < 3 THEN Len(met[s]) + 1 ELSE 3
<1>1. x \in Readings /\ met[s] \in Seq(Readings) /\ Len(met[s]) <= 3 /\ k \in 1..Len(met[s]) + 1
  BY DEF HealthTyped, HealthTypeOK, Readings, Conditions
<1>2. met'[s] = SubSeq(<<x>> \o met[s], 1, k)
  BY DEF health_tick
<1> HIDE DEF x, k
<1>3. met'[s] \in Seq(Readings) /\ Len(met'[s]) = k /\ met'[s][1] = x
      /\ \A i \in 2..k : met'[s][i] = met[s][i - 1]
  BY <1>1, <1>2, CutPrefix
<1> QED BY <1>3 DEF x, k

LEMMA HealthTickKeeps ==
  ASSUME HealthInv, NEW w \in SUBSET Slaves, health_tick(w)
  PROVE  HealthInv'
<1> DEFINE m == {s \in Slaves : LooksWell(s, w)}
<1> USE HealthAssumption DEF HealthInv
<1>1. /\ prev_mask' = m /\ primed' = TRUE /\ s_mask' = m \cup prev_mask /\ cond' = cond
      /\ told' = IF primed THEN m \cup prev_mask ELSE Untold
      /\ prev_rdy' = IF Counted \in w THEN "wrong" ELSE "true"
  BY DEF health_tick, debounce
<1>2. HealthTyped'
  <2>1. met' \in [Slaves -> Seq(Readings)]
    <3>1. \A s \in Slaves : met'[s] \in Seq(Readings)
      BY MetNext
    <3> QED BY <3>1 DEF health_tick
  <2>2. \A s \in Slaves : Len(met'[s]) <= 3
    BY MetNext DEF HealthTyped, HealthTypeOK
  <2>3. m \subseteq Slaves
    OBVIOUS
  <2> HIDE DEF m
  <2> QED BY <1>1, <2>1, <2>2, <2>3 DEF HealthTyped, HealthTypeOK
<1>3. \A s \in Slaves : Len(met[s]) \in Nat /\ Len(met[s]) <= 3 /\ cond[s] \in {"fine", "broken"}
  <2> SUFFICES ASSUME NEW s \in Slaves PROVE Len(met[s]) \in Nat /\ Len(met[s]) <= 3 /\ cond[s] \in {"fine", "broken"}
    OBVIOUS
  <2>1. met[s] \in Seq(Readings) /\ Len(met[s]) <= 3
    BY DEF HealthTyped, HealthTypeOK
  <2>2. Len(met[s]) \in Nat
    BY <2>1, LenProperties
  <2>3. cond[s] \in {"fine", "broken"}
    BY DEF HealthTyped, HealthTypeOK, Conditions
  <2> QED BY <2>1, <2>2, <2>3
<1>4. \A s \in Slaves :
        /\ Len(met'[s]) = (IF Len(met[s]) < 3 THEN Len(met[s]) + 1 ELSE 3)
        /\ met'[s][1] = (IF s \in w THEN "misread" ELSE cond[s])
        /\ Len(met[s]) > 0 => met'[s][2] = met[s][1]
        /\ Len(met[s]) > 1 => met'[s][3] = met[s][2]
  <2> SUFFICES ASSUME NEW s \in Slaves
               PROVE  /\ Len(met'[s]) = (IF Len(met[s]) < 3 THEN Len(met[s]) + 1 ELSE 3)
                      /\ met'[s][1] = (IF s \in w THEN "misread" ELSE cond[s])
                      /\ Len(met[s]) > 0 => met'[s][2] = met[s][1]
                      /\ Len(met[s]) > 1 => met'[s][3] = met[s][2]
    OBVIOUS
  <2> QED BY <1>3, MetNext
<1>5. \A s \in Slaves :
        /\ (met'[s][1] = "fine" /\ (s = Counted => primed)) => s \in m
        /\ (met'[s][1] = "broken" /\ (s = Counted => prev_rdy = "true")) => s \notin m
  BY <1>3, <1>4 DEF LooksWell, Moved
<1> HIDE DEF m
<1>6. Remembered'
  <2>1. \A s \in Slaves : (primed' <=> Len(met'[s]) > 0) /\ (told' # Untold => Len(met'[s]) > 1)
    BY <1>1, <1>3, <1>4 DEF Remembered
  <2>2. \A s, t \in Slaves : Len(met'[s]) = Len(met'[t])
    BY <1>3, <1>4 DEF Remembered
  <2>3. prev_rdy' = IF met'[Counted][1] = "misread" THEN "wrong" ELSE "true"
    BY <1>1, <1>3, <1>4
  <2>4. ASSUME NEW s \in Slaves, s = Counted => Len(met'[s]) > 1
        PROVE  /\ met'[s][1] = "fine" => s \in prev_mask'
               /\ (met'[s][1] = "broken" /\ (s = Counted => met'[s][2] = "broken")) => s \notin prev_mask'
    <3>1. s = Counted => primed /\ met'[s][2] = met[s][1]
      BY <1>3, <1>4, <2>4 DEF Remembered
    <3> QED BY <1>1, <1>5, <3>1 DEF Remembered
  <2> QED BY <1>1, <2>1, <2>2, <2>3, <2>4 DEF Remembered
<1>7. ToldIsTrue'
  <2> SUFFICES ASSUME told' # Untold, NEW s \in Slaves
               PROVE  /\ s \notin told' => met'[s][1] # "fine"
                      /\ s \notin told' => met'[s][2] # "fine" \/ (s = Counted /\ Len(met'[s]) = 2)
                      /\ met'[s] = <<"broken", "broken", "broken">> => s \notin told'
    BY DEF ToldIsTrue
  <2>1. primed /\ Len(met[s]) > 0 /\ told' = m \cup prev_mask
    BY <1>1 DEF Remembered
  <2>2. s \notin told' => met'[s][1] # "fine"
    BY <1>5, <2>1
  <2>3. s \notin told' => met'[s][2] # "fine" \/ (s = Counted /\ Len(met'[s]) = 2)
    <3>1. met'[s][2] = met[s][1] /\ Len(met[s]) \in Nat /\ Len(met[s]) > 0
      BY <1>3, <1>4, <2>1
    <3>2. ASSUME s # Counted \/ Len(met[s]) > 1, met[s][1] = "fine" PROVE s \in prev_mask
      BY <2>1, <3>2 DEF Remembered
    <3>3. ASSUME Len(met[s]) = 1 PROVE Len(met'[s]) = 2
      <4>1. Len(met'[s]) = IF Len(met[s]) < 3 THEN Len(met[s]) + 1 ELSE 3
        BY <1>4
      <4> QED BY <3>3, <4>1
    <3>4. ASSUME s \notin told', met'[s][2] = "fine" PROVE s = Counted /\ Len(met'[s]) = 2
      <4>1. s \notin prev_mask /\ met[s][1] = "fine"
        BY <2>1, <3>1, <3>4
      <4>2. s = Counted /\ ~(Len(met[s]) > 1)
        BY <3>2, <4>1
      <4>3. met[s] \in Seq(Readings) /\ s \in DOMAIN met
        BY DEF HealthTyped
      <4>4. \A n \in Nat : n > 0 /\ ~(n > 1) => n = 1
        OBVIOUS
      <4>5. Len(met[s]) = 1
        BY <3>1, <4>2, <4>4
      <4> QED BY <3>3, <4>2, <4>5
    <3> QED BY <3>4
  <2>4. ASSUME met'[s] = <<"broken", "broken", "broken">> PROVE s \notin told'
    <3>1. Len(met'[s]) = 3 /\ met'[s][1] = "broken" /\ met'[s][2] = "broken" /\ met'[s][3] = "broken"
      BY <2>4
    <3>2. Len(met[s]) > 1 /\ met[s][1] = "broken" /\ met[s][2] = "broken"
      BY <1>3, <1>4, <2>1, <3>1
    <3>3. s \notin prev_mask
      BY <2>1, <3>2 DEF Remembered
    <3>4. s \notin m
      BY <1>5, <2>1, <3>1, <3>2 DEF Remembered
    <3> QED BY <2>1, <3>3, <3>4
  <2> QED BY <2>2, <2>3, <2>4
<1> QED BY <1>2, <1>6, <1>7

LEMMA ConditionKeeps ==
  ASSUME HealthInv, ConditionChanges
  PROVE  HealthInv'
<1>1. cond' \in [Slaves -> Conditions]
  BY DEF ConditionChanges, HealthInv, HealthTyped, HealthTypeOK
<1> QED BY <1>1 DEF ConditionChanges, HealthInv, HealthTyped, HealthTypeOK, Remembered, ToldIsTrue

LEMMA HealthSame ==
  ASSUME HealthInv, UNCHANGED healthVars
  PROVE  HealthInv'
BY DEF healthVars, HealthInv, HealthTyped, HealthTypeOK, Remembered, ToldIsTrue

LEMMA HealthStarts ==
  ASSUME Init
  PROVE  HealthInv
<1>1. met = [s \in Slaves |-> <<>>] /\ \A s \in Slaves : met[s] = <<>> /\ Len(met[s]) = 0
  BY DEF Init, HealthInit
<1>2. HealthTyped
  <2>1. <<>> \in Seq(Readings)
    OBVIOUS
  <2>2. met \in [Slaves -> Seq(Readings)]
    BY <1>1, <2>1
  <2>3. \A s \in Slaves : Len(met[s]) <= 3
    BY <1>1
  <2> QED BY <2>2, <2>3 DEF Init, HealthInit, HealthTyped, HealthTypeOK, Conditions
<1>3. told = Untold /\ ~primed
  BY DEF Init, HealthInit
<1>4. Remembered
  BY <1>1, <1>3 DEF Remembered
<1> QED BY <1>2, <1>3, <1>4 DEF HealthInv, ToldIsTrue

LEMMA HealthInductive == Spec => []HealthInv
<1>1. HealthInv /\ [Next]_vars => HealthInv'
  <2> SUFFICES ASSUME HealthInv, [Next]_vars PROVE HealthInv'
    OBVIOUS
  <2>1. CASE Round
    BY <2>1, HealthTickKeeps DEF Round
  <2>2. CASE Break
    BY <2>2, ConditionKeeps DEF Break
  <2>3. CASE UNCHANGED healthVars
    BY <2>3, HealthSame
  <2> QED BY <2>1, <2>2, <2>3
          DEF Next, display_tick, settings_apply, append_record, clear_log, Note, vars
<1> QED BY <1>1, HealthStarts, PTL DEF Spec

-----------------------------------------------------------------------------
(* The queue.  A step leaves the jobs that are not drawn alone, draws the  *)
(* first of them, or brings new ones when there are none.                  *)
Kept == Left' = Left /\ (\A i \in 1..Left : Item(i)' = Item(i)) /\ screen' = screen
Drew ==
  /\ Left >= 1 /\ Left' = Left - 1
  /\ \A i \in 1..Left - 1 : Item(i)' = Item(i + 1)
  /\ screen' = drawn(Item(1))
Brought(js) ==
  /\ Left = 0 /\ Left' = Len(js)
  /\ \A i \in 1..Len(js) : Item(i)' = js[i]
  /\ screen' = screen

LEMMA AnySequence ==
  ASSUME NEW n \in Nat, NEW q, q = [i \in 1..n |-> q[i]]
  PROVE  q \in Seq({q[i] : i \in 1..n}) /\ Len(q) = n /\ DOMAIN q = 1..n
<1>1. q \in [1..n -> {q[i] : i \in 1..n}]
  OBVIOUS
<1> QED BY <1>1

(* A queue that is empty takes as many jobs as it has places for.          *)
LEMMA JobPush ==
  ASSUME NEW n \in Nat, NEW js, js = [i \in 1..n |-> js[i]], jq = <<>>, job_push(js)
  PROVE  n <= JobQ => jq' = js
<1>1. js \in Seq({js[i] : i \in 1..n}) /\ Len(js) = n
  BY AnySequence
<1>2. jq \o js = js
  BY <1>1
<1>3. JobQ \in Nat
  BY DisplayAssumption
<1>4. jq' = SubSeq(js, 1, IF n < JobQ THEN n ELSE JobQ)
  BY <1>1, <1>2 DEF job_push, UpTo
<1>5. n <= JobQ => jq' = SubSeq(js, 1, n)
  BY <1>3, <1>4
<1>6. SubSeq(js, 1, n) = js
  BY <1>1
<1> QED BY <1>5, <1>6

LEMMA QueueLength ==
  ASSUME QueueTyped
  PROVE  /\ Len(jq) \in 0..JobQ /\ jq \in Seq({jq[i] : i \in 1..Len(jq)})
         /\ Left \in Nat /\ (Left = 0 <=> ex = NoJob /\ jq = <<>>)
<1>1. PICK n \in 0..JobQ : jq = [i \in 1..n |-> jq[i]]
  BY DEF QueueTyped
<1>2. n \in Nat
  BY <1>1, DisplayAssumption
<1>3. jq \in Seq({jq[i] : i \in 1..n}) /\ Len(jq) = n
  BY <1>1, <1>2, AnySequence
<1>4. n = 0 => jq = <<>>
  BY <1>1
<1> QED BY <1>1, <1>2, <1>3, <1>4 DEF Left

LEMMA Starts ==
  ASSUME QueueTyped, \A i \in 1..Left : Item(i).part # "none", ex_start
  PROVE  Kept /\ QueueTyped' /\ ex' # NoJob
<1>1. /\ Len(jq) \in Nat /\ Len(jq) <= JobQ /\ jq \in Seq({jq[i] : i \in 1..Len(jq)}) /\ jq # <<>>
      /\ ex = NoJob /\ ex' = jq[1] /\ jq' = Tail(jq)
  BY QueueLength, DisplayAssumption DEF ex_start
<1>2. Len(jq) >= 1 /\ Len(jq') = Len(jq) - 1 /\ \A i \in 1..Len(jq) - 1 : jq'[i] = jq[i + 1]
  BY <1>1
<1>3. Left = Len(jq) /\ Item(1) = ex' /\ ex' # NoJob
  <2>1. Left = Len(jq) /\ Item(1) = jq[1]
    BY <1>1 DEF Left, Item
  <2>2. jq[1].part # "none"
    BY <1>1, <1>2, <2>1
  <2> QED BY <1>1, <2>1, <2>2 DEF NoJob
<1>4. Left' = Left /\ \A i \in 1..Left : Item(i)' = Item(i)
  BY <1>1, <1>2, <1>3 DEF Left, Item
<1>5. QueueTyped'
  <2>1. jq' \in Seq({jq[i] : i \in 1..Len(jq)})
    BY <1>1
  <2>3. jq' = [i \in 1..Len(jq') |-> jq'[i]]
    BY <2>1
  <2>2. Len(jq) - 1 \in 0..JobQ
    BY <1>1, <1>2, DisplayAssumption
  <2> QED BY <1>2, <2>2, <2>3 DEF QueueTyped
<1> QED BY <1>3, <1>4, <1>5 DEF Kept, ex_start

LEMMA Executes ==
  ASSUME QueueTyped, ex_chunk
  PROVE  /\ QueueTyped' /\ (Kept \/ Drew)
         /\ ex_rem # 1 => ex' = ex
         /\ ex_rem = 1 => ex' = NoJob
<1>1. jq' = jq /\ ex # NoJob /\ Len(jq) \in Nat
  BY QueueLength, DisplayAssumption DEF ex_chunk
<1>2. QueueTyped'
  BY <1>1 DEF QueueTyped
<1>3. CASE ex_rem # 1
  <2>1. ex' = ex /\ screen' = screen
    BY <1>3 DEF ex_chunk
  <2> QED BY <1>1, <1>2, <1>3, <2>1 DEF Kept, Left, Item
<1>4. CASE ex_rem = 1
  <2>1. ex' = NoJob /\ screen' = drawn(ex)
    BY <1>4 DEF ex_chunk
  <2>2. Left = Len(jq) + 1 /\ Left' = Len(jq) /\ Item(1) = ex
    BY <1>1, <2>1 DEF Left, Item
  <2>3. \A i \in 1..Len(jq) : Item(i)' = jq[i] /\ Item(i + 1) = jq[i]
    BY <1>1, <2>1 DEF Item
  <2> QED BY <1>1, <1>2, <1>4, <2>1, <2>2, <2>3 DEF Drew
<1> QED BY <1>3, <1>4

LEMMA Brings ==
  ASSUME NEW n \in Nat, n <= JobQ, NEW js, js = [i \in 1..n |-> js[i]],
         ex = NoJob, jq = <<>>, job_push(js), ex' = ex, screen' = screen
  PROVE  Brought(js) /\ QueueTyped' /\ Len(js) = n
<1>1. jq' = js /\ Len(js) = n
  BY AnySequence, JobPush
<1>2. Left = 0 /\ Left' = n /\ \A i \in 1..n : Item(i)' = js[i]
  BY <1>1 DEF Left, Item
<1>3. QueueTyped'
  <2>1. n \in 0..JobQ
    BY DisplayAssumption
  <2> QED BY <1>1, <2>1 DEF QueueTyped
<1> QED BY <1>1, <1>2, <1>3 DEF Brought

-----------------------------------------------------------------------------
(* The panel.                                                              *)
LEMMA DrawnZone ==
  ASSUME ScreenTyped, NEW j, j.zone \in Zones, j.part \in {"zone", "bar", "title", "row"}
  PROVE  LET z == j.zone
         IN  /\ DOMAIN drawn(j) = Zones
             /\ \A y \in Zones \ {z} : drawn(j)[y] = screen[y]
             /\ j.part = "zone" => drawn(j)[z] = BlankZone(j.colours)
             /\ j.part = "bar" =>
                  drawn(j)[z] = [colours |-> screen[z].colours, bar |-> j.colours,
                                 title |-> Nothing, rows |-> screen[z].rows]
             /\ j.part = "title" =>
                  drawn(j)[z] = [colours |-> screen[z].colours, bar |-> screen[z].bar,
                                 title |-> j.con, rows |-> screen[z].rows]
             /\ j.part = "row" =>
                  drawn(j)[z] = [colours |-> screen[z].colours, bar |-> screen[z].bar,
                                 title |-> screen[z].title,
                                 rows |-> [i \in DOMAIN screen[z].rows \cup {j.row} |->
                                             IF i = j.row THEN RowOf(j) ELSE screen[z].rows[i]]]
<1> DEFINE z == j.zone
<1>1. DOMAIN screen = Zones
  BY DEF ScreenTyped
<1>2. screen[z] = [colours |-> screen[z].colours, bar |-> screen[z].bar,
                   title |-> screen[z].title, rows |-> screen[z].rows]
  BY DEF ScreenTyped
<1>3. CASE j.part = "zone"
  BY <1>1, <1>3 DEF drawn
<1>4. CASE j.part = "bar"
  BY <1>1, <1>2, <1>4 DEF drawn
<1>5. CASE j.part = "title"
  BY <1>1, <1>2, <1>5 DEF drawn
<1>6. CASE j.part = "row"
  BY <1>1, <1>2, <1>6 DEF drawn
<1> QED BY <1>3, <1>4, <1>5, <1>6

LEMMA DrawnAll ==
  ASSUME NEW j, j.part = "all"
  PROVE  drawn(j) = [z \in Zones |-> BlankZone(j.colours)]
BY DEF drawn

(* What the zones show.                                                    *)
LEMMA MinOf ==
  ASSUME NEW S, S \subseteq Zones, S # {}
  PROVE  Min(S) \in S
<1>1. PICK x \in S : TRUE
  OBVIOUS
<1>2. \E m \in S : \A y \in S : m <= y
  BY DEF Zones
<1>3. \E m : m \in S /\ \A y \in S : m <= y
  BY <1>2
<1>4. Min(S) = CHOOSE m : m \in S /\ \A y \in S : m <= y
  BY DEF Min
<1> QED BY <1>3, <1>4

LEMMA ZoneContent ==
  ASSUME NEW z \in Zones
  PROVE  zone_content(z) \in Contents /\ (zone_content(z) = "LOGS" => z = 2)
<1>1. \A a, b, c, d : FirstOf(<<<<a, c>>, <<b, d>>>>) \in {"NONE", c, d}
  <2> SUFFICES ASSUME NEW a, NEW b, NEW c, NEW d
               PROVE  FirstOf(<<<<a, c>>, <<b, d>>>>) \in {"NONE", c, d}
    OBVIOUS
  <2> DEFINE choices == <<<<a, c>>, <<b, d>>>>
             on == {i \in DOMAIN choices : choices[i][1] \in set.views}
  <2>1. DOMAIN choices = 1..2 /\ choices[1][2] = c /\ choices[2][2] = d
    OBVIOUS
  <2>2. FirstOf(choices) = IF on = {} THEN "NONE" ELSE choices[Min(on)][2]
    BY DEF FirstOf
  <2>3. on \subseteq Zones
    BY <2>1 DEF Zones
  <2>4. on # {} => Min(on) \in on
    BY <2>3, MinOf
  <2>5. on \subseteq {1, 2}
    BY <2>1
  <2> HIDE DEF on, choices
  <2>6. FirstOf(choices) \in {"NONE", c, d}
    BY <2>1, <2>2, <2>4, <2>5
  <2> QED BY <2>6 DEF choices
<1>2. \A a, c : FirstOf(<<<<a, c>>>>) \in {"NONE", c}
  <2> SUFFICES ASSUME NEW a, NEW c PROVE FirstOf(<<<<a, c>>>>) \in {"NONE", c}
    OBVIOUS
  <2> DEFINE choices == <<<<a, c>>>>
             on == {i \in DOMAIN choices : choices[i][1] \in set.views}
  <2>1. DOMAIN choices = 1..1 /\ choices[1][2] = c
    OBVIOUS
  <2>2. FirstOf(choices) = IF on = {} THEN "NONE" ELSE choices[Min(on)][2]
    BY DEF FirstOf
  <2>3. on # {} => Min(on) \in on
    BY <2>1, MinOf DEF Zones
  <2>4. on \subseteq {1}
    BY <2>1
  <2> HIDE DEF on, choices
  <2>5. FirstOf(choices) \in {"NONE", c}
    BY <2>1, <2>2, <2>3, <2>4
  <2> QED BY <2>5 DEF choices
<1>3. z = 0 => zone_content(z) \in {"NONE", "SLAVES", "TX"}
  BY <1>1 DEF zone_content
<1>4. z = 1 => zone_content(z) \in {"NONE", "WAVE", "PEAKS"}
  BY <1>1 DEF zone_content
<1>5. z = 2 => zone_content(z) \in {"NONE", "LOGS"}
  BY <1>2 DEF zone_content
<1>6. z = 3 => zone_content(z) \in {"NONE", "RX", "IRQ"}
  BY <1>1 DEF zone_content
<1> QED BY <1>3, <1>4, <1>5, <1>6 DEF Zones, Contents

LEMMA RowsOf ==
  ASSUME NEW con \in Contents \ {"LOGS"}
  PROVE  /\ RowCount(con) \in Nat /\ Len(Rows(con)) = RowCount(con)
         /\ Rows(con) = [i \in 1..RowCount(con) |-> Rows(con)[i]]
<1>1. \A n, v : n \in Nat => Len(Texts(n, v)) = n /\ Texts(n, v) = [i \in 1..n |-> Texts(n, v)[i]]
  BY DEF Texts
<1>2. Cardinality(Slaves) \in Nat /\ Bars \in Nat
  BY HealthAssumption, DisplayAssumption, FS_CardinalityType
<1>3. con = "NONE" => Rows(con) = <<>> /\ RowCount(con) = 0
  BY DEF Rows, RowCount
<1>4. con # "NONE" => RowCount(con) \in Nat /\ \E v : Rows(con) = Texts(RowCount(con), v)
  BY <1>2 DEF Rows, RowCount, Contents
<1> QED BY <1>1, <1>3, <1>4

LEMMA LargerOf ==
  ASSUME NEW a \in Int, NEW b \in Int
  PROVE  Max({a, b}) = (IF a < b THEN b ELSE a) /\ Min({a, b}) = (IF a < b THEN a ELSE b)
<1>1. Max({a, b}) = CHOOSE m : m \in {a, b} /\ \A y \in {a, b} : m >= y
  BY DEF Max
<1>2. Min({a, b}) = CHOOSE m : m \in {a, b} /\ \A y \in {a, b} : m <= y
  BY DEF Min
<1>3. \E m : m \in {a, b} /\ \A y \in {a, b} : m >= y
  <2>1. CASE a < b
    BY <2>1
  <2>2. CASE ~(a < b)
    BY <2>2
  <2> QED BY <2>1, <2>2
<1>4. \E m : m \in {a, b} /\ \A y \in {a, b} : m <= y
  <2>1. CASE a < b
    BY <2>1
  <2>2. CASE ~(a < b)
    BY <2>2
  <2> QED BY <2>1, <2>2
<1>5. Max({a, b}) \in {a, b} /\ \A y \in {a, b} : Max({a, b}) >= y
  BY <1>1, <1>3
<1>6. Min({a, b}) \in {a, b} /\ \A y \in {a, b} : Min({a, b}) <= y
  BY <1>2, <1>4
<1> QED BY <1>5, <1>6

LEMMA LogShown ==
  ASSUME SourcesTyped, DisplayTyped
  PROVE  \E n \in 0..LogRows : log_shown = [i \in 1..n |-> log_shown[i]]
<1>1. CASE log_epoch = dlog_epoch
  BY <1>1 DEF log_shown, DisplayTyped
<1>2. CASE log_epoch # dlog_epoch
  <2> DEFINE k == Min({LogRows, Cardinality(valid)})
  <2>1. Cardinality(valid) \in Nat
    <3>1. Len(log) \in Nat
      BY DEF SourcesTyped
    <3>2. IsFiniteSet(1..Len(log))
      BY <3>1, FS_Interval
    <3>3. IsFiniteSet(valid)
      BY <3>2, FS_Subset DEF valid
    <3> QED BY <3>3, FS_CardinalityType
  <2>2. LogRows \in Nat
    BY DisplayAssumption
  <2>3. \A c \in Nat : Min({LogRows, c}) = IF LogRows < c THEN LogRows ELSE c
    BY <2>2, LargerOf
  <2>5. \A c \in Nat : Min({LogRows, c}) \in 0..LogRows
    BY <2>2, <2>3
  <2>6. k \in 0..LogRows
    BY <2>1, <2>5
  <2>4. log_shown = [i \in 1..k |-> valid_nth(i)]
    BY <1>2 DEF log_shown
  <2> HIDE DEF k
  <2>7. log_shown = [i \in 1..k |-> log_shown[i]]
    BY <2>4
  <2> QED BY <2>6, <2>7
<1> QED BY <1>1, <1>2

(* The jobs of a zone, which the queue can take.                           *)
LEMMA Emitted ==
  ASSUME QueueFits, SourcesTyped, DisplayTyped, NEW z \in Zones
  PROVE  LET con == zone_content(z)
             js  == emit_content(z)
             n   == IF con # "LOGS" THEN RowCount(con)
                    ELSE IF log_shown = <<>> THEN 1 ELSE Len(log_shown)
         IN  /\ n \in Nat /\ n <= JobQ /\ js = [i \in 1..n |-> js[i]]
             /\ \A i \in 1..n : js[i] = Job(z, "row", i, con, theme, js[i].value)
             /\ Len(Rows(con)) = n
<1> DEFINE con == zone_content(z)
           rows == Rows(con)
           js  == emit_content(z)
           n   == IF con # "LOGS" THEN RowCount(con)
                  ELSE IF log_shown = <<>> THEN 1 ELSE Len(log_shown)
<1>1. n \in Nat /\ n <= JobQ /\ Len(rows) = n
  <2>1. CASE con # "LOGS"
    <3>1. con \in Contents \ {"LOGS"}
      BY <2>1, ZoneContent
    <3>2. n = RowCount(con)
      BY <2>1
    <3>3. Cardinality(Slaves) \in Nat /\ Bars \in Nat /\ JobQ \in Nat
      BY HealthAssumption, DisplayAssumption, FS_CardinalityType
    <3>4. RowCount(con) <= JobQ
      BY <3>1, <3>3 DEF RowCount, QueueFits, Contents
    <3> QED BY <3>1, <3>2, <3>4, RowsOf
  <2>2. CASE con = "LOGS"
    <3>1. PICK k \in 0..LogRows : log_shown = [i \in 1..k |-> log_shown[i]]
      BY LogShown
    <3>2. LogRows \in Nat /\ LogRows <= JobQ /\ 1 <= JobQ /\ JobQ \in Nat
      BY DisplayAssumption DEF QueueFits
    <3>3. k \in Nat /\ k <= JobQ
      BY <3>1, <3>2
    <3>4. Len(log_shown) = k
      BY <3>1, <3>3, AnySequence
    <3>5. rows = IF log_shown = <<>> THEN <<VUOTA>> ELSE log_shown
      BY <2>2 DEF Rows
    <3>6. n = IF log_shown = <<>> THEN 1 ELSE k
      BY <2>2, <3>4
    <3>7. Len(rows) = IF log_shown = <<>> THEN 1 ELSE k
      BY <3>4, <3>5
    <3> QED BY <3>2, <3>3, <3>6, <3>7
  <2> QED BY <2>1, <2>2
<1>2. js = [i \in 1..n |-> Job(z, "row", i, con, theme, rows[i])]
  BY <1>1 DEF emit_content
<1> HIDE DEF n, con, rows, js
<1>3. js = [i \in 1..n |-> js[i]] /\ \A i \in 1..n : js[i] = Job(z, "row", i, con, theme, js[i].value)
  BY <1>2 DEF Job
<1> QED BY <1>1, <1>3 DEF n, con, rows, js

-----------------------------------------------------------------------------
(* Drawing the first job of each kind of batch.                            *)
LEMMA FillDrawn ==
  ASSUME NEW c, Filling(c), Drew
  PROVE  Left' = 0 /\ screen' = [z \in Zones |-> BlankZone(c)]
<1>1. Item(1).part = "all" /\ Item(1).colours = c
  BY DEF Filling, Job
<1>2. drawn(Item(1)) = [z \in Zones |-> BlankZone(c)]
  BY <1>1, DrawnAll
<1> QED BY <1>2 DEF Drew, Filling

LEMMA FrameDrawn ==
  ASSUME ScreenTyped, NEW z \in Zones, NEW con \in Contents, NEW c, Framing(z, con, c), Drew
  PROVE  /\ ScreenTyped' /\ \A y \in Zones \ {z} : screen'[y] = screen[y]
         /\ DOMAIN screen'[z].rows = {}
         /\ IF Left' = 0 THEN screen'[z].colours = c /\ screen'[z].bar = c /\ screen'[z].title = con
                         ELSE Framing(z, con, c)'
<1>1. Left \in 1..3 /\ Left' = Left - 1 /\ screen' = drawn(Item(1))
  BY DEF Framing, Drew
<1>2. Item(1) = FrameJob(z, con, c, 4 - Left, Item(1).value)
  <2>1. 1 \in 1..Left /\ 3 - Left + 1 = 4 - Left
    BY <1>1
  <2> QED BY <2>1 DEF Framing
<1>3. /\ Item(1).zone = z /\ Item(1).con = con /\ Item(1).colours = c
      /\ Left = 3 => Item(1).part = "zone"
      /\ Left = 2 => Item(1).part = "bar"
      /\ Left = 1 => Item(1).part = "title"
  <2>1. /\ Item(1).zone = z /\ Item(1).con = con /\ Item(1).colours = c
        /\ Item(1).part = <<"zone", "bar", "title">>[4 - Left]
    BY <1>2 DEF FrameJob, Job
  <2> QED BY <1>1, <2>1
<1>4. /\ DOMAIN screen' = Zones /\ \A y \in Zones \ {z} : screen'[y] = screen[y]
      /\ Left = 3 => screen'[z] = BlankZone(c)
      /\ Left = 2 => screen'[z] = [colours |-> screen[z].colours, bar |-> c,
                                   title |-> Nothing, rows |-> screen[z].rows]
      /\ Left = 1 => screen'[z] = [colours |-> screen[z].colours, bar |-> screen[z].bar,
                                   title |-> con, rows |-> screen[z].rows]
  <2>1. Item(1).zone \in Zones /\ Item(1).part \in {"zone", "bar", "title", "row"}
    BY <1>1, <1>3
  <2> QED BY <1>1, <1>3, <2>1, DrawnZone
<1>5. /\ screen'[z] = [colours |-> screen'[z].colours, bar |-> screen'[z].bar,
                       title |-> screen'[z].title, rows |-> screen'[z].rows]
      /\ screen'[z].title \in Contents \cup {Nothing} /\ screen'[z].colours = c
      /\ DOMAIN screen'[z].rows = {}
      /\ Left < 3 => screen'[z].bar = c
      /\ Left = 1 => screen'[z].title = con
  <2>1. CASE Left = 3
    BY <1>4, <2>1 DEF BlankZone
  <2>2. CASE Left = 2
    BY <1>4, <2>2 DEF Framing
  <2>3. CASE Left = 1
    BY <1>4, <2>3 DEF Framing
  <2> QED BY <1>1, <2>1, <2>2, <2>3
<1>6. ScreenTyped'
  BY <1>4, <1>5 DEF ScreenTyped
<1>7. ASSUME Left # 1 PROVE Framing(z, con, c)'
  <2>1. \A i \in 1..Left - 1 : Item(i)' = FrameJob(z, con, c, 3 - Left' + i, Item(i)'.value)
    <3> SUFFICES ASSUME NEW i \in 1..Left - 1
                 PROVE  Item(i)' = FrameJob(z, con, c, 3 - Left' + i, Item(i)'.value)
      OBVIOUS
    <3>1. i + 1 \in 1..Left /\ 3 - Left + (i + 1) = 3 - Left' + i
      BY <1>1
    <3>2. Item(i + 1) = FrameJob(z, con, c, 3 - Left + (i + 1), Item(i + 1).value)
      BY <3>1 DEF Framing
    <3> QED BY <3>1, <3>2 DEF Drew
  <2> QED BY <1>1, <1>5, <1>7, <2>1 DEF Framing
<1> QED BY <1>1, <1>4, <1>5, <1>6, <1>7

LEMMA RowDrawn ==
  ASSUME ScreenTyped, NeverMixed, NEW z \in Zones, NEW con \in Contents, NEW c, NEW n \in Nat,
         Listing(z, con, c, n), Drew
  PROVE  /\ ScreenTyped' /\ \A y \in Zones \ {z} : screen'[y] = screen[y]
         /\ screen'[z].colours = screen[z].colours /\ screen'[z].bar = c /\ screen'[z].title = con
         /\ \A i \in DOMAIN screen'[z].rows :
              screen'[z].rows[i] = [con |-> con, colours |-> c, value |-> screen'[z].rows[i].value]
         /\ 1..(n - Left') \subseteq DOMAIN screen'[z].rows
         /\ Left' = 0 \/ Listing(z, con, c, n)'
<1>1. Left \in 1..n /\ Left' = Left - 1 /\ screen' = drawn(Item(1))
  BY DEF Listing, Drew
<1>2. Item(1) = Job(z, "row", n - Left + 1, con, c, Item(1).value)
  BY <1>1 DEF Listing
<1>3. /\ Item(1).zone = z /\ Item(1).con = con /\ Item(1).colours = c
      /\ Item(1).part = "row" /\ Item(1).row = n - Left + 1
  BY <1>2 DEF Job
<1> DEFINE old == screen[z].rows
           new == screen'[z].rows
<1>4. /\ DOMAIN screen' = Zones /\ \A y \in Zones \ {z} : screen'[y] = screen[y]
      /\ screen'[z] = [colours |-> screen[z].colours, bar |-> screen[z].bar,
                       title |-> screen[z].title,
                       rows |-> [i \in DOMAIN old \cup {n - Left + 1} |->
                                   IF i = n - Left + 1 THEN RowOf(Item(1)) ELSE old[i]]]
  <2>1. Item(1).zone \in Zones /\ Item(1).part \in {"zone", "bar", "title", "row"}
    BY <1>3
  <2>2. /\ DOMAIN drawn(Item(1)) = Zones
        /\ \A y \in Zones \ {z} : drawn(Item(1))[y] = screen[y]
        /\ drawn(Item(1))[z] = [colours |-> screen[z].colours, bar |-> screen[z].bar,
                                title |-> screen[z].title,
                                rows |-> [i \in DOMAIN old \cup {Item(1).row} |->
                                            IF i = Item(1).row THEN RowOf(Item(1)) ELSE old[i]]]
    BY <1>3, <2>1, DrawnZone
  <2> QED BY <1>1, <1>3, <2>2
<1>5. /\ screen'[z].colours = screen[z].colours /\ screen'[z].bar = c /\ screen'[z].title = con
      /\ new = [i \in DOMAIN old \cup {n - Left + 1} |->
                  IF i = n - Left + 1 THEN RowOf(Item(1)) ELSE old[i]]
  BY <1>4 DEF Listing
<1>6. ScreenTyped'
  BY <1>4, <1>5 DEF ScreenTyped
<1>7. \A i \in DOMAIN new : new[i] = [con |-> con, colours |-> c, value |-> new[i].value]
  <2>1. RowOf(Item(1)) = [con |-> con, colours |-> c, value |-> RowOf(Item(1)).value]
    BY <1>3 DEF RowOf
  <2>2. \A i \in DOMAIN old : old[i] = [con |-> con, colours |-> c, value |-> old[i].value]
    BY DEF NeverMixed, Listing
  <2> HIDE DEF old, new
  <2> QED BY <1>5, <2>1, <2>2
<1>8. 1..(n - Left') \subseteq DOMAIN new
  <2>1. \A i \in 1..(n - Left') : i \in 1..(n - Left) \/ i = n - Left + 1
    BY <1>1
  <2>2. 1..(n - Left) \subseteq DOMAIN old
    BY DEF Listing
  <2> HIDE DEF old, new
  <2> QED BY <1>5, <2>1, <2>2
<1>9. ASSUME Left # 1 PROVE Listing(z, con, c, n)'
  <2>1. \A i \in 1..Left - 1 : Item(i)' = Job(z, "row", n - Left' + i, con, c, Item(i)'.value)
    <3> SUFFICES ASSUME NEW i \in 1..Left - 1
                 PROVE  Item(i)' = Job(z, "row", n - Left' + i, con, c, Item(i)'.value)
      OBVIOUS
    <3>1. i + 1 \in 1..Left /\ n - Left + (i + 1) = n - Left' + i
      BY <1>1
    <3>2. Item(i + 1) = Job(z, "row", n - Left + (i + 1), con, c, Item(i + 1).value)
      BY <3>1 DEF Listing
    <3> QED BY <3>1, <3>2 DEF Drew
  <2>2. Left' \in 1..n
    BY <1>1, <1>9
  <2>3. \A i \in 1..Left' : Item(i)' = Job(z, "row", n - Left' + i, con, c, Item(i)'.value)
    BY <1>1, <2>1
  <2>4. screen'[z].bar = c /\ screen'[z].title = con
    BY <1>5
  <2> HIDE DEF Item, Left
  <2> QED BY <1>8, <2>2, <2>3, <2>4 DEF Listing
<1> QED BY <1>1, <1>4, <1>5, <1>6, <1>7, <1>8, <1>9

-----------------------------------------------------------------------------
(* What each kind of step does to the batch and to the plan.               *)
PlanSame == UNCHANGED <<theme, seen_epoch, statics_dirty, content_dirty, dlog, set, set_epoch>>

LEMMA KeptBatch ==
  ASSUME Kept
  PROVE  /\ \A c : Filling(c) => Filling(c)'
         /\ \A z, con, c : Framing(z, con, c) => Framing(z, con, c)'
         /\ \A z, con, c, n : Listing(z, con, c, n) => Listing(z, con, c, n)'
<1>1. Left' = Left /\ screen' = screen /\ \A i \in 1..Left : Item(i)' = Item(i)
  BY DEF Kept
<1>2. ASSUME NEW c, Filling(c) PROVE Filling(c)'
  <2>1. Left = 1 /\ Item(1)' = Item(1)
    BY <1>1, <1>2 DEF Filling
  <2> QED BY <1>1, <1>2, <2>1 DEF Filling
<1>3. ASSUME NEW z, NEW con, NEW c, Framing(z, con, c) PROVE Framing(z, con, c)'
  <2> HIDE DEF Item, Left
  <2> QED BY <1>1, <1>3 DEF Framing
<1>4. ASSUME NEW z, NEW con, NEW c, NEW n, Listing(z, con, c, n) PROVE Listing(z, con, c, n)'
  <2> HIDE DEF Item, Left
  <2> QED BY <1>1, <1>4 DEF Listing
<1> QED BY <1>2, <1>3, <1>4

LEMMA KeptOneBatch ==
  ASSUME Kept, ScreenTyped, NeverMixed, OneBatch
  PROVE  ScreenTyped' /\ NeverMixed' /\ OneBatch'
<1>1. ScreenTyped' /\ NeverMixed'
  BY DEF Kept, ScreenTyped, NeverMixed
<1>2. OneBatch'
  <2>1. CASE Left = 0
    BY <2>1 DEF Kept, OneBatch
  <2>2. CASE \E c : Filling(c)
    BY <2>2, KeptBatch DEF OneBatch
  <2>3. CASE \E c : \E z \in Zones, con \in Contents : Framing(z, con, c)
    BY <2>3, KeptBatch DEF OneBatch
  <2>4. CASE \E c : \E z \in Zones, con \in Contents, n \in Nat : Listing(z, con, c, n)
    BY <2>4, KeptBatch DEF OneBatch
  <2> QED BY <2>1, <2>2, <2>3, <2>4 DEF OneBatch
<1> QED BY <1>1, <1>2

LEMMA SameNeeds ==
  ASSUME set' = set, dlog' = dlog
  PROVE  \A z \in Zones : zone_content(z)' = zone_content(z) /\ Needed(z)' = Needed(z)
<1>1. \A z \in Zones : zone_content(z)' = zone_content(z)
  BY DEF zone_content, FirstOf
<1> QED BY <1>1 DEF Needed

LEMMA KeptPlanned ==
  ASSUME Kept, PlanSame, Planned
  PROVE  Planned'
<1> SUFFICES ASSUME seen_epoch = set_epoch
             PROVE  Cleared' \/ FramesLeft' \/ RowsLeft' \/ AllDrawn'
  BY DEF Planned, PlanSame
<1>1. /\ theme' = theme /\ statics_dirty' = statics_dirty /\ content_dirty' = content_dirty
      /\ screen' = screen /\ Left' = Left
  BY DEF PlanSame, Kept
<1>2. \A z \in Zones : zone_content(z)' = zone_content(z) /\ Needed(z)' = Needed(z)
  BY SameNeeds DEF PlanSame
<1>3. \A z \in Zones : (Framed(z) => Framed(z)') /\ (Rowed(z) => Rowed(z)')
  BY <1>1, <1>2 DEF Framed, Rowed
<1>4. CASE Cleared
  BY <1>1, <1>4, KeptBatch DEF Cleared
<1>5. CASE FramesLeft
  BY <1>1, <1>2, <1>3, <1>5, KeptBatch DEF FramesLeft
<1>6. CASE RowsLeft
  BY <1>1, <1>2, <1>3, <1>6, KeptBatch DEF RowsLeft
<1>7. CASE AllDrawn
  BY <1>1, <1>3, <1>7 DEF AllDrawn
<1> QED BY <1>4, <1>5, <1>6, <1>7 DEF Planned

LEMMA DrewOneBatch ==
  ASSUME Drew, ScreenTyped, NeverMixed, OneBatch
  PROVE  ScreenTyped' /\ NeverMixed' /\ OneBatch'
<1>1. Left # 0
  BY DEF Drew
<1>2. CASE \E c : Filling(c)
  <2>1. PICK c : Filling(c)
    BY <1>2
  <2>2. Left' = 0 /\ screen' = [z \in Zones |-> BlankZone(c)]
    BY <2>1, FillDrawn
  <2>3. ScreenTyped'
    BY <2>2 DEF ScreenTyped, BlankZone
  <2>4. NeverMixed'
    BY <2>2 DEF NeverMixed, BlankZone
  <2> QED BY <2>2, <2>3, <2>4 DEF OneBatch
<1>3. CASE \E c : \E z \in Zones, con \in Contents : Framing(z, con, c)
  <2>0. PICK c : \E z \in Zones, con \in Contents : Framing(z, con, c)
    BY <1>3
  <2>1. PICK z \in Zones, con \in Contents : Framing(z, con, c)
    BY <2>0
  <2>2. /\ ScreenTyped' /\ \A y \in Zones \ {z} : screen'[y] = screen[y]
        /\ DOMAIN screen'[z].rows = {}
        /\ Left' = 0 \/ Framing(z, con, c)'
    BY <2>1, FrameDrawn
  <2>3. NeverMixed'
    BY <2>2 DEF NeverMixed
  <2> QED BY <2>2, <2>3 DEF OneBatch
<1>4. CASE \E c : \E z \in Zones, con \in Contents, n \in Nat : Listing(z, con, c, n)
  <2>0. PICK c : \E z \in Zones, con \in Contents, n \in Nat : Listing(z, con, c, n)
    BY <1>4
  <2>1. PICK z \in Zones, con \in Contents, n \in Nat : Listing(z, con, c, n)
    BY <2>0
  <2>2. /\ ScreenTyped' /\ \A y \in Zones \ {z} : screen'[y] = screen[y]
        /\ screen'[z].bar = c /\ screen'[z].title = con
        /\ \A i \in DOMAIN screen'[z].rows :
             screen'[z].rows[i] = [con |-> con, colours |-> c, value |-> screen'[z].rows[i].value]
        /\ Left' = 0 \/ Listing(z, con, c, n)'
    BY <2>1, RowDrawn
  <2>3. NeverMixed'
    BY <2>2 DEF NeverMixed
  <2> QED BY <2>2, <2>3 DEF OneBatch
<1> QED BY <1>1, <1>2, <1>3, <1>4 DEF OneBatch

LEMMA DrewPlanned ==
  ASSUME Drew, PlanSame, ScreenTyped, NeverMixed, DisplayTyped, Planned
  PROVE  Planned'
<1> SUFFICES ASSUME seen_epoch = set_epoch
             PROVE  Cleared' \/ FramesLeft' \/ RowsLeft' \/ AllDrawn'
  BY DEF Planned, PlanSame
<1>1. /\ theme' = theme /\ statics_dirty' = statics_dirty /\ content_dirty' = content_dirty
      /\ Left # 0
  BY DEF PlanSame, Drew
<1>2. \A z \in Zones : zone_content(z)' = zone_content(z) /\ Needed(z)' = Needed(z)
  BY SameNeeds DEF PlanSame
<1>3. \A z \in Zones : screen'[z] = screen[z] => (Framed(z) => Framed(z)') /\ (Rowed(z) => Rowed(z)')
  BY <1>1, <1>2 DEF Framed, Rowed
<1>4. CASE Cleared
  <2>1. Left' = 0
    BY <1>4, FillDrawn DEF Cleared
  <2> QED BY <1>1, <1>4, <2>1 DEF AllDrawn, Cleared
<1>5. CASE FramesLeft
  <2>1. PICK z \in Zones : /\ Framing(z, zone_content(z), theme) /\ content_dirty = Zones
                           /\ \A y \in Zones \ (statics_dirty \cup {z}) : Framed(y)
    BY <1>5 DEF FramesLeft
  <2>2. PICK con, c : con \in Contents /\ con = zone_content(z) /\ c = theme
    BY ZoneContent
  <2>3. /\ \A y \in Zones \ {z} : screen'[y] = screen[y]
        /\ IF Left' = 0 THEN screen'[z].colours = c /\ screen'[z].bar = c /\ screen'[z].title = con
                        ELSE Framing(z, con, c)'
    <3>1. Framing(z, con, c)
      BY <2>1, <2>2
    <3> QED BY <2>2, <3>1, FrameDrawn
  <2>4. \A y \in Zones \ (statics_dirty \cup {z}) : Framed(y)'
    BY <1>3, <2>1, <2>3
  <2>5. CASE Left' = 0
    <3>1. Framed(z)'
      BY <1>1, <1>2, <2>2, <2>3, <2>5 DEF Framed
    <3> QED BY <1>1, <2>1, <2>4, <2>5, <3>1 DEF AllDrawn
  <2>6. CASE Left' # 0
    <3>1. Framing(z, zone_content(z), theme)'
      BY <1>1, <1>2, <2>2, <2>3, <2>6
    <3> QED BY <1>1, <2>1, <2>4, <3>1 DEF FramesLeft
  <2> QED BY <2>5, <2>6
<1>6. CASE RowsLeft
  <2>1. PICK z \in Zones : /\ Listing(z, zone_content(z), theme, Needed(z)) /\ statics_dirty = {}
                           /\ \A y \in Zones : Framed(y)
                           /\ \A y \in Zones \ (content_dirty \cup {z}) : Rowed(y)
    BY <1>6 DEF RowsLeft
  <2>2. PICK con \in Contents, n \in Nat : con = zone_content(z) /\ n = Needed(z)
    <3>1. Cardinality(Slaves) \in Nat /\ Bars \in Nat /\ LogRows \in Nat
      BY HealthAssumption, DisplayAssumption, FS_CardinalityType
    <3>2. dlog # <<>> => Len(dlog) \in Nat
      <4>1. PICK k \in 0..LogRows : dlog = [i \in 1..k |-> dlog[i]]
        BY DEF DisplayTyped
      <4>2. k \in Nat
        BY <3>1, <4>1
      <4> QED BY <4>1, <4>2, AnySequence
    <3>3. zone_content(z) \in Contents
      BY ZoneContent
    <3>4. zone_content(z) # "LOGS" => RowCount(zone_content(z)) \in Nat
      BY <3>3, RowsOf
    <3>5. Needed(z) \in Nat
      BY <3>2, <3>4 DEF Needed
    <3> QED BY <3>3, <3>5
  <2>9. PICK c : c = theme
    OBVIOUS
  <2>3. /\ \A y \in Zones \ {z} : screen'[y] = screen[y]
        /\ screen'[z].colours = screen[z].colours /\ screen'[z].bar = c /\ screen'[z].title = con
        /\ 1..(n - Left') \subseteq DOMAIN screen'[z].rows
        /\ Left' = 0 \/ Listing(z, con, c, n)'
    <3>1. Listing(z, con, c, n)
      BY <2>1, <2>2, <2>9
    <3> QED BY <3>1, RowDrawn
  <2>4. \A y \in Zones : Framed(y)'
    <3>1. Framed(z)'
      BY <1>1, <1>2, <2>1, <2>2, <2>9, <2>3 DEF Framed
    <3> QED BY <1>3, <2>1, <2>3, <3>1
  <2>5. \A y \in Zones \ (content_dirty \cup {z}) : Rowed(y)'
    BY <1>3, <2>1, <2>3
  <2>6. CASE Left' = 0
    <3>1. Rowed(z)'
      BY <1>2, <2>2, <2>3, <2>6 DEF Rowed
    <3> QED BY <1>1, <2>1, <2>4, <2>5, <2>6, <3>1 DEF AllDrawn
  <2>7. CASE Left' # 0
    <3>1. Listing(z, zone_content(z), theme, Needed(z))'
      BY <1>1, <1>2, <2>2, <2>9, <2>3, <2>7
    <3> QED BY <1>1, <2>1, <2>4, <2>5, <3>1 DEF RowsLeft
  <2> QED BY <2>6, <2>7
<1>7. CASE AllDrawn
  BY <1>1, <1>7 DEF AllDrawn
<1> QED BY <1>4, <1>5, <1>6, <1>7 DEF Planned

-----------------------------------------------------------------------------
(* What each action does to the drawing.                                   *)
LEMMA ScreenSame ==
  ASSUME ScreenTyped, NeverMixed, screen' = screen
  PROVE  ScreenTyped' /\ NeverMixed'
BY DEF ScreenTyped, NeverMixed

LEMMA Redraws ==
  ASSUME QueueFits, Drawing, redraw, UNCHANGED sourceVars
  PROVE  Drawing'
<1>1. /\ ex = NoJob /\ jq = <<>> /\ ex' = ex /\ screen' = screen
      /\ theme' = set.colours /\ set' = set
      /\ statics_dirty' = Zones /\ content_dirty' = Zones
  BY DEF redraw, drained, sourceVars
<1>2. PICK c : c = set.colours
  OBVIOUS
<1>3. PICK js : js = fill_screen(c)
  OBVIOUS
<1>4. js = [i \in 1..1 |-> js[i]] /\ js[1] = Job(0, "all", 0, "NONE", c, 0)
  BY <1>3 DEF fill_screen
<1>5. Brought(js) /\ QueueTyped' /\ Len(js) = 1
  <2>1. 1 <= JobQ
    BY DisplayAssumption DEF QueueFits
  <2>2. job_push(js)
    BY <1>2, <1>3 DEF redraw
  <2> QED BY <1>1, <1>4, <2>1, <2>2, Brings
<1>6. Filling(c)'
  <2>1. Left' = 1 /\ Item(1)' = js[1]
    BY <1>5 DEF Brought
  <2> HIDE DEF Item, Left
  <2> QED BY <1>4, <2>1 DEF Filling, Job
<1>7. OneBatch'
  BY <1>6 DEF OneBatch
<1>8. Planned'
  <2>1. Filling(theme)'
    BY <1>1, <1>2, <1>6
  <2> QED BY <1>1, <2>1 DEF Planned, Cleared
<1> QED BY <1>1, <1>5, <1>7, <1>8, ScreenSame DEF Drawing

LEMMA DrawsStatic ==
  ASSUME QueueFits, Drawing, DisplayTyped, draw_static, UNCHANGED sourceVars
  PROVE  Drawing'
<1>1. /\ ex = NoJob /\ jq = <<>> /\ ex' = ex /\ screen' = screen /\ seen_epoch = set_epoch
      /\ theme' = theme /\ content_dirty' = content_dirty /\ dlog' = dlog
      /\ set' = set /\ set_epoch' = set_epoch /\ seen_epoch' = seen_epoch
  BY DEF draw_static, settled, drained, sourceVars
<1>2. PICK z \in Zones : /\ z = Min(statics_dirty) /\ z \in statics_dirty
                         /\ statics_dirty' = statics_dirty \ {z}
  BY MinOf DEF draw_static, DisplayTyped
<1>3. PICK c, con : c = theme /\ con = zone_content(z) /\ con \in Contents
  BY ZoneContent
<1>4. PICK js : js = emit_static(z)
  OBVIOUS
<1>5. js = [i \in 1..3 |-> js[i]] /\ \A i \in 1..3 : js[i] = FrameJob(z, con, c, i, 0)
  BY <1>3, <1>4 DEF emit_static, FrameJob
<1>6. Brought(js) /\ QueueTyped' /\ Len(js) = 3
  <2>1. 3 <= JobQ
    BY DisplayAssumption DEF QueueFits
  <2>2. job_push(js)
    BY <1>2, <1>4 DEF draw_static
  <2> QED BY <1>1, <1>5, <2>1, <2>2, Brings
<1>7. Left = 0 /\ Left' = 3 /\ \A i \in 1..3 : Item(i)' = FrameJob(z, con, c, i, 0)
  BY <1>5, <1>6 DEF Brought
<1> HIDE DEF Left, Item
<1>8. Framing(z, con, c)'
  <2>1. \A i \in 1..Left' : Item(i)' = FrameJob(z, con, c, 3 - Left' + i, Item(i)'.value)
    <3>1. \A i \in 1..3 : 3 - 3 + i = i /\ FrameJob(z, con, c, i, 0).value = 0
      BY DEF FrameJob, Job
    <3> QED BY <1>7, <3>1
  <2> QED BY <1>7, <2>1 DEF Framing
<1>9. OneBatch'
  BY <1>3, <1>8 DEF OneBatch
<1>10. Planned'
  <2>1. theme = set.colours /\ AllDrawn
    BY <1>1, <1>7 DEF Drawing, Planned, Cleared, FramesLeft, RowsLeft, Filling, Framing, Listing
  <2>2. \A y \in Zones : zone_content(y)' = zone_content(y)
    BY <1>1, SameNeeds
  <2>3. \A y \in Zones \ (statics_dirty' \cup {z}) : Framed(y)'
    BY <1>1, <1>2, <2>1, <2>2 DEF AllDrawn, Framed
  <2>4. content_dirty' = Zones
    BY <1>1, <1>2, <2>1 DEF AllDrawn
  <2>5. Framing(z, zone_content(z), theme)'
    BY <1>1, <1>3, <1>8, <2>2
  <2> QED BY <1>1, <2>1, <2>3, <2>4, <2>5 DEF Planned, FramesLeft
<1> QED BY <1>1, <1>6, <1>9, <1>10, ScreenSame DEF Drawing

LEMMA DrawsContent ==
  ASSUME QueueFits, Drawing, SourcesTyped, DisplayTyped, draw_content, UNCHANGED sourceVars
  PROVE  Drawing'
<1>1. /\ ex = NoJob /\ jq = <<>> /\ ex' = ex /\ screen' = screen /\ seen_epoch = set_epoch
      /\ theme' = theme /\ statics_dirty' = statics_dirty /\ statics_dirty = {}
      /\ set' = set /\ set_epoch' = set_epoch /\ seen_epoch' = seen_epoch
  BY DEF draw_content, settled, drained, sourceVars
<1>2. PICK z \in Zones : /\ z = Min(content_dirty) /\ z \in content_dirty
                         /\ content_dirty' = content_dirty \ {z}
  BY MinOf DEF draw_content, DisplayTyped
<1>3. PICK c, con : c = theme /\ con = zone_content(z) /\ con \in Contents
  BY ZoneContent
<1>4. PICK js, n : /\ js = emit_content(z) /\ n \in Nat /\ n <= JobQ /\ js = [i \in 1..n |-> js[i]]
                   /\ n = (IF con # "LOGS" THEN RowCount(con)
                           ELSE IF log_shown = <<>> THEN 1 ELSE Len(log_shown))
                   /\ \A i \in 1..n : js[i] = Job(z, "row", i, con, c, js[i].value)
  BY <1>3, Emitted
<1>5. Brought(js) /\ QueueTyped' /\ Len(js) = n
  <2>1. job_push(js)
    BY <1>2, <1>4 DEF draw_content
  <2> QED BY <1>1, <1>4, <2>1, Brings
<1>6. Left = 0 /\ Left' = n /\ \A i \in 1..n : Item(i)' = js[i]
  BY <1>5 DEF Brought
<1>7. \A y \in Zones : zone_content(y)' = zone_content(y)
  BY <1>1 DEF zone_content, FirstOf
<1>8. Needed(z)' = n /\ \A y \in Zones \ {z} : Needed(y)' = Needed(y)
  <2>1. CASE con = "LOGS"
    <3>1. dlog' = log_shown
      BY <1>2, <1>3, <2>1 DEF draw_content
    <3>2. \A y \in Zones \ {z} : zone_content(y) # "LOGS"
      BY <1>3, <2>1, ZoneContent
    <3>3. Needed(z)' = n
      BY <1>3, <1>4, <1>7, <2>1, <3>1 DEF Needed
    <3> QED BY <1>7, <3>2, <3>3 DEF Needed
  <2>2. CASE con # "LOGS"
    <3>1. dlog' = dlog
      BY <1>2, <1>3, <2>2 DEF draw_content
    <3>2. Needed(z)' = n
      BY <1>3, <1>4, <1>7, <2>2 DEF Needed
    <3> QED BY <1>7, <3>1, <3>2 DEF Needed
  <2> QED BY <2>1, <2>2
<1> HIDE DEF Left, Item
<1>9. theme = set.colours /\ AllDrawn
  BY <1>1, <1>6 DEF Drawing, Planned, Cleared, FramesLeft, RowsLeft, Filling, Framing, Listing
<1>10. screen[z].title = con /\ screen[z].bar = c
  BY <1>1, <1>3, <1>9 DEF AllDrawn, Framed
<1>11. n # 0 => Listing(z, con, c, n)'
  <2>1. \A i \in 1..n : n - n + i = i
    BY <1>4
  <2>2. \A i \in 1..Left' : Item(i)' = Job(z, "row", n - Left' + i, con, c, Item(i)'.value)
    BY <1>4, <1>6, <2>1
  <2>3. n # 0 => Left' \in 1..n
    BY <1>4, <1>6
  <2>4. 1..(n - Left') = {}
    BY <1>4, <1>6
  <2>5. screen'[z].title = con /\ screen'[z].bar = c
    BY <1>1, <1>10
  <2> QED BY <2>2, <2>3, <2>4, <2>5 DEF Listing
<1>12. OneBatch'
  BY <1>4, <1>6, <1>11, <1>3 DEF OneBatch
<1>13. Planned'
  <2>1. \A y \in Zones : Framed(y)'
    BY <1>1, <1>7, <1>9 DEF AllDrawn, Framed
  <2>2. \A y \in Zones \ (content_dirty' \cup {z}) : Rowed(y)'
    BY <1>1, <1>2, <1>8, <1>9 DEF AllDrawn, Rowed
  <2>3. CASE n = 0
    <3>1. 1..n = {}
      BY <2>3
    <3>2. Rowed(z)'
      BY <1>8, <3>1 DEF Rowed
    <3>3. AllDrawn'
      BY <1>1, <1>6, <2>1, <2>2, <2>3, <3>2 DEF AllDrawn
    <3> QED BY <1>1, <1>9, <3>3 DEF Planned
  <2>4. CASE n # 0
    <3>1. Listing(z, zone_content(z), theme, Needed(z))'
      BY <1>1, <1>3, <1>7, <1>8, <1>11, <2>4
    <3>2. RowsLeft'
      BY <1>1, <2>1, <2>2, <3>1 DEF RowsLeft
    <3> QED BY <1>1, <1>9, <3>2 DEF Planned
  <2> QED BY <2>3, <2>4
<1> QED BY <1>1, <1>5, <1>12, <1>13, ScreenSame DEF Drawing

LEMMA Rotates ==
  ASSUME Drawing, rotate, UNCHANGED sourceVars
  PROVE  Drawing'
<1>1. /\ jq' = jq /\ ex' = ex /\ screen' = screen /\ ex = NoJob /\ jq = <<>>
      /\ theme' = theme /\ seen_epoch' = seen_epoch /\ seen_epoch = set_epoch
      /\ statics_dirty' = {} /\ statics_dirty = {} /\ content_dirty = {} /\ dlog' = dlog
      /\ set' = set /\ set_epoch' = set_epoch
  BY DEF rotate, settled, drained, queueVars, sourceVars
<1>2. Left = 0 /\ Left' = 0
  BY <1>1 DEF Left
<1> HIDE DEF Left
<1>3. theme = set.colours /\ AllDrawn
  BY <1>1, <1>2 DEF Drawing, Planned, Cleared, FramesLeft, RowsLeft, Filling, Framing, Listing
<1>4. \A z \in Zones : zone_content(z)' = zone_content(z) /\ Needed(z)' = Needed(z)
  BY <1>1, SameNeeds
<1>5. \A z \in Zones : Framed(z)' /\ Rowed(z)'
  BY <1>1, <1>3, <1>4 DEF AllDrawn, Framed, Rowed
<1>6. Planned'
  BY <1>1, <1>2, <1>3, <1>5 DEF Planned, AllDrawn
<1>7. QueueTyped' /\ OneBatch'
  BY <1>1, <1>2 DEF Drawing, QueueTyped, OneBatch
<1> QED BY <1>1, <1>6, <1>7, ScreenSame DEF Drawing

(* The chunks, and a panel that is not up yet.                             *)
LEMMA KeepsDrawing ==
  ASSUME Drawing, QueueTyped', Kept, PlanSame
  PROVE  Drawing'
BY KeptOneBatch, KeptPlanned DEF Drawing

LEMMA Executing ==
  ASSUME Drawing, DisplayTyped, ex_chunk, UNCHANGED sourceVars
  PROVE  Drawing'
<1>1. PlanSame
  BY DEF ex_chunk, plannedVars, sourceVars, PlanSame
<1>2. QueueTyped' /\ (Kept \/ Drew)
  BY Executes DEF Drawing
<1>3. Drew => ScreenTyped' /\ NeverMixed' /\ OneBatch' /\ Planned'
  BY <1>1, DrewOneBatch, DrewPlanned DEF Drawing
<1> QED BY <1>1, <1>2, <1>3, KeepsDrawing DEF Drawing

LEMMA Starting ==
  ASSUME Drawing, ex_start, UNCHANGED sourceVars
  PROVE  Drawing' /\ ex' # NoJob
<1>1. PlanSame
  BY DEF ex_start, plannedVars, sourceVars, PlanSame
<1>2. \A i \in 1..Left : Item(i).part # "none"
  <2> SUFFICES ASSUME NEW i \in 1..Left PROVE Item(i).part # "none"
    OBVIOUS
  <2> HIDE DEF Left, Item
  <2>1. ASSUME NEW c, Filling(c) PROVE Item(i).part # "none"
    BY <2>1 DEF Filling, Job
  <2>2. ASSUME NEW c, NEW z, NEW con, Framing(z, con, c) PROVE Item(i).part # "none"
    <3>1. Left \in 1..3 /\ Item(i) = FrameJob(z, con, c, 3 - Left + i, Item(i).value)
      BY <2>2 DEF Framing
    <3>2. 3 - Left + i \in 1..3 /\ Item(i).part = <<"zone", "bar", "title">>[3 - Left + i]
      BY <3>1 DEF FrameJob, Job
    <3> QED BY <3>2
  <2>3. ASSUME NEW c, NEW z, NEW con, NEW n, Listing(z, con, c, n) PROVE Item(i).part # "none"
    BY <2>3 DEF Listing, Job
  <2>4. Left # 0
    OBVIOUS
  <2> QED BY <2>1, <2>2, <2>3, <2>4 DEF Drawing, OneBatch
<1>3. Kept /\ QueueTyped' /\ ex' # NoJob
  BY <1>2, Starts DEF Drawing
<1> QED BY <1>1, <1>3, KeepsDrawing

LEMMA NotYetRunning ==
  ASSUME Drawing, UNCHANGED <<queueVars, plannedVars, set, set_epoch>>
  PROVE  Drawing'
<1>1. Kept /\ PlanSame /\ QueueTyped'
  BY DEF Kept, PlanSame, queueVars, plannedVars, Left, Item, Drawing, QueueTyped
<1> QED BY <1>1, KeepsDrawing

LEMMA NewSettings ==
  ASSUME Drawing, SourcesTyped, UNCHANGED <<queueVars, plannedVars>>, set_epoch' = set_epoch + 1
  PROVE  Drawing'
<1>1. Kept /\ QueueTyped'
  BY DEF Kept, queueVars, Left, Item, Drawing, QueueTyped
<1>2. ScreenTyped' /\ NeverMixed' /\ OneBatch'
  BY <1>1, KeptOneBatch DEF Drawing
<1>3. seen_epoch' # set_epoch'
  BY DEF plannedVars, SourcesTyped
<1> QED BY <1>1, <1>2, <1>3 DEF Drawing, Planned

(* The rest of the state keeps its types.                                  *)
LEMMA TickTyped ==
  ASSUME IInv, QueueFits, display_tick
  PROVE  SourcesTyped' /\ DisplayTyped'
<1> USE DEF IInv
<1>1. UNCHANGED sourceVars
  BY DEF display_tick
<1>2. SourcesTyped'
  <2>1. seen_epoch' \in {seen_epoch, set_epoch}
    BY DEF display_tick, draw, RST0, RST1, INIT, ex_chunk, ex_start, redraw, draw_static,
           draw_content, rotate, plannedVars
  <2> QED BY <1>1, <2>1 DEF SourcesTyped, sourceVars
<1>3. \E n \in 0..LogRows : dlog' = [i \in 1..n |-> dlog'[i]]
  <2>1. dlog' \in {dlog, log_shown}
    BY DEF display_tick, draw, RST0, RST1, INIT, ex_chunk, ex_start, redraw, draw_static,
           draw_content, rotate, plannedVars
  <2> QED BY <2>1, LogShown DEF DisplayTyped
<1>4. /\ phase' \in {"RST0", "RST1", "INIT", "RUN"} /\ init_ix' \in 0..InitSteps
      /\ ex_rem' \in 0..Chunks /\ (ex' # NoJob => ex_rem' # 0)
  <2>0. Chunks \in Nat \ {0} /\ InitSteps \in Nat \ {0}
    BY DisplayAssumption
  <2>1. CASE RST0 \/ RST1 \/ INIT
    BY <2>0, <2>1 DEF RST0, RST1, INIT, queueVars, DisplayTyped
  <2>2. CASE ex_chunk
    BY <2>0, <2>2, Executes DEF ex_chunk, panelVars, DisplayTyped, Drawing
  <2>3. CASE ex_start
    BY <2>0, <2>3 DEF ex_start, panelVars, DisplayTyped
  <2>4. CASE redraw \/ draw_static \/ draw_content \/ rotate
    BY <2>4 DEF redraw, draw_static, draw_content, rotate, panelVars, queueVars, DisplayTyped
  <2> QED BY <2>1, <2>2, <2>3, <2>4 DEF display_tick, draw
<1>5. statics_dirty' \subseteq Zones /\ content_dirty' \subseteq Zones /\ rot' \in Zones
  BY DEF display_tick, draw, RST0, RST1, INIT, ex_chunk, ex_start, redraw, draw_static,
         draw_content, rotate, plannedVars, DisplayTyped, next_zone, Zones
<1> QED BY <1>2, <1>3, <1>4, <1>5 DEF DisplayTyped

LEMMA TickKeeps ==
  ASSUME IInv, QueueFits, display_tick
  PROVE  IInv'
<1>1. UNCHANGED healthVars /\ UNCHANGED sourceVars
  BY DEF display_tick
<1>2. HealthInv'
  BY <1>1, HealthSame DEF IInv
<1>3. Drawing'
  <2> USE <1>1 DEF IInv
  <2>1. CASE RST0 \/ RST1 \/ INIT
    BY <2>1, NotYetRunning DEF RST0, RST1, INIT, sourceVars
  <2>2. CASE ex_chunk
    BY <2>2, Executing
  <2>3. CASE ex_start
    BY <2>3, Starting
  <2>4. CASE redraw
    BY <2>4, Redraws
  <2>5. CASE draw_static
    BY <2>5, DrawsStatic
  <2>6. CASE draw_content
    BY <2>6, DrawsContent
  <2>7. CASE rotate
    BY <2>7, Rotates
  <2> QED BY <2>1, <2>2, <2>3, <2>4, <2>5, <2>6, <2>7 DEF display_tick, draw
<1> QED BY <1>2, <1>3, TickTyped DEF IInv

-----------------------------------------------------------------------------
(* What the rest of the firmware does.                                     *)
LEMMA OthersKeepDrawing ==
  ASSUME Drawing, DisplayTyped, UNCHANGED <<displayVars, turned, set, set_epoch>>
  PROVE  Drawing' /\ DisplayTyped'
<1>1. Drawing'
  BY NotYetRunning DEF displayVars
<1> QED BY <1>1 DEF DisplayTyped, displayVars, queueVars, panelVars, plannedVars

LEMMA SettingsKeep ==
  ASSUME IInv, settings_apply
  PROVE  IInv'
<1>1. HealthInv'
  BY HealthSame DEF settings_apply, IInv
<1>2. SourcesTyped'
  BY DisplayAssumption
     DEF settings_apply, Happens, IInv, SourcesTyped, displayVars, plannedVars
<1>3. Drawing'
  BY NewSettings DEF settings_apply, displayVars, IInv
<1>4. DisplayTyped'
  BY DEF settings_apply, IInv, DisplayTyped, displayVars, queueVars, panelVars, plannedVars
<1> QED BY <1>1, <1>2, <1>3, <1>4 DEF IInv

LEMMA RecordsKeep ==
  ASSUME IInv, append_record \/ clear_log \/ Note
  PROVE  IInv'
<1>1. /\ UNCHANGED <<healthVars, displayVars, turned, set, set_epoch>>
      /\ events' = events + 1 /\ events < MaxEvents
      /\ log_epoch' \in {log_epoch, log_epoch + 1}
  BY DEF append_record, clear_log, Note, Happens, IInv, SourcesTyped
<1>2. HealthInv'
  BY <1>1, HealthSame DEF IInv
<1>3. log' \in Seq(Int) /\ Len(log') <= LogBack
  <2>1. log \in Seq(Int) /\ Len(log) <= LogBack /\ LogBack \in Nat
    BY DisplayAssumption DEF IInv, SourcesTyped
  <2>2. CASE append_record
    <3>1. PICK r \in Int : log' = UpTo(LogBack, <<r>> \o log)
      BY <2>2 DEF append_record, IInv, SourcesTyped
    <3>2. <<r>> \o log \in Seq(Int) /\ Len(<<r>> \o log) = Len(log) + 1
      BY <2>1
    <3>3. PICK k \in 1..Len(log) + 1 : log' = SubSeq(<<r>> \o log, 1, k) /\ k <= LogBack
      <4>1. LogBack >= 1 /\ Len(log) \in Nat
        BY <2>1, DisplayAssumption
      <4> QED BY <2>1, <3>1, <3>2, <4>1 DEF UpTo
    <3> QED BY <2>1, <3>3, CutPrefix
  <2>3. CASE clear_log
    BY <2>1, <2>3 DEF clear_log
  <2>4. CASE Note
    BY <2>1, <2>4 DEF Note
  <2> QED BY <2>2, <2>3, <2>4
<1>4. SourcesTyped'
  <2>1. seen_epoch' = seen_epoch /\ set' = set /\ set_epoch' = set_epoch /\ MaxEvents \in Nat
    BY <1>1, DisplayAssumption DEF displayVars, plannedVars
  <2>2. set_epoch + log_epoch' <= events' /\ log_epoch' \in Nat /\ events' <= MaxEvents /\ events' \in Nat
    <3>1. set_epoch \in Nat /\ log_epoch \in Nat /\ events \in Nat /\ set_epoch + log_epoch <= events
      BY DEF IInv, SourcesTyped
    <3>2. \A a, b, e, m \in Nat : a + b <= e /\ e < m => a + b <= e + 1 /\ a + (b + 1) <= e + 1 /\ e + 1 <= m
      OBVIOUS
    <3>3. events' \in Nat /\ events' <= MaxEvents
      BY <1>1, <2>1, <3>1, <3>2
    <3>4. CASE log_epoch' = log_epoch
      BY <1>1, <3>1, <3>2, <3>3, <3>4
    <3>5. CASE log_epoch' = log_epoch + 1
      BY <1>1, <3>1, <3>2, <3>3, <3>5
    <3> QED BY <1>1, <3>4, <3>5
  <2> QED BY <1>3, <2>1, <2>2 DEF IInv, SourcesTyped
<1> QED BY <1>1, <1>2, <1>4, OthersKeepDrawing DEF IInv

LEMMA RoundKeeps ==
  ASSUME IInv, Round
  PROVE  IInv'
<1>1. PICK w \in SUBSET Slaves :
        events + Cardinality(w) <= MaxEvents /\ events' = events + Cardinality(w) /\ health_tick(w)
  BY DEF Round
<1>2. HealthInv'
  BY <1>1, HealthTickKeeps DEF IInv
<1>3. Cardinality(w) \in Nat
  BY HealthAssumption, FS_Subset, FS_CardinalityType
<1>4. SourcesTyped'
  BY <1>1, <1>3 DEF Round, IInv, SourcesTyped, displayVars, plannedVars
<1>5. Drawing' /\ DisplayTyped'
  <2>1. UNCHANGED <<queueVars, plannedVars, set, set_epoch>>
    BY DEF Round, displayVars
  <2>2. Drawing'
    BY <2>1, NotYetRunning DEF IInv
  <2> QED BY <2>2 DEF Round, IInv, DisplayTyped, displayVars, queueVars, panelVars, plannedVars
<1> QED BY <1>2, <1>4, <1>5 DEF IInv

LEMMA BreakKeeps ==
  ASSUME IInv, Break
  PROVE  IInv'
<1>1. HealthInv'
  BY ConditionKeeps DEF Break, IInv
<1>2. SourcesTyped'
  BY DisplayAssumption DEF Break, Happens, IInv, SourcesTyped, displayVars, plannedVars
<1>3. Drawing' /\ DisplayTyped'
  BY OthersKeepDrawing DEF Break, IInv
<1> QED BY <1>1, <1>2, <1>3 DEF IInv

LEMMA Inductive ==
  ASSUME QueueFits
  PROVE  Spec => []IInv
<1>1. Init => IInv
  <2> SUFFICES ASSUME Init PROVE IInv
    OBVIOUS
  <2>1. HealthInv
    BY HealthStarts
  <2>2. SourcesTyped
    BY DisplayAssumption DEF Init, SourcesTyped, Unseen
  <2>3. DisplayTyped
    <3>1. 0 \in 0..LogRows /\ 0 \in 0..Chunks /\ 0 \in 0..InitSteps
      BY DisplayAssumption
    <3>2. dlog = [i \in 1..0 |-> dlog[i]]
      BY DEF Init
    <3> QED BY <3>1, <3>2 DEF Init, DisplayTyped, Zones
  <2>4. QueueTyped
    <3>1. 0 \in 0..JobQ
      BY DisplayAssumption
    <3>2. jq = [i \in 1..0 |-> jq[i]]
      BY DEF Init
    <3> QED BY <3>1, <3>2 DEF QueueTyped
  <2>5. ScreenTyped /\ NeverMixed
    BY DEF Init, ScreenTyped, NeverMixed, BlankZone
  <2>6. Left = 0
    BY DEF Init, Left
  <2>7. seen_epoch # set_epoch
    BY DEF Init, Unseen
  <2> QED BY <2>1, <2>2, <2>3, <2>4, <2>5, <2>6, <2>7 DEF IInv, Drawing, OneBatch, Planned
<1>2. IInv /\ [Next]_vars => IInv'
  <2> SUFFICES ASSUME IInv, [Next]_vars PROVE IInv'
    OBVIOUS
  <2>1. CASE display_tick
    BY <2>1, TickKeeps
  <2>2. CASE Round
    BY <2>2, RoundKeeps
  <2>3. CASE Break
    BY <2>3, BreakKeeps
  <2>4. CASE settings_apply
    BY <2>4, SettingsKeep
  <2>5. CASE append_record \/ clear_log \/ Note
    BY <2>5, RecordsKeep
  <2>6. CASE UNCHANGED vars
    <3>1. HealthInv'
      BY <2>6, HealthSame DEF vars, IInv
    <3>2. SourcesTyped'
      BY <2>6 DEF vars, sourceVars, displayVars, plannedVars, IInv, SourcesTyped
    <3>3. Drawing' /\ DisplayTyped'
      BY <2>6, OthersKeepDrawing DEF vars, sourceVars, IInv
    <3> QED BY <3>1, <3>2, <3>3 DEF IInv
  <2> QED BY <2>1, <2>2, <2>3, <2>4, <2>5, <2>6 DEF Next
<1> QED BY <1>1, <1>2, PTL DEF Spec

-----------------------------------------------------------------------------
(* The state is well typed: the queue, the log zone's copy and the chunk   *)
(* counter stay in their arrays and no event is counted twice              *)
(* (display_manager.c:147, :363).                                          *)
THEOREM TypeCorrect == ASSUME QueueFits PROVE Spec => []TypeOK
<1>1. IInv => TypeOK
  <2> SUFFICES ASSUME IInv PROVE TypeOK
    OBVIOUS
  <2>1. HealthTypeOK
    BY DEF IInv, HealthInv, HealthTyped
  <2>2. {set_epoch, log_epoch, events} \subseteq 0..MaxEvents
    BY DisplayAssumption DEF IInv, SourcesTyped
  <2>3. Len(dlog) <= LogRows
    <3>1. PICK n \in 0..LogRows : dlog = [i \in 1..n |-> dlog[i]]
      BY DEF IInv, DisplayTyped
    <3>2. n \in Nat /\ n <= LogRows
      BY <3>1, DisplayAssumption
    <3> QED BY <3>1, <3>2, AnySequence
  <2>4. Len(jq) <= JobQ
    BY QueueLength, DisplayAssumption DEF IInv, Drawing
  <2> QED BY <2>1, <2>2, <2>3, <2>4
          DEF TypeOK, IInv, SourcesTyped, DisplayTyped, Drawing, ScreenTyped
<1> QED BY <1>1, Inductive, PTL

(* What the dashboard is told of a slave is true, whatever the readings    *)
(* that came out wrong: a slave is reported as failed only if two rounds   *)
(* in a row met something wrong, and one broken for three rounds is        *)
(* reported (health.c:95).                                                 *)
THEOREM ReportsAreTrue == Spec => []ToldIsTrue
<1>1. HealthInv => ToldIsTrue
  BY DEF HealthInv
<1> QED BY <1>1, HealthInductive, PTL

(* No zone ever shows, under one title, rows of another content or of      *)
(* other colours, at whatever moment the settings change                   *)
(* (display_manager.c:500).                                                *)
THEOREM ZonesNeverMix == ASSUME QueueFits PROVE Spec => []NeverMixed
<1>1. IInv => NeverMixed
  BY DEF IInv, Drawing
<1> QED BY <1>1, Inductive, PTL

(* Whenever nothing is left to draw every zone is whole, in the settings   *)
(* in force: no job was lost and nothing was drawn over                    *)
(* (display_manager.c:147).                                                *)
THEOREM WholePanel == ASSUME QueueFits PROVE Spec => []WholeWhenQuiet
<1>1. IInv => WholeWhenQuiet
  <2> SUFFICES ASSUME IInv, Quiet, NEW z \in Zones
               PROVE  /\ screen[z].colours = set.colours /\ screen[z].bar = set.colours
                      /\ screen[z].title = zone_content(z)
                      /\ LET n == IF zone_content(z) = "LOGS" THEN Max({1, Len(dlog)})
                                                              ELSE Len(Rows(zone_content(z)))
                         IN  1..n \subseteq DOMAIN screen[z].rows
    BY DEF WholeWhenQuiet
  <2>1. seen_epoch = set_epoch /\ Left = 0 /\ statics_dirty = {} /\ content_dirty = {}
    BY DEF Quiet, settled, drained, Left
  <2>2. theme = set.colours /\ AllDrawn
    <3> HIDE DEF Left
    <3> QED BY <2>1 DEF IInv, Drawing, Planned, Cleared, FramesLeft, RowsLeft, Filling, Framing, Listing
  <2>3. Framed(z) /\ Rowed(z)
    BY <2>1, <2>2 DEF AllDrawn
  <2>4. zone_content(z) # "LOGS" => Len(Rows(zone_content(z))) = Needed(z)
    BY ZoneContent, RowsOf DEF Needed
  <2>5. zone_content(z) = "LOGS" => Max({1, Len(dlog)}) = Needed(z)
    <3>1. PICK n \in 0..LogRows : dlog = [i \in 1..n |-> dlog[i]]
      BY DEF IInv, DisplayTyped
    <3>2. n \in Nat
      BY <3>1, DisplayAssumption
    <3>3. Len(dlog) = n /\ (dlog = <<>> <=> n = 0)
      BY <3>1, <3>2, AnySequence
    <3>4. Max({1, n}) = IF n = 0 THEN 1 ELSE n
      BY <3>2, LargerOf
    <3> QED BY <3>3, <3>4 DEF Needed
  <2> QED BY <2>2, <2>3, <2>4, <2>5 DEF Framed, Rowed
<1> QED BY <1>1, Inductive, PTL
=============================================================================
