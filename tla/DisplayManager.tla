--------------------------- MODULE DisplayManager ---------------------------
(***************************************************************************)
(* The firmware's TFT dashboard (display_manager.c): four zones whose      *)
(* content the saved settings choose, drawn by a queue of jobs of which    *)
(* each pass of the main loop executes a small part, and refreshed in      *)
(* rotation without being cleared first.                                   *)
(*                                                                         *)
(* A zone is its background, its title bar, its title and its rows; a row  *)
(* (a line of text or a bar of the spectrum) shows one value.  A job       *)
(* carries the value and the colours of the moment it was emitted; its     *)
(* pixels go out in Chunks steps and count as drawn with the last.         *)
(***************************************************************************)
EXTENDS HealthReport, SequencesExt

CONSTANTS
  Settings,  (* settings that can be saved: [colours, views]               *)
  Default,   (* those of a blank memory                                    *)
  Stored,    (* records in the memory at boot, newest first                *)
  JobQ,      (* JOBQ_N, 48 in the code                                     *)
  Bars,      (* bars of the spectrum, 40                                   *)
  LogRows,   (* rows of the log zone, 6                                    *)
  LogBack,   (* records looked at behind head, 12                          *)
  Chunks,    (* steps a job takes                                          *)
  InitSteps, (* ISEQ_N, 7                                                  *)
  MaxEvents  (* bound: saves, records, clears, news, breakdowns, misreads  *)

ASSUME DisplayAssumption ==
  /\ {JobQ, Bars, LogRows, LogBack, Chunks, InitSteps} \subseteq Nat \ {0}
  /\ LogRows <= LogBack /\ MaxEvents \in Nat
  /\ Default \in Settings /\ Stored \in Seq(Int) /\ Len(Stored) <= LogBack

VARIABLES
  set,        \* the settings in force (g_settings)
  set_epoch,  \* g_set_epoch
  log,        \* the records behind head, newest first; 0 is an invalid one
  log_epoch,  \* g_log_epoch
  news,       \* rx_cnt, the snapshot, IRQs counted, symbols sent
  events      \* how many of all these there were

VARIABLES
  phase, init_ix,     \* reset and initialisation of the panel
  jq,                 \* the queue of jobs
  ex, ex_rem,         \* the job being executed and its steps left
  theme,              \* the colours in use (c_main, c_text, c_bg)
  seen_epoch,         \* the settings drawn
  statics_dirty, content_dirty, rot,
  dlog, dlog_epoch,   \* the log zone's copy of the records
  turned,             \* a zone has had its turn since the last health round
  screen              \* the panel

sourceVars  == <<set, set_epoch, log, log_epoch, news, events>>
panelVars   == <<phase, init_ix>>
queueVars   == <<jq, ex, ex_rem, screen>>
plannedVars == <<theme, seen_epoch, statics_dirty, content_dirty, rot, dlog, dlog_epoch>>
displayVars == <<panelVars, queueVars, plannedVars>>
vars == <<healthVars, sourceVars, displayVars, turned>>

Zones == 0..3
News == {"RX", "FFT", "IRQ", "TX"}
Contents == {"NONE", "SLAVES", "RX", "WAVE", "IRQ", "LOGS", "TX", "PEAKS"}
Unseen == -1
Nothing == "nothing"
VUOTA == 0  \* shown for an empty log: no record is numbered 0
NoJob == [part |-> "none"]

-----------------------------------------------------------------------------
(* What the zones show.                                                    *)

FirstOf(choices) ==
  LET on == {i \in DOMAIN choices : choices[i][1] \in set.views}
  IN  IF on = {} THEN "NONE" ELSE choices[Min(on)][2]

zone_content(z) ==
  CASE z = 0 -> FirstOf(<< <<"health", "SLAVES">>, <<"tx", "TX">> >>)
    [] z = 1 -> FirstOf(<< <<"wave", "WAVE">>, <<"peaks", "PEAKS">> >>)
    [] z = 2 -> FirstOf(<< <<"logs", "LOGS">> >>)
    [] z = 3 -> FirstOf(<< <<"rx", "RX">>, <<"irq", "IRQ">> >>)

UpTo(n, s) == SubSeq(s, 1, IF Len(s) < n THEN Len(s) ELSE n)

(* The records of the log zone: the first valid ones, read again if the    *)
(* log has changed since.                                                  *)
valid == {i \in 1..Len(log) : log[i] # 0}
valid_nth(k) == log[CHOOSE i \in valid : Cardinality({j \in valid : j <= i}) = k]
log_shown ==
  IF log_epoch = dlog_epoch THEN dlog
  ELSE [k \in 1..Min({LogRows, Cardinality(valid)}) |-> valid_nth(k)]

Texts(n, v) == [i \in 1..n |-> v]

(* The rows of a content, with the values of the moment.                   *)
Rows(con) ==
  CASE con = "SLAVES" -> Texts(Cardinality(Slaves) + 1, s_mask)
    [] con = "RX"     -> Texts(3, news["RX"])
    [] con = "WAVE"   -> Texts(Bars + 1, news["FFT"])
    [] con = "IRQ"    -> Texts(3, news["IRQ"])
    [] con = "TX"     -> Texts(3, news["TX"])
    [] con = "PEAKS"  -> Texts(4, news["FFT"])
    [] con = "LOGS"   -> IF log_shown = <<>> THEN <<VUOTA>> ELSE log_shown
    [] con = "NONE"   -> <<>>

-----------------------------------------------------------------------------
(* Jobs.                                                                   *)

Job(z, part, i, con, c, v) ==
  [zone |-> z, part |-> part, row |-> i, con |-> con, colours |-> c, value |-> v]

(* job_push: what does not fit is lost.                                    *)
job_push(js) == jq' = UpTo(JobQ, jq \o js)

fill_screen(c) == <<Job(0, "all", 0, "NONE", c, 0)>>

emit_static(z) ==
  LET job(part) == Job(z, part, 0, zone_content(z), theme, 0)
  IN  <<job("zone"), job("bar"), job("title")>>

emit_content(z) ==
  LET con == zone_content(z)
      rows == Rows(con)
  IN  [i \in 1..Len(rows) |-> Job(z, "row", i, con, theme, rows[i])]

BlankZone(c) == [colours |-> c, bar |-> Nothing, title |-> Nothing, rows |-> <<>>]

RowOf(j) == [con |-> j.con, colours |-> j.colours, value |-> j.value]

(* The pixels of a job overwrite what was there, and nothing else.         *)
drawn(j) ==
  CASE j.part = "all"   -> [z \in Zones |-> BlankZone(j.colours)]
    [] j.part = "zone"  -> [screen EXCEPT ![j.zone] = BlankZone(j.colours)]
    [] j.part = "bar"   -> [screen EXCEPT ![j.zone].bar = j.colours, ![j.zone].title = Nothing]
    [] j.part = "title" -> [screen EXCEPT ![j.zone].title = j.con]
    [] j.part = "row"   -> [screen EXCEPT ![j.zone].rows =
                              [i \in DOMAIN @ \cup {j.row} |-> IF i = j.row THEN RowOf(j) ELSE @[i]]]

-----------------------------------------------------------------------------
(* display_tick, in the order in which it looks at what there is to do.    *)

RST0 ==
  /\ phase = "RST0"
  /\ phase' = "RST1"
  /\ UNCHANGED <<init_ix, queueVars, plannedVars>>

RST1 ==
  /\ phase = "RST1"
  /\ phase' = "INIT" /\ init_ix' = 0
  /\ UNCHANGED <<queueVars, plannedVars>>

INIT ==
  /\ phase = "INIT"
  /\ IF init_ix >= InitSteps THEN phase' = "RUN" /\ UNCHANGED init_ix
                             ELSE init_ix' = init_ix + 1 /\ UNCHANGED phase
  /\ UNCHANGED <<queueVars, plannedVars>>

ex_chunk ==
  /\ phase = "RUN" /\ ex # NoJob
  /\ ex_rem' = ex_rem - 1
  /\ IF ex_rem = 1 THEN ex' = NoJob /\ screen' = drawn(ex)
                   ELSE UNCHANGED <<ex, screen>>
  /\ UNCHANGED <<panelVars, jq, plannedVars>>

ex_start ==
  /\ phase = "RUN" /\ ex = NoJob /\ jq # <<>>
  /\ ex' = Head(jq) /\ jq' = Tail(jq) /\ ex_rem' = Chunks
  /\ UNCHANGED <<panelVars, screen, plannedVars>>

(* Faulty variant: waiting jobs are not looked at.                         *)
drained_but_queued == phase = "RUN" /\ ex = NoJob
drained == phase = "RUN" /\ ex = NoJob /\ jq = <<>>

(* Faulty variant: new settings wait for the dirty zones.                  *)
settled_or_dirty == drained /\ (seen_epoch = set_epoch \/ content_dirty # {})
settled == drained /\ seen_epoch = set_epoch

redraw ==
  /\ drained /\ seen_epoch # set_epoch
  /\ seen_epoch' = set_epoch /\ theme' = set.colours
  /\ job_push(fill_screen(set.colours))
  /\ statics_dirty' = Zones /\ content_dirty' = Zones
  /\ UNCHANGED <<panelVars, ex, ex_rem, screen, rot, dlog, dlog_epoch>>

draw_static ==
  /\ settled /\ statics_dirty # {}
  /\ statics_dirty' = statics_dirty \ {Min(statics_dirty)}
  /\ job_push(emit_static(Min(statics_dirty)))
  /\ UNCHANGED <<panelVars, ex, ex_rem, screen, theme, seen_epoch, content_dirty, rot,
                 dlog, dlog_epoch>>

draw_content ==
  /\ settled /\ statics_dirty = {} /\ content_dirty # {}
  /\ LET z == Min(content_dirty)
     IN  /\ content_dirty' = content_dirty \ {z}
         /\ job_push(emit_content(z))
         /\ IF zone_content(z) = "LOGS" THEN dlog' = log_shown /\ dlog_epoch' = log_epoch
                                        ELSE UNCHANGED <<dlog, dlog_epoch>>
  /\ UNCHANGED <<panelVars, ex, ex_rem, screen, theme, seen_epoch, statics_dirty, rot>>

(* Faulty variants: the last zone has no turn; zones are not taken modulo. *)
next_zone_three(z) == (z + 1) % 3
next_zone_open(z) == z + 1
next_zone(z) == (z + 1) % 4

(* 150 ms after the last turn, the next zone's.                            *)
rotate ==
  /\ settled /\ statics_dirty = {} /\ content_dirty = {}
  /\ content_dirty' = {rot} /\ turned' = TRUE
  /\ rot' = next_zone(rot)
  /\ UNCHANGED <<panelVars, queueVars, theme, seen_epoch, statics_dirty, dlog, dlog_epoch>>

draw ==
  \/ RST0 \/ RST1 \/ INIT \/ ex_chunk \/ ex_start
  \/ redraw \/ draw_static \/ draw_content

display_tick ==
  /\ (draw /\ UNCHANGED turned) \/ rotate
  /\ UNCHANGED <<healthVars, sourceVars>>

-----------------------------------------------------------------------------
(* What the rest of the firmware changes meanwhile.                        *)

Happens == events < MaxEvents /\ events' = events + 1

settings_apply ==
  /\ Happens
  /\ set' \in Settings /\ set_epoch' = set_epoch + 1
  /\ UNCHANGED <<healthVars, displayVars, turned, log, log_epoch, news>>

(* The record as it can be read back: a valid one, or not.                 *)
append_record ==
  /\ Happens
  /\ \E r \in {0, events + 1} : log' = UpTo(LogBack, <<r>> \o log)
  /\ log_epoch' = log_epoch + 1
  /\ UNCHANGED <<healthVars, displayVars, turned, set, set_epoch, news>>

clear_log ==
  /\ Happens
  /\ log' = <<>> /\ log_epoch' = log_epoch + 1
  /\ UNCHANGED <<healthVars, displayVars, turned, set, set_epoch, news>>

(* dm_note_rx, a new snapshot, an interrupt, an emitted symbol.            *)
Note ==
  /\ Happens
  /\ \E n \in News : news' = [news EXCEPT ![n] = @ + 1]
  /\ UNCHANGED <<healthVars, displayVars, turned, set, set_epoch, log, log_epoch>>

-----------------------------------------------------------------------------

Init ==
  /\ HealthInit
  /\ set = Default /\ set_epoch = 0
  /\ log = Stored /\ log_epoch = 0 /\ news = [n \in News |-> 0] /\ events = 0
  /\ phase = "RST0" /\ init_ix = 0
  /\ jq = <<>> /\ ex = NoJob /\ ex_rem = 0
  /\ theme = Nothing /\ seen_epoch = Unseen
  /\ statics_dirty = {} /\ content_dirty = {} /\ rot = 0
  /\ dlog = <<>> /\ dlog_epoch = Unseen /\ turned = FALSE
  /\ screen = [z \in Zones |-> BlankZone(Nothing)]

(* Rounds are 15 s apart: a zone gets its turn between any two.            *)
Round ==
  /\ turned \/ ~primed
  /\ \E w \in SUBSET Slaves :
       /\ events + Cardinality(w) <= MaxEvents /\ events' = events + Cardinality(w)
       /\ health_tick(w)
  /\ turned' = FALSE
  /\ UNCHANGED <<displayVars, set, set_epoch, log, log_epoch, news>>

Break ==
  /\ Happens
  /\ ConditionChanges
  /\ UNCHANGED <<displayVars, turned, set, set_epoch, log, log_epoch, news>>

Next == display_tick \/ Round \/ Break \/ settings_apply \/ append_record \/ clear_log \/ Note

(* The main loop keeps running: every pass ticks the display, and a round  *)
(* of the health check is due every 15 s.                                  *)
Fairness ==
  /\ WF_vars(display_tick)
  /\ WF_vars(Round)

Spec == Init /\ [][Next]_vars /\ Fairness

-----------------------------------------------------------------------------
(* Properties.                                                             *)

TypeOK ==
  /\ HealthTypeOK
  /\ set \in Settings /\ {set_epoch, log_epoch, events} \subseteq 0..MaxEvents
  /\ Len(log) <= LogBack /\ Len(dlog) <= LogRows
  /\ phase \in {"RST0", "RST1", "INIT", "RUN"} /\ init_ix \in 0..InitSteps
  /\ Len(jq) <= JobQ /\ ex_rem \in 0..Chunks
  /\ statics_dirty \subseteq Zones /\ content_dirty \subseteq Zones /\ rot \in Zones
  /\ \A z \in Zones : screen[z].title \in Contents \cup {Nothing}

(* Under one title no zone ever shows a row of another content, or of      *)
(* other colours than the bar's: not while the settings change in the      *)
(* middle of a redraw, nor between the jobs of one (display_manager.c:500, *)
(* :284).                                                                  *)
NeverMixed ==
  \A z \in Zones : \A i \in DOMAIN screen[z].rows :
    screen[z].rows[i] =
      [con |-> screen[z].title, colours |-> screen[z].bar, value |-> screen[z].rows[i].value]

(* Nothing is waiting to be drawn or marked to be.                         *)
Quiet == settled /\ statics_dirty = {} /\ content_dirty = {}

(* Whenever the display has nothing left to draw, every zone is whole: its *)
(* title and its rows are those of the settings in force, in their         *)
(* colours, and none is missing: no job was lost to the full queue         *)
(* (display_manager.c:147) and nothing was drawn over.                     *)
WholeWhenQuiet ==
  Quiet =>
    \A z \in Zones :
      LET shown == screen[z]
      IN  /\ shown.colours = set.colours /\ shown.bar = set.colours
          /\ shown.title = zone_content(z)
          /\ LET n == IF zone_content(z) = "LOGS" THEN Max({1, Len(dlog)})
                                                  ELSE Len(Rows(zone_content(z)))
             IN  1..n \subseteq DOMAIN shown.rows

(* What a zone shows is what there is to show.  Rows below the last record *)
(* are not looked at: a log that gets shorter leaves them on the panel.    *)
UpToDate(z) ==
  /\ screen[z].title = zone_content(z)
  /\ \A i \in DOMAIN Rows(zone_content(z)) :
       /\ i \in DOMAIN screen[z].rows
       /\ screen[z].rows[i].value = Rows(zone_content(z))[i]

(* The news reach the panel: once nothing new happens every zone comes to  *)
(* show the present values, and the slaves' zone the present mask, however *)
(* the refreshes of the zones, the redraws and the health rounds           *)
(* interleave (display_manager.c:514).                                     *)
ScreenCatchesUp == <>[](\A z \in Zones : UpToDate(z))
=============================================================================
