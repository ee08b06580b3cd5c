------------------------------ MODULE HalfDuplex ------------------------------
(***************************************************************************)
(* The soft core's use of the acoustic channel (emit_tone.c, decode_step   *)
(* in main.c): characters from the ESP32 are queued and played as tones,   *)
(* one at a time, unless the slave's carrier was heard lately.  Around it, *)
(* the ESP32's pacing (fpga_uart_link.cpp), the slave, which speaks when   *)
(* it wants, and the pipeline that turns the microphone into frames.       *)
(*                                                                         *)
(* One step is a turn of the main loop, or a turn's length of time in      *)
(* which the loop is held up by a long NOR operation (nor_poll).  Times    *)
(* are in turns; the cycle counter is read modulo Wrap.                    *)
(***************************************************************************)
EXTENDS Integers, Sequences, FiniteSets

CONSTANTS
  Wrap,                   (* the 32 bit cycle counter, 106 s               *)
  HoldTime,               (* CHANNEL_HOLD_CYCLES, 3 s                      *)
  Tone, Sil, Warmup,      (* TONE_MS 144, SIL_MS 400, WARMUP_MS 300        *)
  QueueLen,               (* TXQ_LEN, 16                                   *)
  FifoLen,                (* the UART's receive FIFO, 16                   *)
  Latency,                (* age of the frame the loop reads               *)
  Guard, MaxWait,         (* CHANNEL_GUARD_MS 1000, CSMA_MAX_WAIT_MS 15000 *)
  Pace, WarmupPace,       (* EMIT_PACE_MS 550, WARMUP_PACE_MS 700          *)
  FrameChars,             (* characters per ESP32 frame, the first is 'd'  *)
  MaxChars, MaxStalls     (* bounds: characters sent, turns held up        *)

ASSUME ChannelAssumption ==
  /\ {Wrap, HoldTime, Tone, Sil, Warmup, QueueLen, FifoLen, Latency, Guard, MaxWait, Pace,
      WarmupPace, FrameChars, MaxChars} \subseteq Nat \ {0}
  /\ MaxStalls \in Nat
  /\ Wrap > HoldTime + 1 /\ \A t \in {Tone, Warmup, Sil} : Wrap > t + MaxStalls + 1
  /\ Latency <= Sil

(* EMIT_PACE_MS and WARMUP_PACE_MS follow the player's own times.          *)
ASSUME PaceAssumption == Pace >= Tone + Sil + 1 /\ WarmupPace >= Warmup + Sil + 1

VARIABLES
  now,                                  \* rdcycle32()
  queue, pstate, p_t0, p_warm,          \* tone_q, the player
  g_channel_busy, g_slave_seen, g_slave_last,
  air,                                  \* the pipeline: what was on the air, oldest first
  fifo,                                 \* characters in the UART
  sent, pace, quiet, waited,            \* the ESP32: characters sent, cs_pace, cs_wait_quiet
  \* history: characters played and lost, time since the slave was heard
  \* (up to HoldTime), turns held up
  played, lost, silence, stalls

fpgaVars == <<queue, pstate, p_t0, p_warm, g_channel_busy, g_slave_seen, g_slave_last>>
espVars  == <<fifo, sent, pace, quiet, waited>>
vars == <<now, fpgaVars, air, espVars, played, lost, silence, stalls>>

-----------------------------------------------------------------------------
Chars == 1..MaxChars                    (* characters are numbered         *)
is_warmup(c) == (c - 1) % FrameChars = 0
Less(a, b) == IF a > b THEN a - b ELSE 0

(* now - t on 32 bits.                                                     *)
Since(t) == (now - t) % Wrap

(* enqueue: a full queue drops its oldest.                                 *)
(* Faulty variant: the limit is not looked at.                             *)
enqueue_all(q, c) == Append(q, c)
enqueue(q, c) == Append(IF Len(q) >= QueueLen THEN Tail(q) ELSE q, c)

(* emit_capture: the queue after one character is taken from the UART.     *)
Captured == IF fifo = <<>> THEN queue ELSE enqueue(queue, Head(fifo))
DroppedOld == IF fifo # <<>> /\ Len(queue) >= QueueLen THEN {Head(queue)} ELSE {}

(* dequeue.  Faulty variant: the newest is taken.                          *)
next_char_newest(q) == q[Len(q)]
next_char(q) == Head(q)

(* emit_player_tick.  A tone, once begun, is played to its end; nothing    *)
(* else is looked at before the silence after it is over.  p_t0 and p_warm *)
(* are of no use outside a tone or its silence and are reset there.        *)
tone_over == Since(p_t0) >= IF p_warm THEN Warmup ELSE Tone
sil_over == Since(p_t0) >= Sil
Starts == pstate = "IDLE" /\ ~g_channel_busy /\ Captured # <<>>

player ==
  CASE pstate = "IDLE" -> IF Starts THEN "TONE" ELSE "IDLE"
    [] pstate = "TONE" -> IF tone_over THEN "SIL" ELSE "TONE"
    [] pstate = "SIL"  -> IF sil_over THEN "IDLE" ELSE "SIL"

Play ==
  /\ pstate' = player
  /\ p_t0' = CASE player = "IDLE" -> 0 [] player = pstate /\ player # "IDLE" -> p_t0 [] OTHER -> now
  /\ queue' = IF Starts THEN Tail(Captured) ELSE Captured
  /\ p_warm' = IF Starts THEN is_warmup(next_char(Captured)) ELSE player = "TONE" /\ p_warm
  /\ played' = IF Starts THEN Append(played, next_char(Captured)) ELSE played

(* The frame read now.  While the master's own tone is in it, its carrier  *)
(* may be taken for the slave's (main.c:189-191).                          *)
frame == air[1]
Carrier == {frame.slave} \cup {frame.own}

(* emit_busy, after the player's tick: the loop is deaf during the tone    *)
(* and its tail.  Faulty variant: during the tone only.                    *)
emit_busy_tone == player = "TONE"
emit_busy == player # "IDLE"

(* Faulty variant: the end of the hold is computed instead of the time     *)
(* that has passed.                                                        *)
held_until(seen, last) == seen /\ now < last + HoldTime
held(seen, last) == seen /\ Since(last) < HoldTime

(* decode_step: the carrier, the gate, and whether a symbol of the slave   *)
(* goes to the ESP32 (the louder carrier wins, and the tone may be missed).*)
Decode ==
  \E carrier \in Carrier :
    LET hears == ~emit_busy /\ carrier
        last  == IF hears THEN now ELSE g_slave_last
    IN  /\ g_slave_last' = last
        /\ g_slave_seen' = (g_slave_seen \/ hears)
        /\ g_channel_busy' = held(g_slave_seen \/ hears, last)
        /\ silence' = IF hears THEN 0 ELSE IF silence < HoldTime THEN silence + 1 ELSE silence
Symbol == {FALSE} \cup {frame.slave}

-----------------------------------------------------------------------------
(* The ESP32 sends the next character when its pause is over and it has    *)
(* heard no symbol for Guard, or has waited for MaxWait; it may be late.   *)
PauseAfter(c) == IF is_warmup(c) THEN WarmupPace ELSE Pace

MaySend == sent < MaxChars /\ pace = 0 /\ (quiet >= Guard \/ waited > MaxWait)
Esp(symbol, takes) ==
  \E sends \in {FALSE} \cup {MaySend} :
    LET c == sent + 1
        q == IF takes THEN Tail(fifo) ELSE fifo
    IN  /\ fifo' = IF sends /\ Len(q) < FifoLen THEN Append(q, c) ELSE q
        /\ sent' = IF sends THEN c ELSE sent
        /\ pace' = IF sends THEN PauseAfter(c) - 1 ELSE Less(pace, 1)
        /\ waited' = IF sends \/ pace > 0 \/ quiet >= Guard THEN 0
                     ELSE IF waited <= MaxWait THEN waited + 1 ELSE waited
        /\ quiet' = IF symbol THEN 0 ELSE IF quiet < Guard THEN quiet + 1 ELSE quiet
        /\ lost' = lost \cup (IF takes THEN DroppedOld ELSE {})
                        \cup (IF sends /\ Len(q) >= FifoLen THEN {c} ELSE {})

(* Time passes; the slave begins or ends when it wants.                    *)
Pass ==
  /\ now' = (now + 1) % Wrap
  /\ \E slave \in BOOLEAN : air' = Append(Tail(air), [own |-> pstate' = "TONE", slave |-> slave])

Loop ==
  /\ Play
  /\ Decode
  /\ \E symbol \in Symbol : Esp(symbol, fifo # <<>>)
  /\ Pass
  /\ UNCHANGED stalls

Stall ==
  /\ stalls < MaxStalls
  /\ stalls' = stalls + 1
  /\ Esp(FALSE, FALSE)
  /\ silence' = IF silence < HoldTime THEN silence + 1 ELSE silence
  /\ UNCHANGED <<fpgaVars, played>>
  /\ Pass

Init ==
  /\ now = 0 /\ queue = <<>> /\ pstate = "IDLE" /\ p_t0 = 0 /\ p_warm = FALSE
  /\ g_channel_busy = FALSE /\ g_slave_seen = FALSE /\ g_slave_last = 0
  /\ air = [i \in 1..Latency |-> [own |-> FALSE, slave |-> FALSE]]
  /\ fifo = <<>> /\ sent = 0 /\ pace = 0 /\ quiet = 0 /\ waited = 0
  /\ played = <<>> /\ lost = {} /\ silence = HoldTime /\ stalls = 0

Next == Loop \/ Stall
Spec == Init /\ [][Next]_vars /\ WF_vars(Loop)

-----------------------------------------------------------------------------
(* Every variable has its type; the queue never outgrows its array         *)
(* (emit_tone.c:51-59).                                                    *)
TypeOK ==
  /\ now \in 0..(Wrap - 1) /\ {p_t0, g_slave_last} \subseteq 0..(Wrap - 1)
  /\ queue \in Seq(Chars) /\ Len(queue) <= QueueLen /\ fifo \in Seq(Chars) /\ Len(fifo) <= FifoLen
  /\ pstate \in {"IDLE", "TONE", "SIL"}
  /\ {p_warm, g_channel_busy, g_slave_seen} \subseteq BOOLEAN
  /\ air \in Seq([own : BOOLEAN, slave : BOOLEAN]) /\ Len(air) = Latency
  /\ sent \in 0..MaxChars /\ pace \in 0..(Pace + WarmupPace) /\ quiet \in 0..Guard
  /\ waited \in 0..(MaxWait + 1) /\ played \in Seq(Chars) /\ lost \subseteq Chars
  /\ silence \in 0..HoldTime /\ stalls \in 0..MaxStalls

(* Characters are played in the order they were sent, each once, and every *)
(* one sent is played, waiting or was dropped (emit_tone.c:56-63, 71-90).  *)
PlayedInOrder ==
  LET all == played \o queue \o fifo
  IN  /\ \A i, j \in DOMAIN all : i < j => all[i] < all[j]
      /\ {all[i] : i \in DOMAIN all} \cup lost = 1..sent

(* The master never takes its own tone for the slave: every carrier it     *)
(* holds for was the slave's, although frames arrive late (main.c:189-194, *)
(* emit_tone.c:98-104).                                                    *)
SelfNotHeard == [][Loop /\ silence' = 0 => frame.slave]_vars

(* The ESP32's pace keeps the queue from dropping characters as long as no *)
(* slave is heard, even if the loop is held up for a while                 *)
(* (fpga_uart_link.cpp:24-31).                                             *)
LostOnlyIfHeard == lost # {} => g_slave_seen

(* What is sent is played, in order, unless the slave is heard.            *)
PlayedFaithfully == PlayedInOrder /\ LostOnlyIfHeard

(* Once the slave is silent for good the queue is emptied: the hold ends,  *)
(* wherever in the counter's range it began (main.c:205-207).              *)
QueueDrains == <>[](~air[Latency].slave) => <>[](queue = <<>>)
=============================================================================
