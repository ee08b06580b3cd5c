------------------------------ MODULE SdramPort ------------------------------
(***************************************************************************)
(* The SDRAM controller (sdram_controller_fsm.vhd) and the two machines    *)
(* that share its one port: the accelerator's drain (dma.vhd), which       *)
(* writes a frame of FFT bins row by row, and the fetch (top.vhd), which   *)
(* reads it back into the CPU's snapshot.  One step of the model is one    *)
(* clock cycle: every variable is a register and its value is what the     *)
(* others see in that cycle.                                               *)
(*                                                                         *)
(* Handshake: a user that sees busy_n raises its strobe for the next cycle *)
(* and never looks whether it was taken: it counts cycles from there.      *)
(***************************************************************************)
EXTENDS Integers

CONSTANTS
  TRCD, CL, TRP, TRFC, TWR, TMRD, InitWait,  (* generics, in cycles       *)
  RefreshInterval,  (* 312                                                 *)
  WrAlign,          (* WR_ALIGN: stages of write delay added, 0 or 1       *)
  Skew,             (* the board delivers dq one cycle late: 0 or 1        *)
  Len,              (* words per burst that count, 26 (I_sdrc_data_len)    *)
  NBurst,           (* bursts per frame, 20                                *)
  Bins,             (* bins per frame, 512                                 *)
  DrainWait,        (* last value of sdr_timeout, 28                       *)
  Window,           (* last value of fetch_timeout, 200                    *)
  Serial            (* cycles of FS_SERIAL, 512 * 16                       *)

ASSUME SdramAssumption ==
  /\ {TRCD, CL, TRP, TRFC, TWR, TMRD, InitWait, RefreshInterval, Len, NBurst} \subseteq Nat \ {0}
  /\ WrAlign \in {0, 1} /\ Skew \in {0, 1}
  /\ Bins \in ((NBurst - 1) * Len + 1)..(NBurst * Len)
  /\ DrainWait \in Nat /\ Window \in Nat /\ Serial \in Nat \ {0}

(* No burst is longer than this.  One fits in a refresh interval and, with *)
(* a refresh, in the reader's window; the drain streams a burst to its     *)
(* end; the serial dump outlasts the last write and a fetch.               *)
BurstTime == TRCD + CL + 2 + Len + 1 + TWR + TRP
Slot == Window + TRFC + 4       (* cycles a burst of the fetch may take    *)
ASSUME TimingAssumption ==
  /\ RefreshInterval > BurstTime + TRFC + 2 /\ RefreshInterval >= TMRD
  /\ Window >= BurstTime + TRFC + 2
  /\ DrainWait + 1 >= Len
  /\ Serial >= (NBurst + 1) * Slot

(* WR_ALIGN trims the write delay to the board, so that word zero is on    *)
(* the pins with the write command.                                        *)
ASSUME AlignAssumption == TRCD + Skew = 3 + WrAlign

VARIABLES
  \* controller
  st, tmr, ref_cnt, ref_req, busy_n, init_done,
  cmd, row,                \* the command on the chip's pins, and its row
  wpipe, dq_out,           \* write delay line, data pins
  dq_in, data, rd_valid,
  \* the chip: what it is doing, since how many cycles, its active row
  mode, age, active, mem,
  unrefreshed,             \* history: cycles since its last refresh command
  \* drain
  fs, own, wr, waddr, wdata, burst, widx, timeout, warm, irq, ser,
  frame,                   \* which frame fft_result_buf holds, modulo 2
  \* fetch
  ft, rd, raddr, idx, fburst, ftimeout, decode, frame_ready, bsram,
  \* history: a strobe of this frame was not taken
  lost

ctlVars   == <<st, tmr, ref_cnt, ref_req, busy_n, init_done, cmd, row, wpipe, dq_out,
               dq_in, data, rd_valid>>
chipVars  == <<mode, age, active, mem, unrefreshed>>
drainVars == <<fs, own, wr, waddr, wdata, burst, widx, timeout, warm, irq, ser, frame>>
fetchVars == <<ft, rd, raddr, idx, fburst, ftimeout, decode, frame_ready, bsram>>
vars == <<ctlVars, chipVars, drainVars, fetchVars, lost>>

-----------------------------------------------------------------------------
Frames == {0, 1}
Rows == 1..(NBurst + 1)      (* row 1 takes the warm-up burst              *)
None == [frame |-> -1, bin |-> 0]

(* buf_idx: the tail of the last burst repeats the final bin.              *)
Bin(b, i) == IF b * Len + i > Bins - 1 THEN Bins - 1 ELSE b * Len + i
Word(b, i) == [frame |-> frame, bin |-> Bin(b, i)]

(* The port, owned by the drain or by the fetch.                           *)
sip_wr   == own /\ wr
sip_rd   == ~own /\ rd
sip_row  == IF own THEN waddr ELSE raddr
sip_data == IF own THEN wdata ELSE None

-----------------------------------------------------------------------------
(* The controller.                                                         *)

States == {"INIT_WAIT", "INIT_PRE", "INIT_REF1", "INIT_REF2", "INIT_LMR", "IDLE", "REF",
           "ACT_RD", "RD", "RD_DATA", "ACT_WR", "WR_DATA", "TWR", "PRE"}

(* Cycles a state lasts.                                                   *)
Duration ==
  [INIT_WAIT |-> InitWait, INIT_PRE |-> TRP, INIT_REF1 |-> TRFC, INIT_REF2 |-> TRFC,
   INIT_LMR |-> TMRD, REF |-> TRFC, ACT_RD |-> TRCD, RD |-> CL + 2, RD_DATA |-> Len + 1,
   ACT_WR |-> TRCD, WR_DATA |-> Len + 1, TWR |-> TWR, PRE |-> TRP]

(* Faulty variant: a write's activation is one cycle short.                *)
LastTickShort(s) == tmr = Duration[s] - (IF s = "ACT_WR" THEN 2 ELSE 1)
LastTick(s) == tmr = Duration[s] - 1

Successor ==
  [INIT_WAIT |-> "INIT_PRE", INIT_PRE |-> "INIT_REF1", INIT_REF1 |-> "INIT_REF2",
   INIT_REF2 |-> "INIT_LMR", INIT_LMR |-> "IDLE", REF |-> "IDLE",
   ACT_RD |-> "RD", RD |-> "RD_DATA", RD_DATA |-> "PRE",
   ACT_WR |-> "WR_DATA", WR_DATA |-> "TWR", TWR |-> "PRE", PRE |-> "IDLE"]

CommandOf(s) ==
  CASE s \in {"INIT_PRE", "PRE"}               -> "PRE"
    [] s \in {"INIT_REF1", "INIT_REF2", "REF"} -> "REF"
    [] s = "INIT_LMR"                          -> "LMR"
    [] s \in {"ACT_RD", "ACT_WR"}              -> "ACT"
    [] s = "RD"                                -> "READ"
    [] s = "WR_DATA"                           -> "WRITE"
    [] OTHER                                   -> "NOP"

(* p_comb.  In idle a strobe wins over a pending refresh.                  *)
next_state ==
  IF st # "IDLE" THEN (IF LastTick(st) THEN Successor[st] ELSE st)
  ELSE IF sip_wr THEN "ACT_WR"
  ELSE IF sip_rd THEN "ACT_RD"
  ELSE IF ref_req THEN "REF" ELSE "IDLE"

(* Ready: idle next, and no refresh known to be pending.                   *)
ready == next_state = "IDLE" /\ ~ref_req

(* Words of the row that a read sends, CL cycles after the command.        *)
dq == IF mode = "read" /\ age - CL \in 0..(Len - 1) THEN mem[active][age - CL] ELSE None

(* p_sync.  tmr is of no use in idle and kept at zero there.               *)
Controller ==
  /\ st' = next_state
  /\ tmr' = IF next_state # st THEN 0 ELSE IF st = "IDLE" THEN 0 ELSE tmr + 1
  /\ ref_cnt' = (ref_cnt + 1) % RefreshInterval
  /\ ref_req' = (st # "REF" /\ (ref_req \/ ref_cnt = RefreshInterval - 1))
  /\ init_done' = (init_done \/ (st = "INIT_LMR" /\ next_state = "IDLE"))
  /\ busy_n' = ready
  /\ cmd' = IF next_state = st THEN "NOP" ELSE CommandOf(next_state)
  /\ row' = IF next_state # st /\ CommandOf(next_state) = "ACT" THEN sip_row ELSE 0
  /\ wpipe' = <<sip_data, wpipe[1], wpipe[2]>>
  /\ dq_out' = IF next_state = "WR_DATA" THEN wpipe[2 + WrAlign] ELSE None
  /\ dq_in' = dq
  /\ data' = IF next_state = "RD_DATA" THEN dq_in ELSE data
  /\ rd_valid' = (next_state = "RD_DATA")

(* The chip (external).                                                    *)
AgeCap == BurstTime + TRFC + TMRD
MaxGap == RefreshInterval + BurstTime + TRFC + 2
Beat == (IF cmd = "WRITE" THEN 0 ELSE age) - Skew
Chip ==
  /\ mode' = CASE cmd = "ACT" -> "active" [] cmd = "READ" -> "read" [] cmd = "WRITE" -> "write"
               [] cmd = "PRE" -> "precharged" [] cmd = "REF" -> "refreshed"
               [] cmd = "LMR" -> "ready" [] OTHER -> mode
  /\ age' = IF cmd # "NOP" THEN 1 ELSE IF age < AgeCap THEN age + 1 ELSE age
  /\ active' = CASE cmd = "ACT" -> row [] cmd = "PRE" -> 0 [] OTHER -> active
  /\ mem' = IF st = "WR_DATA" /\ (cmd = "WRITE" \/ mode = "write") /\ Beat \in 0..(Len - 1)
            THEN [mem EXCEPT ![active][Beat] = dq_out] ELSE mem
  /\ unrefreshed' = IF cmd = "REF" THEN 1 ELSE IF unrefreshed <= MaxGap THEN unrefreshed + 1 ELSE unrefreshed

-----------------------------------------------------------------------------
(* The drain: the part of dma.vhd's FFT machine that uses the port.  The   *)
(* states before FS_SDR_SETTLE are one, of any duration, that ends with a  *)
(* new frame in the result buffer.                                         *)

drainRest == UNCHANGED <<irq, ser, frame>>

Compute ==
  /\ fs = "COMPUTE"
  /\ wr' = FALSE /\ irq' = FALSE
  /\ \/ /\ fs' = "SETTLE" /\ own' = TRUE /\ frame' = 1 - frame
        /\ warm' = TRUE /\ burst' = 0 /\ widx' = 0
     \/ /\ own' = FALSE
        /\ UNCHANGED <<fs, frame, warm, burst, widx>>
  /\ UNCHANGED <<waddr, wdata, timeout, ser>>

(* 200000 cycles in the code: any number.                                  *)
Settle ==
  /\ fs = "SETTLE"
  /\ own' = TRUE /\ wr' = FALSE
  /\ \/ init_done /\ fs' = "WW" /\ timeout' = 0
     \/ UNCHANGED <<fs, timeout>>
  /\ UNCHANGED <<waddr, wdata, burst, widx, warm>> /\ drainRest

WaitReady ==
  /\ fs = "WW"
  /\ own' = TRUE /\ widx' = 0
  /\ wdata' = Word(burst, 0)
  /\ wr' = busy_n
  /\ IF busy_n THEN /\ fs' = "W" /\ timeout' = 0
                    /\ waddr' = IF warm THEN 1 ELSE 2 + burst
               ELSE UNCHANGED <<fs, timeout, waddr>>
  /\ UNCHANGED <<burst, warm>> /\ drainRest

Stream ==
  /\ fs = "W"
  /\ own' = TRUE /\ wr' = FALSE
  /\ widx' = widx + 1
  /\ wdata' = Word(burst, widx)
  /\ IF timeout # DrainWait
     THEN timeout' = timeout + 1 /\ UNCHANGED <<fs, warm, burst>>
     ELSE /\ timeout' = 0
          /\ warm' = FALSE
          /\ fs' = IF ~warm /\ burst = NBurst - 1 THEN "IRQ" ELSE "WW"
          /\ burst' = IF warm THEN 0 ELSE IF burst # NBurst - 1 THEN burst + 1 ELSE burst
  /\ UNCHANGED waddr /\ drainRest

Irq ==
  /\ fs = "IRQ"
  /\ fs' = "SERIAL" /\ own' = FALSE /\ wr' = FALSE /\ irq' = TRUE /\ ser' = 0
  /\ UNCHANGED <<waddr, wdata, burst, widx, timeout, warm, frame>>

SerialOut ==
  /\ fs = "SERIAL"
  /\ irq' = FALSE /\ wr' = FALSE
  /\ IF ser = Serial - 1 THEN fs' = "COMPUTE" /\ ser' = 0
                         ELSE ser' = ser + 1 /\ UNCHANGED fs
  /\ UNCHANGED <<own, waddr, wdata, burst, widx, timeout, warm, frame>>

Drain == Compute \/ Settle \/ WaitReady \/ Stream \/ Irq \/ SerialOut

-----------------------------------------------------------------------------
(* The fetch.                                                              *)

(* A valid word goes to bin fburst * Len + idx of the snapshot.            *)
takes == rd_valid /\ idx < Len
Snapshot ==
  bsram' = IF takes /\ fburst * Len + idx < Bins
           THEN [bsram EXCEPT ![fburst * Len + idx] = data] ELSE bsram

(* Faulty variant: the index runs on.                                      *)
nextIdxUncapped == IF rd_valid THEN idx + 1 ELSE idx
nextIdx == IF takes THEN idx + 1 ELSE idx

FetchIdle ==
  /\ ft = "IDLE"
  /\ rd' = FALSE /\ frame_ready' = FALSE
  /\ IF decode THEN ft' = "REQ" /\ idx' = 0 /\ ftimeout' = 0 /\ fburst' = 0
               ELSE idx' = nextIdx /\ UNCHANGED <<ft, ftimeout, fburst>>
  /\ UNCHANGED raddr

FetchReq ==
  /\ ft = "REQ"
  /\ rd' = busy_n /\ frame_ready' = FALSE
  /\ IF busy_n THEN ft' = "READ" /\ raddr' = 2 + fburst /\ idx' = 0 /\ ftimeout' = 0
               ELSE idx' = nextIdx /\ UNCHANGED <<ft, raddr, ftimeout>>
  /\ UNCHANGED fburst

ReadUntil(over) ==
  /\ ft = "READ"
  /\ rd' = FALSE /\ idx' = nextIdx
  /\ IF ~over
     THEN /\ ftimeout' = IF ftimeout < Window THEN ftimeout + 1 ELSE ftimeout
          /\ frame_ready' = FALSE /\ UNCHANGED <<ft, fburst>>
     ELSE /\ ftimeout' = 0
          /\ IF fburst = NBurst - 1
             THEN ft' = "DONE" /\ frame_ready' = TRUE /\ UNCHANGED fburst
             ELSE ft' = "REQ" /\ fburst' = fburst + 1 /\ frame_ready' = FALSE
  /\ UNCHANGED raddr

(* Faulty variants: the window ends before the burst has been read; it     *)
(* ends when the burst has been read.                                      *)
FetchReadShort == ReadUntil(ftimeout = TRCD + CL + 2)
FetchReadAll   == ReadUntil(idx = Len)
FetchRead == ReadUntil(ftimeout = Window)

FetchDone ==
  /\ ft = "DONE"
  /\ ft' = "IDLE" /\ rd' = FALSE /\ frame_ready' = FALSE /\ idx' = nextIdx
  /\ UNCHANGED <<raddr, ftimeout, fburst>>

Fetch == /\ FetchIdle \/ FetchReq \/ FetchRead \/ FetchDone
         /\ Snapshot
         /\ decode' = irq

-----------------------------------------------------------------------------
(* Strobes are taken in idle only.                                         *)
missed == (sip_wr \/ sip_rd) /\ st # "IDLE"

Past == lost' = IF fs = "COMPUTE" THEN FALSE ELSE lost \/ missed

Init ==
  /\ st = "INIT_WAIT" /\ tmr = 0 /\ ref_cnt = 0 /\ ref_req = FALSE /\ busy_n = FALSE
  /\ init_done = FALSE /\ cmd = "NOP" /\ row = 0
  /\ wpipe = <<None, None, None>> /\ dq_out = None /\ dq_in = None /\ data = None
  /\ rd_valid = FALSE
  /\ mode = "off" /\ age = 0 /\ active = 0 /\ mem = [r \in Rows |-> [i \in 0..(Len - 1) |-> None]]
  /\ unrefreshed = 0
  /\ fs = "COMPUTE" /\ own = FALSE /\ wr = FALSE /\ waddr = 0 /\ wdata = None /\ burst = 0
  /\ widx = 0 /\ timeout = 0 /\ warm = TRUE /\ irq = FALSE /\ ser = 0 /\ frame = 0
  /\ ft = "IDLE" /\ rd = FALSE /\ raddr = 0 /\ idx = 0 /\ fburst = 0 /\ ftimeout = 0
  /\ decode = FALSE /\ frame_ready = FALSE /\ bsram = [b \in 0..(Bins - 1) |-> None]
  /\ lost = FALSE

Next == Controller /\ Chip /\ Drain /\ Fetch /\ Past

(* The clock runs.                                                         *)
Spec == Init /\ [][Next]_vars /\ WF_vars(Next)

-----------------------------------------------------------------------------
(* Properties.                                                             *)

Words == [frame : Frames \cup {-1}, bin : 0..(Bins - 1)]

(* Every register keeps its width.                                         *)
TypeOK ==
  /\ st \in States /\ tmr \in 0..(InitWait + Len + CL + TRCD + TRP + TRFC + TMRD + TWR)
  /\ ref_cnt \in 0..(RefreshInterval - 1)
  /\ {ref_req, busy_n, init_done, rd_valid, own, wr, warm, irq, rd, decode, frame_ready, lost}
       \subseteq BOOLEAN
  /\ row \in Rows \cup {0} /\ active \in Rows \cup {0} /\ waddr \in Rows \cup {0}
  /\ raddr \in Rows \cup {0} /\ age \in 0..AgeCap /\ unrefreshed \in 0..(MaxGap + 1)
  /\ wpipe \in [1..3 -> Words] /\ {dq_out, dq_in, data, wdata} \subseteq Words
  /\ mem \in [Rows -> [0..(Len - 1) -> Words]] /\ bsram \in [0..(Bins - 1) -> Words]
  /\ burst \in 0..(NBurst - 1) /\ fburst \in 0..(NBurst - 1) /\ frame \in Frames
  /\ widx \in 0..(DrainWait + 1) /\ timeout \in 0..DrainWait /\ idx \in 0..Len
  /\ ftimeout \in 0..Window /\ ser \in 0..(Serial - 1)

(* dma.vhd:392-429, top.vhd:762-775.  When the fetch signals a frame, the  *)
(* snapshot holds it bin by bin, through both delay lines, the bursts'     *)
(* clamped tail and refreshes at any moment, unless a strobe was missed.   *)
SnapshotIsFrame ==
  frame_ready /\ ~lost => \A b \in 0..(Bins - 1) : bsram[b] = [frame |-> frame, bin |-> b]

(* sdram_controller_fsm.vhd:138-184.  What the chip is told is legal: rows *)
(* are opened only when closed long enough, accessed only when open long   *)
(* enough, closed only when written, refreshed only when closed.           *)
CommandsLegal ==
  LET recovered == \/ mode = "precharged" /\ age >= TRP
                   \/ mode = "refreshed" /\ age >= TRFC
  IN  /\ cmd = "ACT" => recovered \/ (mode = "ready" /\ age >= TMRD)
      /\ cmd = "REF" => recovered \/ (mode = "ready" /\ age >= TMRD)
      /\ cmd \in {"READ", "WRITE"} => mode = "active" /\ age >= TRCD
      /\ cmd = "PRE" /\ mode = "write" => age >= Len + TWR

(* sdram_controller_fsm.vhd:216-225.  The chip, once initialised, is       *)
(* refreshed every interval, late by a burst at most, however the bursts   *)
(* fall and whatever the timer counted during the initialisation.          *)
RefreshServed == init_done => unrefreshed <= MaxGap

(* sdram_controller_fsm.vhd:155-161, 230-234.  The only thing a strobe can *)
(* run into is a refresh that begins in its cycle.                         *)
MissedOnlyAtRefresh == missed => st = "REF" /\ tmr = 0

(* A frame arrives as it was written, or one of its strobes met a refresh. *)
FrameKept == SnapshotIsFrame /\ MissedOnlyAtRefresh

(* The chip gets its commands and its refreshes in time.                   *)
ChipServed == CommandsLegal /\ RefreshServed

(* top.vhd:739-760.  Every frame interrupt is followed by a frame for the  *)
(* CPU, missed strobes or not.                                             *)
FrameIsSignalled == irq ~> frame_ready

(* sdram_controller_fsm.vhd:230-231: "ready only in idle with no refresh   *)
(* pending, so a user strobe can never land on the cycle the refresh       *)
(* starts".                                                                *)
StrobeNeverOnRefresh == ~(missed /\ st = "REF" /\ tmr = 0)
=============================================================================
