------------------------------- MODULE BusUart -------------------------------
(***************************************************************************)
(* The peripheral bus (wb_interconnect.vhd), its two masters and three of  *)
(* its slaves, one step per clock cycle:                                   *)
(*   m0  the CPU, external: it holds a request until it is acknowledged    *)
(*       and leaves the bus for at least one cycle;                        *)
(*   m1  the capture machine of the accelerator (dma.vhd), which reads     *)
(*       every sample of the ADC and clears its flag;                      *)
(*   s6  a character UART (uart_generic.vhd; s7 is another of the same),   *)
(*   s1  the ADC (spi_master.vhd), s0 the snapshot reads (top.vhd).        *)
(* The outputs of masters and slaves are registers, so an acknowledge      *)
(* comes at least a cycle after its strobe: the bus may have changed hands *)
(* by then.                                                                *)
(***************************************************************************)
EXTENDS Integers, Sequences

CONSTANTS
  Timeout,     (* TIMEOUT_MAX, 200000                                      *)
  Period,      (* cycles per sample, 16 bits of PRESCALER = 54             *)
  Latch,       (* cycle of the period in which the sample is latched       *)
  Depth,       (* RXF_DEPTH, 16                                            *)
  SendTime,    (* cycles to send a character, 10 bits of baud_div = 351    *)
  Gap,         (* least number of cycles between two received characters   *)
  K, S         (* characters are numbered modulo K, samples modulo S       *)

ASSUME BusAssumption ==
  /\ {Timeout, Period, Depth, SendTime, K, S} \subseteq Nat \ {0} /\ Gap \in Nat
  /\ K > Depth + 1 /\ S > 1 /\ Latch \in 0..(Period - 1)

(* A sample period holds the capture machine's six cycles and a CPU access *)
(* of four, a character is longer than what may interrupt a write, and the *)
(* watchdog waits for more than two samples.                               *)
ASSUME PaceAssumption == Period > 10 /\ SendTime > 6 /\ Timeout > 2 * Period

VARIABLES
  op,                          \* the CPU's access, "idle" when it has none
  ds, m1, rdata,               \* capture state, its bus request, the word read
  started, phase, ready, sample, s1_ack,
  fifo, rd_data, ack_r, tx_left, rx_left, nextChar,
  bs_cnt, bs_addr, bs_rdata, s0_rdata, s0_ack,
  wd_cnt, wd_ack,
  \* history: last sample stored, last character popped before this access;
  \* characters popped and acknowledges lost in it, characters sent for it
  stored, heard, pops, cuts, sends

cpuVars  == <<op, heard, pops, cuts, sends>>
dmaVars  == <<ds, m1, rdata, stored>>
adcVars  == <<started, phase, ready, sample, s1_ack>>
uartVars == <<fifo, rd_data, ack_r, tx_left, rx_left, nextChar>>
s0Vars   == <<bs_cnt, bs_addr, bs_rdata, s0_rdata, s0_ack>>
wdVars   == <<wd_cnt, wd_ack>>
vars == <<cpuVars, dmaVars, adcVars, uartVars, s0Vars, wdVars>>

-----------------------------------------------------------------------------
(* Accesses of the CPU: a character read or sent, a bin of the snapshot,   *)
(* the ADC's word, an address that no slave answers.                       *)
BinOps == {"bin0", "bin1"}
Ops == {"rx", "tx", "adc", "unmapped"} \cup BinOps

Slave(o) == CASE o \in {"rx", "tx"} -> "s6"
              [] o \in BinOps       -> "s0"
              [] o = "adc"          -> "s1"
              [] o = "unmapped"     -> "none"

(* Arbitration: m1 always wins, and all it addresses is the ADC.           *)
sel_m1 == m1 # "none"
sel(o) == ~sel_m1 /\ op = o

(* The selected slave's acknowledge.                                       *)
slv_ack ==
  LET s == IF sel_m1 THEN "s1" ELSE IF op = "idle" THEN "none" ELSE Slave(op)
  IN  \/ s = "s6" /\ ack_r
      \/ s = "s1" /\ s1_ack
      \/ s = "s0" /\ s0_ack
m0_real_ack == slv_ack /\ ~sel_m1
m0_ack == m0_real_ack \/ wd_ack
m1_ack == slv_ack /\ sel_m1

-----------------------------------------------------------------------------
(* cpu_watchdog.  The count is of the access's own cycles.                 *)
Count == IF op # "idle" /\ ~m0_real_ack THEN (IF wd_cnt >= Timeout THEN 0 ELSE wd_cnt + 1) ELSE 0

(* Faulty variant: an address without a slave is not guarded.              *)
ExpiredMapped == op \notin {"idle", "unmapped"} /\ ~m0_real_ack /\ wd_cnt >= Timeout
Expired == op # "idle" /\ ~m0_real_ack /\ wd_cnt >= Timeout

Watchdog == wd_ack' = Expired /\ wd_cnt' = Count

-----------------------------------------------------------------------------
(* The capture machine.  Its bus request is registered from its state, so  *)
(* it lags the state by a cycle and is still up in the cycle after the     *)
(* acknowledge.                                                            *)

(* Faulty variant: the flag is not cleared.                                *)
dma_next_state_no_clear ==
  CASE ds = "IDLE"  -> "OPEN"
    [] ds = "OPEN"  -> IF m1_ack THEN "POLL" ELSE ds
    [] ds = "POLL"  -> IF ready THEN "READ" ELSE ds
    [] ds = "READ"  -> IF m1_ack THEN "STORE" ELSE ds
    [] OTHER        -> "POLL"
dma_next_state ==
  CASE ds = "IDLE"  -> "OPEN"                      (* start_r is '1'       *)
    [] ds = "OPEN"  -> IF m1_ack THEN "POLL" ELSE ds
    [] ds = "POLL"  -> IF ready THEN "READ" ELSE ds
    [] ds = "READ"  -> IF m1_ack THEN "CLRDY" ELSE ds
    [] ds = "CLRDY" -> IF m1_ack THEN "STORE" ELSE ds
    [] ds = "STORE" -> "POLL"

Capture ==
  /\ ds' = dma_next_state
  /\ m1' = IF ds \in {"OPEN", "READ", "CLRDY"} THEN ds ELSE "none"
  /\ rdata' = IF ds = "READ" /\ m1_ack THEN sample ELSE rdata
  /\ stored' = IF ds = "STORE" THEN rdata ELSE stored

-----------------------------------------------------------------------------
(* s1, the ADC.  Its word is read only when there is one; a sample latched *)
(* in the cycle of a clear stays flagged.                                  *)
latches == started /\ phase = Latch
Adc ==
  /\ started' = (started \/ m1 = "OPEN")
  /\ phase' = IF started THEN (phase + 1) % Period ELSE 0
  /\ sample' = IF latches THEN (sample + 1) % S ELSE sample
  /\ ready' = (latches \/ (ready /\ m1 # "CLRDY"))
  /\ s1_ack' = (m1 \in {"OPEN", "CLRDY"} \/ ((m1 = "READ" \/ sel("adc")) /\ ready))

-----------------------------------------------------------------------------
(* s6, the UART.                                                           *)

popsNow == sel("rx") /\ ~ack_r /\ fifo # <<>>

sendsNow == sel("tx") /\ tx_left = 0

(* The received character enters unless the FIFO, popped first, is full.   *)
(* Faulty variant: the limit is not looked at.                             *)
kept_always(q, arrives) == IF arrives THEN Append(q, nextChar) ELSE q
kept(q, arrives) == IF arrives /\ Len(q) < Depth THEN Append(q, nextChar) ELSE q

Uart ==
  /\ ack_r' = (sel("rx") \/ sel("tx"))
  /\ rd_data' = IF sel("rx") /\ ~ack_r
                THEN [valid |-> fifo # <<>>, char |-> IF fifo = <<>> THEN rd_data.char ELSE Head(fifo)]
                ELSE rd_data
  /\ tx_left' = IF sendsNow THEN SendTime ELSE IF tx_left > 0 THEN tx_left - 1 ELSE 0
  /\ \E arrives \in {FALSE} \cup {rx_left = 0} :
       /\ fifo' = kept(IF popsNow THEN Tail(fifo) ELSE fifo, arrives)
       /\ rx_left' = IF arrives THEN Gap ELSE IF rx_left > 0 THEN rx_left - 1 ELSE 0
       /\ nextChar' = IF arrives THEN (nextChar + (IF popsNow \/ Len(fifo) < Depth THEN 1 ELSE 0)) % K
                      ELSE nextChar

-----------------------------------------------------------------------------
(* s0: a snapshot read passes two registers, whoever has the bus meanwhile.*)
(* Faulty variant: the second register is not waited for.                  *)
answersEarly == bs_cnt = 1
answers == bs_cnt = 2
accepts == bs_cnt = 0 /\ ~s0_ack /\ \E b \in BinOps : sel(b)
Snapshot ==
  /\ s0_ack' = answers
  /\ s0_rdata' = IF answers THEN bs_rdata ELSE s0_rdata
  /\ bs_cnt' = IF answers THEN 0 ELSE IF bs_cnt > 0 THEN bs_cnt + 1 ELSE IF accepts THEN 1 ELSE 0
  /\ bs_addr' = IF accepts THEN op ELSE bs_addr
  /\ bs_rdata' = bs_addr

-----------------------------------------------------------------------------
(* The CPU (external).  It sends a character only after a status read that *)
(* found the transmitter free, which it stays until the CPU writes.  It is *)
(* still booting when the capture machine enables the ADC.                 *)
Begin(o) == started /\ (o = "tx" => tx_left = 0)
Cpu ==
  /\ op' \in (IF op = "idle" THEN {"idle"} \cup {o \in Ops : Begin(o)}
              ELSE {IF m0_ack THEN "idle" ELSE op})
  /\ pops'  = IF op = "idle" THEN 0 ELSE pops + (IF popsNow THEN 1 ELSE 0)
  /\ sends' = IF op = "idle" THEN 0 ELSE sends + (IF sendsNow THEN 1 ELSE 0)
  /\ cuts'  = IF op = "idle" THEN 0
              ELSE IF op = "rx" /\ ack_r /\ sel_m1 THEN cuts + 1 ELSE cuts
  /\ heard' = IF op = "rx" /\ m0_ack THEN (heard + pops) % K ELSE heard

-----------------------------------------------------------------------------
(* Out of reset; the firmware has set the UART up.                         *)
Init ==
  /\ op = "idle" /\ heard = K - 1 /\ pops = 0 /\ cuts = 0 /\ sends = 0
  /\ ds = "IDLE" /\ m1 = "none" /\ rdata = S - 1 /\ stored = S - 1
  /\ started = FALSE /\ phase = 0 /\ ready = FALSE /\ sample = S - 1 /\ s1_ack = FALSE
  /\ fifo = <<>> /\ rd_data = [valid |-> FALSE, char |-> 0] /\ ack_r = FALSE
  /\ tx_left = 0 /\ rx_left = 0 /\ nextChar = 0
  /\ bs_cnt = 0 /\ bs_addr = "bin0" /\ bs_rdata = "bin0" /\ s0_rdata = "bin0" /\ s0_ack = FALSE
  /\ wd_cnt = 0 /\ wd_ack = FALSE

Tick == Cpu /\ Capture /\ Adc /\ Uart /\ Snapshot /\ Watchdog

Next == Tick
Spec == Init /\ [][Next]_vars /\ WF_vars(Next)

-----------------------------------------------------------------------------
(* Every register stays in its range; in particular the FIFO never holds   *)
(* more than its depth, a character arriving in the cycle of a read too    *)
(* (uart_generic.vhd:102-144, 265-283).                                    *)
TypeOK ==
  /\ op \in Ops \cup {"idle"} /\ heard \in 0..(K - 1) /\ {pops, cuts, sends} \subseteq Nat
  /\ ds \in {"IDLE", "OPEN", "POLL", "READ", "CLRDY", "STORE"}
  /\ m1 \in {"none", "OPEN", "READ", "CLRDY"}
  /\ {rdata, stored, sample} \subseteq 0..(S - 1)
  /\ {started, ready, s1_ack, ack_r, s0_ack, wd_ack} \subseteq BOOLEAN /\ phase \in 0..(Period - 1)
  /\ fifo \in Seq(0..(K - 1)) /\ Len(fifo) <= Depth
  /\ rd_data \in [valid : BOOLEAN, char : 0..(K - 1)]
  /\ tx_left \in 0..SendTime /\ rx_left \in 0..Gap /\ nextChar \in 0..(K - 1)
  /\ bs_cnt \in 0..2 /\ {bs_addr, bs_rdata, s0_rdata} \subseteq BinOps
  /\ wd_cnt \in 0..Timeout

(* The capture machine stores every sample of the ADC once: its requests   *)
(* lag its states, acknowledges of one request or of the CPU's own read of *)
(* the ADC are taken for the next one's, and still the flag is down when   *)
(* the machine looks at it again (dma.vhd:207-285, spi_master.vhd:98-124). *)
SampleOnce == ds = "STORE" => rdata = (stored + 1) % S

(* A write that ends has sent its character exactly once, although the     *)
(* strobe lasts two cycles and is raised again when m1 cuts it             *)
(* (uart_generic.vhd:112-117, wb_interconnect.vhd:139-146).                *)
TxOnce == op = "tx" /\ m0_ack => sends = 1

(* A read that ends popped one character, one more only for an acknowledge *)
(* that m1 took away, at most once; what it returns is the last popped,    *)
(* and what was received is popped in order (uart_generic.vhd:136-142,     *)
(* wb_interconnect.vhd:217).                                               *)
ReadsAccounted ==
  op = "rx" => /\ pops <= 1 + cuts /\ cuts <= 1
               /\ m0_ack /\ rd_data.valid => rd_data.char = (heard + pops) % K

(* A bin read returns the bin asked for, although the read goes on while   *)
(* m1 has the bus and is begun again afterwards (top.vhd:475-485).         *)
BinIsAsked == op \in BinOps /\ m0_ack => s0_rdata = op

(* The watchdog never ends an access that a slave would have answered      *)
(* (wb_interconnect.vhd:127-131).                                          *)
WatchdogOnlyForSilent == wd_ack => op = "unmapped"

(* Whatever m1 cuts, an access ends with the answer of its own slave, and  *)
(* takes effect as often as the acknowledges account for.                  *)
AccessesAnswered == TxOnce /\ ReadsAccounted /\ BinIsAsked /\ WatchdogOnlyForSilent

(* Every access of the CPU ends, whatever m1 does and whatever address it  *)
(* is to (wb_interconnect.vhd:127-131, 221-240).                           *)
AccessEnds == op # "idle" ~> op = "idle"
=============================================================================
