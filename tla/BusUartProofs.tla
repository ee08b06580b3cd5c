---------------------------- MODULE BusUartProofs ----------------------------
(***************************************************************************)
(* The peripheral bus, for any sample period, latch moment, watchdog,      *)
(* FIFO depth and character length that keep the pace: every sample is     *)
(* stored once, and every access of the CPU ends with the answer of its    *)
(* own slave, whatever the capture machine cuts.                           *)
(*                                                                         *)
(* The argument: the capture machine has the bus only from the second to   *)
(* the fifth cycle after a sample is latched, so it cuts an access at most *)
(* once, and every access but one of the ADC ends within ten cycles of a   *)
(* sample; the ADC's within a period.                                      *)
(***************************************************************************)
EXTENDS BusUart, SequenceTheorems, TLAPS

(* Cycles since the last sample was latched.                               *)
Since == IF phase > Latch THEN phase - Latch - 1 ELSE phase + Period - Latch - 1

CaptureInv ==
  \/ /\ ds = "IDLE" /\ m1 = "none" /\ ~started /\ op = "idle" /\ ~s1_ack /\ ~ready /\ phase = 0
     /\ sample = stored
  \/ /\ ds = "OPEN" /\ m1 \in {"none", "OPEN"} /\ ~started /\ op = "idle" /\ ~s1_ack /\ ~ready
     /\ phase = 0 /\ sample = stored
  \/ /\ ds = "OPEN" /\ m1 = "OPEN" /\ started /\ op = "idle" /\ s1_ack /\ ~ready /\ phase = 0
     /\ sample = stored
  \/ /\ ds = "POLL" /\ m1 \in {"none", "OPEN"} /\ started /\ (m1 = "OPEN" => wd_cnt = 0)
     /\ ready <=> Since = 0
     /\ sample = IF ready THEN (stored + 1) % S ELSE stored
  \/ /\ ds = "READ" /\ started /\ ready /\ sample = (stored + 1) % S
     /\ \/ m1 = "none" /\ Since = 1
        \/ m1 = "READ" /\ Since = 2
        \/ m1 = "READ" /\ Since = 3 /\ s1_ack
  \/ /\ ds = "CLRDY" /\ m1 = "READ" /\ started /\ ready /\ s1_ack /\ Since \in 3..4
     /\ rdata = sample /\ sample = (stored + 1) % S
  \/ /\ ds = "STORE" /\ m1 = "CLRDY" /\ started /\ Since \in 4..5
     /\ rdata = sample /\ sample = (stored + 1) % S

(* The watchdog's count, which starts with the access, and the UART's      *)
(* acknowledge, which is lost once at most.                                *)
WatchInv ==
  /\ wd_ack => op = "unmapped" /\ wd_cnt = 0
  /\ op \in {"rx", "tx"} /\ wd_cnt = 0 => pops = 0 /\ cuts = 0 /\ sends = 0 /\ ~ack_r
  /\ ack_r => op \in {"rx", "tx", "idle"}
CharInv ==
  op \in {"rx", "tx"} =>
    /\ ack_r /\ m1 # "none" => Since = 2
    /\ \/ wd_cnt <= 1
       \/ Since \in 2..7 /\ wd_cnt <= Since + 1 /\ (Since = 7 => ack_r)
       \/ ack_r /\ m1 = "none" /\ wd_cnt = 2

(* A character that is written is being sent until the write ends.         *)
TxInv ==
  op = "tx" =>
    /\ sends \in {0, 1}
    /\ sends = 0 => tx_left = 0 /\ ~ack_r
    /\ sends = 1 => \/ ack_r /\ tx_left = SendTime
                    \/ Since \in 3..7 /\ tx_left >= SendTime - Since + 2 /\ (Since = 7 => ack_r)

(* The FIFO holds the characters that follow the last popped.              *)
Wrap(x) == IF x < K THEN x ELSE x - K
Base == IF op = "rx" THEN Wrap(heard + pops) ELSE heard
RxInv ==
  op = "rx" =>
    /\ cuts \in {0, 1} /\ (cuts = 1 => Since \in 3..7 /\ (Since = 7 => ack_r))
    /\ pops <= cuts + (IF ack_r THEN 1 ELSE 0)
    /\ ack_r /\ rd_data.valid => rd_data.char = Base
FifoInv ==
  /\ \A i \in 1..Len(fifo) : fifo[i] = Wrap(Base + i)
  /\ nextChar = Wrap(Base + Len(fifo) + 1)

(* A snapshot read carries the bin asked for through the two registers.    *)
Stage == IF s0_ack THEN 3 ELSE bs_cnt
BinInv ==
  /\ op \notin BinOps => bs_cnt = 0 /\ ~s0_ack
  /\ op \in BinOps =>
       /\ bs_cnt >= 1 => bs_addr = op /\ ~s0_ack
       /\ bs_cnt = 2 => bs_rdata = op
       /\ s0_ack => s0_rdata = op /\ bs_cnt = 0
       /\ \/ wd_cnt <= 1 + Stage
          \/ /\ Since \in 3..9 /\ wd_cnt <= Since + 2 /\ (Since <= 4 => m1 # "none")
             /\ IF Stage = 0 THEN Since <= 6 ELSE 5 + Stage <= Since /\ Since <= 6 + Stage

(* A read of the ADC is answered by the next sample.                       *)
AdcInv ==
  op = "adc" => \/ wd_cnt <= (IF Since >= 1 THEN Since - 1 ELSE Period - 1)
                \/ Since = 1 /\ s1_ack /\ m1 = "none" /\ wd_cnt <= Period

IInv == /\ TypeOK /\ CaptureInv /\ WatchInv /\ CharInv /\ TxInv /\ RxInv /\ FifoInv
        /\ BinInv /\ AdcInv

-----------------------------------------------------------------------------
LEMMA Modulo ==
  ASSUME NEW n \in Nat \ {0}, NEW x \in Nat
  PROVE  x % n \in 0..(n - 1)
OBVIOUS

LEMMA ModuloNext ==
  ASSUME NEW n \in Nat \ {0}, NEW x \in Nat, x < n
  PROVE  (x + 1) % n = IF x = n - 1 THEN 0 ELSE x + 1
OBVIOUS

LEMMA ModuloSum ==
  ASSUME NEW n \in Nat \ {0}, NEW x \in Nat, NEW y \in Nat, x + y < 2 * n
  PROVE  (x + y) % n = IF x + y < n THEN x + y ELSE x + y - n
OBVIOUS

LEMMA Constants ==
  /\ Timeout \in Nat /\ Period \in Nat /\ Depth \in Nat /\ SendTime \in Nat /\ K \in Nat /\ S \in Nat
  /\ Gap \in Nat /\ Latch \in Nat /\ Latch < Period /\ Depth > 0 /\ K > Depth + 1 /\ S > 1
  /\ Period > 10 /\ SendTime > 6 /\ Timeout > 2 * Period
BY BusAssumption, PaceAssumption

LEMMA Numbers ==
  ASSUME TypeOK
  PROVE  /\ pops \in Nat /\ cuts \in Nat /\ sends \in Nat /\ heard \in Nat /\ heard < K
         /\ rdata \in Nat /\ stored \in Nat /\ sample \in Nat /\ phase \in Nat /\ phase < Period
         /\ fifo \in Seq(0..(K - 1)) /\ Len(fifo) \in Nat /\ Len(fifo) <= Depth
         /\ tx_left \in Nat /\ nextChar \in Nat /\ nextChar < K
         /\ bs_cnt \in 0..2 /\ wd_cnt \in Nat /\ wd_cnt <= Timeout
<1>1. pops \in Nat /\ cuts \in Nat /\ sends \in Nat
  BY DEF TypeOK
<1>2. rdata \in 0..(S - 1) /\ stored \in 0..(S - 1) /\ sample \in 0..(S - 1)
  BY DEF TypeOK
<1>3. \A n \in Nat : \A x \in 0..(n - 1) : x \in Nat /\ x < n
  OBVIOUS
<1>4. heard \in 0..(K - 1) /\ phase \in 0..(Period - 1) /\ nextChar \in 0..(K - 1)
  BY DEF TypeOK
<1>5. heard \in Nat /\ heard < K /\ phase \in Nat /\ phase < Period /\ nextChar \in Nat /\ nextChar < K
  BY <1>3, <1>4, Constants
<1>6. rdata \in Nat /\ stored \in Nat /\ sample \in Nat
  BY <1>2, <1>3, Constants
<1>7. fifo \in Seq(0..(K - 1)) /\ Len(fifo) <= Depth
  BY DEF TypeOK
<1>8. Len(fifo) \in Nat
  BY <1>7, LenProperties
<1>9. tx_left \in 0..SendTime /\ bs_cnt \in 0..2 /\ wd_cnt \in 0..Timeout
  BY DEF TypeOK
<1>10. tx_left \in Nat /\ wd_cnt \in Nat /\ wd_cnt <= Timeout
  BY <1>9, Constants
<1> QED BY <1>1, <1>5, <1>6, <1>7, <1>8, <1>9, <1>10

(* Every register stays in its range.                                      *)
LEMMA TypeNext ==
  ASSUME TypeOK, Tick
  PROVE  TypeOK'
<1>1. op' \in Ops \cup {"idle"} /\ heard' \in 0..(K - 1) /\ {pops', cuts', sends'} \subseteq Nat
  <2>1. op' \in Ops \cup {"idle"}
    BY DEF Tick, Cpu, TypeOK
  <2>2. heard' \in 0..(K - 1)
    <3>1. K \in Nat \ {0} /\ heard + pops \in Nat
      BY Constants, Numbers
    <3>2. (heard + pops) % K \in 0..(K - 1) /\ heard \in 0..(K - 1)
      BY <3>1, Modulo DEF TypeOK
    <3> QED BY <3>2 DEF Tick, Cpu
  <2>3. pops' \in Nat /\ cuts' \in Nat /\ sends' \in Nat
    BY Numbers DEF Tick, Cpu
  <2> QED BY <2>1, <2>2, <2>3
<1>2. /\ ds' \in {"IDLE", "OPEN", "POLL", "READ", "CLRDY", "STORE"}
      /\ m1' \in {"none", "OPEN", "READ", "CLRDY"}
  BY DEF Tick, Capture, dma_next_state, TypeOK
<1>3. {rdata', stored', sample'} \subseteq 0..(S - 1)
  <2>1. S \in Nat \ {0} /\ sample + 1 \in Nat
    BY Constants, Numbers
  <2>2. (sample + 1) % S \in 0..(S - 1)
    BY <2>1, Modulo
  <2>3. sample \in 0..(S - 1) /\ rdata \in 0..(S - 1) /\ stored \in 0..(S - 1)
    BY DEF TypeOK
  <2>4. sample' \in 0..(S - 1) /\ rdata' \in 0..(S - 1) /\ stored' \in 0..(S - 1)
    BY <2>2, <2>3 DEF Tick, Adc, Capture
  <2> QED BY <2>4
<1>4. {started', ready', s1_ack', ack_r', s0_ack', wd_ack'} \subseteq BOOLEAN
  <2>1. started' \in BOOLEAN /\ ready' \in BOOLEAN /\ s1_ack' \in BOOLEAN
    BY DEF Tick, Adc, TypeOK
  <2>2. ack_r' \in BOOLEAN /\ s0_ack' \in BOOLEAN /\ wd_ack' \in BOOLEAN
    BY DEF Tick, Uart, Snapshot, Watchdog, answers, Expired, sel, TypeOK
  <2> QED BY <2>1, <2>2
<1>5. phase' \in 0..(Period - 1)
  <2>1. Period \in Nat \ {0} /\ phase + 1 \in Nat /\ 0 \in 0..(Period - 1)
    BY Constants, Numbers
  <2>2. (phase + 1) % Period \in 0..(Period - 1)
    BY <2>1, Modulo
  <2> QED BY <2>1, <2>2 DEF Tick, Adc
<1>6. fifo' \in Seq(0..(K - 1)) /\ Len(fifo') <= Depth
  <2> DEFINE q == IF popsNow THEN Tail(fifo) ELSE fifo
  <2>1. q \in Seq(0..(K - 1)) /\ Len(q) <= Depth /\ Len(q) \in Nat
    <3>1. fifo # <<>> => Tail(fifo) \in Seq(0..(K - 1)) /\ Len(Tail(fifo)) = Len(fifo) - 1 /\ Len(fifo) > 0
      BY Numbers
    <3>2. fifo \in Seq(0..(K - 1)) /\ Len(fifo) \in Nat /\ Len(fifo) <= Depth /\ Depth \in Nat
      BY Numbers, Constants
    <3>3. CASE popsNow
      BY <3>1, <3>2, <3>3 DEF popsNow
    <3>4. CASE ~popsNow
      BY <3>2, <3>4
    <3> QED BY <3>3, <3>4
  <2>2. PICK arrives \in BOOLEAN : fifo' = kept(q, arrives)
    BY DEF Tick, Uart
  <2> HIDE DEF q
  <2>3. Append(q, nextChar) \in Seq(0..(K - 1)) /\ Len(Append(q, nextChar)) = Len(q) + 1
    BY <2>1, AppendProperties DEF TypeOK
  <2>4. Depth \in Nat
    BY Constants
  <2>5. arrives /\ Len(q) < Depth => Len(q) + 1 <= Depth
    BY <2>1, <2>4
  <2> QED BY <2>1, <2>2, <2>3, <2>5 DEF kept
<1>7. rd_data' \in [valid : BOOLEAN, char : 0..(K - 1)]
  <2>1. fifo # <<>> => Head(fifo) \in 0..(K - 1)
    BY Numbers, HeadTailProperties
  <2>2. rd_data.char \in 0..(K - 1) /\ rd_data \in [valid : BOOLEAN, char : 0..(K - 1)]
    BY DEF TypeOK
  <2> QED BY <2>1, <2>2 DEF Tick, Uart
<1>8. tx_left' \in 0..SendTime /\ rx_left' \in 0..Gap
  <2>1. tx_left \in 0..SendTime /\ rx_left \in 0..Gap
    BY DEF TypeOK
  <2> QED BY <2>1, Constants DEF Tick, Uart
<1>9. nextChar' \in 0..(K - 1)
  <2>1. K \in Nat \ {0} /\ nextChar + 1 \in Nat /\ nextChar + 0 \in Nat
    BY Constants, Numbers
  <2>2. (nextChar + 1) % K \in 0..(K - 1) /\ (nextChar + 0) % K \in 0..(K - 1) /\ nextChar \in 0..(K - 1)
    BY <2>1, Modulo DEF TypeOK
  <2> QED BY <2>2 DEF Tick, Uart
<1>10. bs_cnt' \in 0..2 /\ {bs_addr', bs_rdata', s0_rdata'} \subseteq BinOps
  <2>1. bs_addr \in BinOps /\ bs_rdata \in BinOps /\ s0_rdata \in BinOps
    BY DEF TypeOK
  <2>2. accepts => op \in BinOps
    BY DEF accepts, sel
  <2>3. bs_addr' \in BinOps /\ bs_rdata' \in BinOps /\ s0_rdata' \in BinOps
    BY <2>1, <2>2 DEF Tick, Snapshot
  <2>4. bs_cnt' \in 0..2
    BY Numbers DEF Tick, Snapshot, answers
  <2> QED BY <2>3, <2>4
<1>11. wd_cnt' \in 0..Timeout
  <2>1. Timeout \in Nat /\ wd_cnt \in Nat /\ wd_cnt <= Timeout
    BY Constants, Numbers
  <2> QED BY <2>1 DEF Tick, Watchdog, Count
<1> QED BY <1>1, <1>2, <1>3, <1>4, <1>5, <1>6, <1>7, <1>8, <1>9, <1>10, <1>11 DEF TypeOK

-----------------------------------------------------------------------------
(* The capture machine.                                                    *)
LEMMA SinceNext ==
  ASSUME TypeOK, Tick, started
  PROVE  /\ Since \in 0..(Period - 1) /\ (latches <=> Since = Period - 1)
         /\ Since' = IF Since = Period - 1 THEN 0 ELSE Since + 1
<1>1. phase \in Nat /\ phase < Period /\ phase' = (phase + 1) % Period
  BY Numbers DEF Tick, Adc
<1>2. phase' = IF phase = Period - 1 THEN 0 ELSE phase + 1
  <2>1. Period \in Nat \ {0}
    BY Constants
  <2> QED BY <1>1, <2>1, ModuloNext
<1> QED BY <1>1, <1>2, Constants DEF Since, latches

(* What one cycle does to it.                                              *)
LEMMA CaptureStep ==
  ASSUME TypeOK, Tick
  PROVE  /\ m1_ack <=> s1_ack /\ m1 # "none"
         /\ ds' = dma_next_state
         /\ m1' = IF ds \in {"OPEN", "READ", "CLRDY"} THEN ds ELSE "none"
         /\ rdata' = IF ds = "READ" /\ m1_ack THEN sample ELSE rdata
         /\ stored' = IF ds = "STORE" THEN rdata ELSE stored
         /\ started' = (started \/ m1 = "OPEN")
         /\ phase' = IF started THEN (phase + 1) % Period ELSE 0
         /\ sample' = IF latches THEN (sample + 1) % S ELSE sample
         /\ ready' = (latches \/ (ready /\ m1 # "CLRDY"))
         /\ s1_ack' = (m1 \in {"OPEN", "CLRDY"} \/ ((m1 = "READ" \/ sel("adc")) /\ ready))
         /\ op = "idle" => wd_cnt' = 0 /\ (~started => op' = "idle")
<1>1. m1_ack <=> s1_ack /\ m1 # "none"
  BY DEF m1_ack, slv_ack, sel_m1
<1>2. op = "idle" => wd_cnt' = 0
  BY DEF Tick, Watchdog, Count
<1>3. op = "idle" /\ ~started => op' = "idle"
  BY DEF Tick, Cpu, Begin
<1> QED BY <1>1, <1>2, <1>3 DEF Tick, Capture, Adc

LEMMA CaptureNext ==
  ASSUME TypeOK, CaptureInv, Tick
  PROVE  CaptureInv'
<1> USE CaptureStep
<1>1. started => /\ Since \in 0..(Period - 1) /\ (latches <=> Since = Period - 1)
                 /\ Since' = IF Since = Period - 1 THEN 0 ELSE Since + 1
  BY SinceNext
<1>2. Period \in Nat /\ Period > 10
  BY Constants
<1>3. CASE ds = "IDLE"
  BY <1>3 DEF CaptureInv, dma_next_state, latches, sel
<1>4. CASE ds = "OPEN" /\ ~started
  <2>1. /\ op = "idle" /\ ~s1_ack /\ ~ready /\ phase = 0 /\ sample = stored /\ m1 \in {"none", "OPEN"}
    BY <1>4 DEF CaptureInv
  <2>2. ds' = "OPEN" /\ m1' = "OPEN" /\ phase' = 0 /\ ~ready' /\ sample' = stored' /\ op' = "idle"
    BY <1>4, <2>1 DEF dma_next_state, latches
  <2>3. (started' <=> m1 = "OPEN") /\ (s1_ack' <=> m1 = "OPEN")
    BY <1>4, <2>1 DEF sel
  <2>4. started' \in BOOLEAN /\ s1_ack' \in BOOLEAN
    BY TypeNext DEF TypeOK
  <2> QED BY <2>1, <2>2, <2>3, <2>4 DEF CaptureInv
<1>5. CASE ds = "OPEN" /\ started
  <2>1. /\ op = "idle" /\ s1_ack /\ ~ready /\ phase = 0 /\ sample = stored /\ m1 = "OPEN"
    BY <1>5 DEF CaptureInv
  <2>2. ds' = "POLL" /\ m1' = "OPEN" /\ started' /\ wd_cnt' = 0 /\ stored' = stored /\ (ready' <=> latches)
    BY <1>5, <2>1 DEF dma_next_state
  <2>3. (latches <=> Since' = 0) /\ sample' = IF latches THEN (stored + 1) % S ELSE stored
    BY <1>1, <1>2, <1>5, <2>1
  <2> QED BY <2>2, <2>3 DEF CaptureInv
<1>6. CASE ds = "POLL"
  <2>1. /\ m1 \in {"none", "OPEN"} /\ started /\ (ready <=> Since = 0)
        /\ sample = IF ready THEN (stored + 1) % S ELSE stored
    BY <1>6 DEF CaptureInv
  <2>2. m1' = "none" /\ started' /\ stored' = stored /\ (ready' <=> latches \/ ready)
    BY <1>6, <2>1
  <2>3. CASE ready
    <3>1. ds' = "READ" /\ ready' /\ Since' = 1 /\ sample' = sample
      BY <1>1, <1>2, <1>6, <2>1, <2>2, <2>3 DEF dma_next_state
    <3> QED BY <2>1, <2>2, <2>3, <3>1 DEF CaptureInv
  <2>4. CASE ~ready
    <3>1. ds' = "POLL" /\ (ready' <=> Since' = 0) /\ sample' = IF ready' THEN (stored + 1) % S ELSE stored
      BY <1>1, <1>2, <1>6, <2>1, <2>2, <2>4 DEF dma_next_state
    <3> QED BY <2>2, <3>1 DEF CaptureInv
  <2> QED BY <2>3, <2>4
<1>7. CASE ds = "READ"
  <2>1. /\ started /\ ready /\ sample = (stored + 1) % S
        /\ \/ m1 = "none" /\ Since = 1
           \/ m1 = "READ" /\ Since = 2
           \/ m1 = "READ" /\ Since = 3 /\ s1_ack
    BY <1>7 DEF CaptureInv
  <2>2. m1' = "READ" /\ started' /\ ready' /\ sample' = sample /\ stored' = stored /\ Since' = Since + 1
    <3>1. ~latches /\ Since' = Since + 1
      BY <1>1, <1>2, <2>1
    <3>2. m1' = "READ" /\ started' /\ stored' = stored
      BY <1>7, <2>1
    <3>3. ready' /\ sample' = sample
      BY <2>1, <3>1
    <3> QED BY <3>1, <3>2, <3>3
  <2>3. m1 = "READ" => s1_ack'
    BY <2>1
  <2>4. ds' = (IF m1_ack THEN "CLRDY" ELSE "READ") /\ (m1_ack => rdata' = sample)
    BY <1>7 DEF dma_next_state
  <2>5. (m1_ack => Since \in 2..3 /\ m1 = "READ") /\ (~m1_ack => (m1 = "none" /\ Since = 1) \/ (m1 = "READ" /\ Since = 2))
    BY <2>1
  <2>6. CASE m1_ack
    BY <2>1, <2>2, <2>3, <2>4, <2>5, <2>6 DEF CaptureInv
  <2>7. CASE ~m1_ack
    BY <2>1, <2>2, <2>3, <2>4, <2>5, <2>7 DEF CaptureInv
  <2> QED BY <2>6, <2>7
<1>8. CASE ds = "CLRDY"
  <2>1. /\ m1 = "READ" /\ started /\ ready /\ s1_ack /\ Since \in 3..4
        /\ rdata = sample /\ sample = (stored + 1) % S
    BY <1>8 DEF CaptureInv
  <2>2. /\ ds' = "STORE" /\ m1' = "CLRDY" /\ started' /\ Since' \in 4..5
        /\ rdata' = rdata /\ sample' = sample /\ stored' = stored
    <3>1. ~latches /\ Since' \in 4..5
      BY <1>1, <1>2, <2>1
    <3>2. ds' = "STORE" /\ m1' = "CLRDY"
      BY <1>8, <2>1 DEF dma_next_state
    <3>3. started' /\ rdata' = rdata /\ sample' = sample /\ stored' = stored
      BY <1>8, <2>1, <3>1
    <3> QED BY <3>1, <3>2, <3>3
  <2> QED BY <2>1, <2>2 DEF CaptureInv
<1>9. CASE ds = "STORE"
  <2>1. m1 = "CLRDY" /\ started /\ Since \in 4..5 /\ rdata = sample
    BY <1>9 DEF CaptureInv
  <2>2. /\ ds' = "POLL" /\ m1' = "none" /\ started' /\ Since' # 0 /\ ~ready'
        /\ sample' = sample /\ stored' = sample
    <3>1. ~latches /\ Since' # 0
      BY <1>1, <1>2, <2>1
    <3>2. ds' = "POLL" /\ m1' = "none"
      BY <1>9, <2>1 DEF dma_next_state
    <3>3. started' /\ ~ready' /\ sample' = sample /\ stored' = sample
      BY <1>9, <2>1, <3>1
    <3> QED BY <3>1, <3>2, <3>3
  <2> QED BY <2>2 DEF CaptureInv
<1> QED BY <1>3, <1>4, <1>5, <1>6, <1>7, <1>8, <1>9 DEF CaptureInv

(* When it has the bus.                                                    *)
LEMMA BusHeld ==
  ASSUME TypeOK, CaptureInv, Tick, op # "idle"
  PROVE  /\ started
         /\ m1 # "none" => (m1 = "OPEN" /\ wd_cnt = 0 /\ m1' = "none") \/ Since \in 2..5
         /\ m1 = "none" /\ m1' # "none" => Since = 1
         /\ m1 # "none" /\ wd_cnt > 0 /\ Since <= 3 => m1' # "none"
         /\ Since \in 0..(Period - 1) /\ Since' = IF Since = Period - 1 THEN 0 ELSE Since + 1
         /\ op = "adc" /\ Since = 0 => s1_ack' /\ m1' = "none"
<1>1. started
  BY DEF CaptureInv
<1>2. m1' = IF ds \in {"OPEN", "READ", "CLRDY"} THEN ds ELSE "none"
  BY CaptureStep
<1>3. m1 # "none" => (m1 = "OPEN" /\ wd_cnt = 0 /\ m1' = "none") \/ Since \in 2..5
  BY <1>2 DEF CaptureInv
<1>4. m1 = "none" /\ m1' # "none" => Since = 1
  BY <1>2 DEF CaptureInv
<1>5. ASSUME op = "adc", Since = 0 PROVE s1_ack' /\ m1' = "none"
  <2>1. ds = "POLL" /\ m1 \in {"none", "OPEN"} /\ ready
    BY <1>5 DEF CaptureInv
  <2>2. m1 = "none" => sel("adc")
    BY <1>5 DEF sel, sel_m1
  <2> QED BY <1>2, <2>1, <2>2, CaptureStep
<1>6. m1 # "none" /\ wd_cnt > 0 /\ Since <= 3 => m1' # "none"
  BY <1>2 DEF CaptureInv
<1> QED BY <1>1, <1>3, <1>4, <1>5, <1>6, SinceNext

-----------------------------------------------------------------------------
(* An access of the CPU.                                                   *)
LEMMA RealAck ==
  ASSUME TypeOK
  PROVE  m0_real_ack <=> /\ m1 = "none"
                         /\ \/ op \in {"rx", "tx"} /\ ack_r
                            \/ op \in BinOps /\ s0_ack
                            \/ op = "adc" /\ s1_ack
BY DEF m0_real_ack, slv_ack, sel_m1, Slave, TypeOK, Ops, BinOps

(* The watchdog has not counted far in an access that a slave answers.     *)
LEMMA Patient ==
  ASSUME IInv, op \notin {"idle", "unmapped"}
  PROVE  wd_cnt < Timeout
<1>1. wd_cnt \in Nat /\ bs_cnt \in 0..2 /\ op \in {"rx", "tx", "adc"} \cup BinOps
  BY Numbers DEF IInv, TypeOK, Ops
<1>2. Period \in Nat /\ Period > 10 /\ Timeout \in Nat /\ Timeout > 2 * Period
  BY Constants
<1>3. phase \in Nat /\ phase < Period /\ Latch \in Nat /\ Latch < Period
  BY Numbers, Constants DEF IInv
<1>4. Since \in Nat /\ Since < Period
  BY <1>2, <1>3 DEF Since
<1> HIDE DEF Since
<1>5. op \in {"rx", "tx"} => wd_cnt <= 8
  BY <1>1, <1>4 DEF IInv, CharInv
<1>6. op \in BinOps => wd_cnt <= 11
  BY <1>1, <1>4 DEF IInv, BinInv, Stage
<1>7. op = "adc" => wd_cnt <= Period
  BY <1>1, <1>2, <1>4 DEF IInv, AdcInv
<1> QED BY <1>1, <1>2, <1>5, <1>6, <1>7

(* It begins with nothing counted, goes on, or ends.                       *)
LEMMA AccessStep ==
  ASSUME IInv, Tick
  PROVE  /\ op = "idle" =>
              wd_cnt' = 0 /\ pops' = 0 /\ cuts' = 0 /\ sends' = 0 /\ ~ack_r' /\ ~wd_ack'
         /\ op # "idle" /\ m0_real_ack => op' = "idle" /\ wd_cnt' = 0 /\ ~wd_ack'
         /\ op \notin {"idle", "unmapped"} /\ ~m0_real_ack =>
              op' = op /\ wd_cnt' = wd_cnt + 1 /\ ~wd_ack'
         /\ op = "unmapped" => op' \in {op, "idle"} /\ (wd_ack' => op' = op /\ wd_cnt' = 0)
<1>1. wd_cnt \in Nat /\ Timeout \in Nat /\ Timeout > 0
  BY Numbers, Constants DEF IInv
<1>2. CASE op = "idle"
  BY <1>2 DEF Tick, Cpu, Watchdog, Count, Expired, Uart, sel
<1>3. CASE op # "idle" /\ m0_real_ack
  BY <1>3 DEF Tick, Cpu, Watchdog, Count, Expired, m0_ack
<1>4. CASE op \notin {"idle", "unmapped"} /\ ~m0_real_ack
  <2>1. ~wd_ack /\ wd_cnt < Timeout
    BY <1>4, Patient DEF IInv, WatchInv
  <2>2. ~m0_ack /\ ~Expired /\ Count = wd_cnt + 1
    BY <1>1, <1>4, <2>1 DEF Count, Expired, m0_ack
  <2>3. op' = op /\ wd_cnt' = wd_cnt + 1 /\ ~wd_ack'
    BY <1>4, <2>2 DEF Tick, Cpu, Watchdog
  <2> QED BY <1>4, <2>3
<1>5. CASE op = "unmapped" /\ ~m0_real_ack
  <2>1. op' \in {op, "idle"} /\ (~wd_ack => op' = op)
    BY <1>5 DEF Tick, Cpu, m0_ack
  <2>2. wd_ack' => wd_cnt >= Timeout /\ wd_cnt' = 0
    BY <1>5 DEF Tick, Watchdog, Expired, Count
  <2>3. wd_ack => wd_cnt = 0
    BY DEF IInv, WatchInv
  <2> QED BY <1>1, <1>5, <2>1, <2>2, <2>3
<1> QED BY <1>2, <1>3, <1>4, <1>5

LEMMA WatchNext ==
  ASSUME IInv, Tick
  PROVE  WatchInv'
<1>1. op \in Ops \cup {"idle"} /\ wd_cnt \in Nat
  BY Numbers DEF IInv, TypeOK
<1>2. wd_ack' => op' = "unmapped" /\ wd_cnt' = 0
  BY <1>1, AccessStep
<1>3. op' \in {"rx", "tx"} /\ wd_cnt' = 0 => pops' = 0 /\ cuts' = 0 /\ sends' = 0 /\ ~ack_r'
  BY <1>1, AccessStep
<1>4. ack_r' => op' \in {"rx", "tx", "idle"}
  <2>1. ack_r' => op \in {"rx", "tx"}
    BY DEF Tick, Uart, sel
  <2> QED BY <2>1, AccessStep
<1> QED BY <1>2, <1>3, <1>4 DEF WatchInv

LEMMA AckNext ==
  ASSUME Tick, op \in {"rx", "tx"}
  PROVE  ack_r' <=> m1 = "none"
BY DEF Tick, Uart, sel, sel_m1

LEMMA CharNext ==
  ASSUME IInv, Tick
  PROVE  CharInv'
<1> SUFFICES ASSUME op' \in {"rx", "tx"}
             PROVE  /\ ack_r' /\ m1' # "none" => Since' = 2
                    /\ \/ wd_cnt' <= 1
                       \/ Since' \in 2..7 /\ wd_cnt' <= Since' + 1 /\ (Since' = 7 => ack_r')
                       \/ ack_r' /\ m1' = "none" /\ wd_cnt' = 2
  BY DEF CharInv
<1>1. CASE op = "idle"
  BY <1>1, AccessStep
<1>2. CASE op # "idle"
  <2>1. op \in {"rx", "tx"} /\ op' = op /\ wd_cnt' = wd_cnt + 1 /\ ~(m1 = "none" /\ ack_r)
    BY <1>2, AccessStep, RealAck DEF IInv
  <2>2. /\ m1 # "none" => (m1 = "OPEN" /\ wd_cnt = 0 /\ m1' = "none") \/ Since \in 2..5
        /\ m1 = "none" /\ m1' # "none" => Since = 1
        /\ Since \in 0..(Period - 1) /\ Since' = IF Since = Period - 1 THEN 0 ELSE Since + 1
    BY <1>2, BusHeld DEF IInv
  <2>3. wd_cnt \in Nat /\ Period \in Nat /\ Period > 10
    BY Numbers, Constants DEF IInv
  <2>4. ack_r' <=> m1 = "none"
    BY <2>1, AckNext
  <2>5. \/ wd_cnt <= 1
        \/ Since \in 2..7 /\ wd_cnt <= Since + 1 /\ (Since = 7 => ack_r)
        \/ ack_r /\ m1 = "none" /\ wd_cnt = 2
    BY <2>1 DEF IInv, CharInv
  <2> HIDE DEF Since
  <2>6. ack_r' /\ m1' # "none" => Since' = 2
    BY <2>2, <2>3, <2>4
  <2>7. CASE wd_cnt <= 1
    <3>1. CASE m1 = "none"
      BY <2>1, <2>2, <2>3, <2>4, <2>7, <3>1
    <3>2. CASE m1 # "none"
      BY <2>1, <2>2, <2>3, <2>6, <2>7, <3>2
    <3> QED BY <2>6, <3>1, <3>2
  <2>8. CASE Since \in 2..7 /\ wd_cnt <= Since + 1 /\ (Since = 7 => ack_r) /\ wd_cnt > 1
    <3>1. Since # 7
      BY <2>1, <2>2, <2>3, <2>8
    <3>2. Since' \in 3..7 /\ wd_cnt' <= Since' + 1
      BY <2>1, <2>2, <2>3, <2>8, <3>1
    <3>3. Since' = 7 => m1 = "none"
      BY <2>2, <2>3, <2>8, <3>1
    <3> QED BY <2>4, <2>6, <3>2, <3>3
  <2> QED BY <2>1, <2>3, <2>5, <2>7, <2>8
<1> QED BY <1>1, <1>2

LEMMA TxNext ==
  ASSUME IInv, Tick
  PROVE  TxInv'
<1> SUFFICES ASSUME op' = "tx"
             PROVE  /\ sends' \in {0, 1}
                    /\ sends' = 0 => tx_left' = 0 /\ ~ack_r'
                    /\ sends' = 1 =>
                         \/ ack_r' /\ tx_left' = SendTime
                         \/ Since' \in 3..7 /\ tx_left' >= SendTime - Since' + 2 /\ (Since' = 7 => ack_r')
  BY DEF TxInv
<1>0. /\ tx_left' = IF sendsNow THEN SendTime ELSE IF tx_left > 0 THEN tx_left - 1 ELSE 0
      /\ sends' = IF op = "idle" THEN 0 ELSE sends + (IF sendsNow THEN 1 ELSE 0)
      /\ sendsNow <=> m1 = "none" /\ op = "tx" /\ tx_left = 0
  BY DEF Tick, Uart, Cpu, sendsNow, sel, sel_m1
<1>1. CASE op = "idle"
  <2>1. tx_left = 0
    BY <1>1 DEF Tick, Cpu, Begin
  <2> QED BY <1>0, <1>1, <2>1, AccessStep
<1>2. CASE op # "idle"
  <2>1. op = "tx" /\ ~(m1 = "none" /\ ack_r)
    BY <1>2, AccessStep, RealAck DEF IInv
  <2>2. /\ m1 # "none" => (m1 = "OPEN" /\ wd_cnt = 0) \/ Since \in 2..5
        /\ Since \in 0..(Period - 1) /\ Since' = IF Since = Period - 1 THEN 0 ELSE Since + 1
    BY <1>2, BusHeld DEF IInv
  <2>3. tx_left \in Nat /\ Period \in Nat /\ Period > 10 /\ SendTime \in Nat /\ SendTime > 6
    BY Numbers, Constants DEF IInv
  <2>4. ack_r' <=> m1 = "none"
    BY <2>1, AckNext
  <2>5. /\ sends \in {0, 1}
        /\ sends = 0 => tx_left = 0 /\ ~ack_r
        /\ sends = 1 => \/ ack_r /\ tx_left = SendTime
                        \/ Since \in 3..7 /\ tx_left >= SendTime - Since + 2 /\ (Since = 7 => ack_r)
    BY <2>1 DEF IInv, TxInv
  <2>6. (ack_r /\ m1 # "none" => Since = 2) /\ (wd_cnt = 0 => sends = 0)
    BY <2>1 DEF IInv, CharInv, WatchInv
  <2> HIDE DEF Since
  <2>7. CASE sends = 0
    BY <1>0, <1>2, <2>1, <2>4, <2>5, <2>7
  <2>8. CASE sends = 1 /\ ack_r /\ tx_left = SendTime
    <3>1. m1 # "none" /\ Since' = 3
      BY <2>1, <2>2, <2>3, <2>6, <2>8
    <3>2. ~sendsNow /\ sends' = 1 /\ tx_left' = SendTime - 1
      BY <1>0, <1>2, <2>3, <2>8
    <3> QED BY <2>3, <3>1, <3>2
  <2>9. CASE sends = 1 /\ Since \in 3..7 /\ tx_left >= SendTime - Since + 2 /\ (Since = 7 => ack_r)
    <3>1. Since \in 3..6 /\ Since' = Since + 1
      BY <2>1, <2>2, <2>3, <2>6, <2>9
    <3>2. ~sendsNow /\ sends' = 1 /\ tx_left' = tx_left - 1
      BY <1>0, <1>2, <2>3, <2>9, <3>1
    <3>3. Since = 6 => ack_r'
      BY <2>2, <2>4, <2>6, <2>9
    <3> QED BY <2>3, <2>9, <3>1, <3>2, <3>3
  <2> QED BY <2>5, <2>7, <2>8, <2>9
<1> QED BY <1>1, <1>2

LEMMA WrapNext ==
  ASSUME NEW b \in Nat, b < K, NEW n \in Nat, n + 1 < K
  PROVE  Wrap(b + (n + 1) + 1) = IF Wrap(b + n + 1) = K - 1 THEN 0 ELSE Wrap(b + n + 1) + 1
BY Constants DEF Wrap

(* What the last character popped is, after a cycle.                       *)
LEMMA BaseNext ==
  ASSUME IInv, Tick
  PROVE  /\ Base \in Nat /\ Base < K
         /\ popsNow => op' = "rx" /\ Base' = Wrap(Base + 1) /\ ~ack_r /\ m1 = "none"
         /\ ~popsNow => Base' = Base
<1>1. /\ heard \in Nat /\ heard < K /\ pops \in Nat /\ cuts \in Nat /\ K \in Nat /\ K > 2
  BY Numbers, Constants DEF IInv
<1>2. op = "rx" => pops <= 2
  BY <1>1 DEF IInv, RxInv
<1>3. Base \in Nat /\ Base < K
  BY <1>1, <1>2 DEF Base, Wrap
<1>4. popsNow <=> m1 = "none" /\ op = "rx" /\ ~ack_r /\ fifo # <<>>
  BY DEF popsNow, sel, sel_m1
<1>5. /\ pops' = IF op = "idle" THEN 0 ELSE pops + (IF popsNow THEN 1 ELSE 0)
      /\ heard' = IF op = "rx" /\ m0_ack THEN (heard + pops) % K ELSE heard
      /\ op # "idle" => op' = IF m0_ack THEN "idle" ELSE op
  BY DEF Tick, Cpu
<1>6. CASE popsNow
  <2>1. ~m0_real_ack
    BY <1>4, <1>6, RealAck DEF IInv, BinOps
  <2>2. op' = "rx" /\ ~m0_ack
    BY <1>4, <1>5, <1>6, <2>1, AccessStep
  <2>3. pops' = pops + 1 /\ heard' = heard
    BY <1>4, <1>5, <1>6, <2>2
  <2>4. pops <= 1
    BY <1>1, <1>4, <1>6 DEF IInv, RxInv
  <2>5. Base = Wrap(heard + pops) /\ Base' = Wrap(heard + (pops + 1))
    BY <1>4, <1>6, <2>2, <2>3 DEF Base, Wrap
  <2>6. Wrap(heard + (pops + 1)) = Wrap(Wrap(heard + pops) + 1)
    BY <1>1, <2>4 DEF Wrap
  <2> QED BY <1>3, <1>4, <1>6, <2>2, <2>5, <2>6
<1>7. CASE ~popsNow
  <2>1. CASE op = "rx" /\ m0_ack
    <3>0. pops <= 2
      BY <1>2, <2>1
    <3>1. heard + pops < 2 * K /\ K \in Nat \ {0}
      BY <1>1, <3>0
    <3>2. (heard + pops) % K = IF heard + pops < K THEN heard + pops ELSE heard + pops - K
      BY <1>1, <3>1, ModuloSum
    <3>3. heard' = (heard + pops) % K
      BY <1>5, <2>1
    <3>4. heard' = Wrap(heard + pops)
      BY <1>1, <3>2, <3>3 DEF Wrap
    <3> QED BY <1>3, <1>5, <1>7, <2>1, <3>4 DEF Base
  <2>2. CASE op = "rx" /\ ~m0_ack
    BY <1>1, <1>3, <1>5, <1>7, <2>2 DEF Base, Wrap
  <2>3. CASE op # "rx"
    <3>1. heard' = heard
      BY <1>5, <2>3
    <3>2. op' = "rx" => op = "idle" /\ pops' = 0
      BY <1>5, <2>3
    <3> QED BY <1>1, <1>3, <1>7, <2>3, <3>1, <3>2 DEF Base, Wrap
  <2> QED BY <2>1, <2>2, <2>3
<1> QED BY <1>6, <1>7

LEMMA FifoNext ==
  ASSUME IInv, Tick
  PROVE  FifoInv'
<1> DEFINE q == IF popsNow THEN Tail(fifo) ELSE fifo
<1>1. /\ K \in Nat /\ Depth \in Nat /\ Depth > 0 /\ K > Depth + 1 /\ nextChar \in Nat /\ nextChar < K
      /\ fifo \in Seq(0..(K - 1)) /\ Len(fifo) \in Nat /\ Len(fifo) <= Depth
  BY Numbers, Constants DEF IInv
<1>2. /\ Base \in Nat /\ Base < K
      /\ popsNow => Base' = Wrap(Base + 1)
      /\ ~popsNow => Base' = Base
  BY BaseNext
<1>3. PICK b : b = Base' /\ b \in Nat /\ b < K
  BY <1>1, <1>2 DEF Wrap
<1>4. (\A i \in 1..Len(fifo) : fifo[i] = Wrap(Base + i)) /\ nextChar = Wrap(Base + Len(fifo) + 1)
  BY DEF IInv, FifoInv
<1> HIDE DEF Base
<1>5. /\ q \in Seq(0..(K - 1)) /\ Len(q) \in Nat /\ Len(q) <= Depth
      /\ Len(q) < Depth <=> popsNow \/ Len(fifo) < Depth
      /\ \A i \in 1..Len(q) : q[i] = Wrap(b + i)
      /\ nextChar = Wrap(b + Len(q) + 1)
  <2>1. CASE ~popsNow
    BY <1>1, <1>2, <1>3, <1>4, <2>1
  <2>2. CASE popsNow
    <3>1. fifo # <<>> /\ b = Wrap(Base + 1)
      BY <1>2, <1>3, <2>2 DEF popsNow
    <3>2. /\ Tail(fifo) \in Seq(0..(K - 1)) /\ Len(fifo) >= 1 /\ Len(Tail(fifo)) = Len(fifo) - 1
          /\ \A i \in 1..Len(fifo) - 1 : Tail(fifo)[i] = fifo[i + 1]
      <4>1. fifo \in Seq(0..(K - 1)) /\ fifo # <<>> /\ Len(fifo) \in Nat
        BY <1>1, <3>1
      <4>2. Tail(fifo) \in Seq(0..(K - 1)) /\ Len(Tail(fifo)) = Len(fifo) - 1
        BY <4>1, HeadTailProperties
      <4>3. \A i \in 1..Len(Tail(fifo)) : Tail(fifo)[i] = fifo[i + 1]
        BY <4>1, HeadTailProperties
      <4>4. Len(fifo) >= 1
        BY <4>1, EmptySeq
      <4> QED BY <4>2, <4>3, <4>4
    <3>3. \A i \in 1..Len(fifo) - 1 : Tail(fifo)[i] = Wrap(b + i)
      <4> SUFFICES ASSUME NEW i \in 1..Len(fifo) - 1 PROVE Tail(fifo)[i] = Wrap(b + i)
        OBVIOUS
      <4>1. Tail(fifo)[i] = Wrap(Base + (i + 1))
        BY <1>1, <1>4, <3>2
      <4>2. i \in Nat /\ i < Depth
        BY <1>1, <3>2
      <4>3. Wrap(Base + (i + 1)) = Wrap(Wrap(Base + 1) + i)
        BY <1>1, <1>2, <4>2 DEF Wrap
      <4> QED BY <3>1, <4>1, <4>3
    <3>4. nextChar = Wrap(b + (Len(fifo) - 1) + 1)
      BY <1>1, <1>2, <1>4, <3>1, <3>2 DEF Wrap
    <3> QED BY <1>1, <2>2, <3>2, <3>3, <3>4
  <2> QED BY <2>1, <2>2
<1>6. PICK arrives \in BOOLEAN :
        /\ fifo' = kept(q, arrives)
        /\ nextChar' = IF arrives THEN (nextChar + (IF popsNow \/ Len(fifo) < Depth THEN 1 ELSE 0)) % K
                       ELSE nextChar
  BY DEF Tick, Uart
<1> HIDE DEF q
<1>7. CASE arrives /\ Len(q) < Depth
  <2>1. fifo' = Append(q, nextChar) /\ nextChar' = (nextChar + 1) % K
    BY <1>5, <1>6, <1>7 DEF kept
  <2>2. /\ Len(fifo') = Len(q) + 1 /\ fifo'[Len(q) + 1] = nextChar
        /\ \A i \in 1..Len(q) : fifo'[i] = q[i]
    BY <1>1, <1>5, <2>1
  <2>3. (nextChar + 1) % K = IF nextChar = K - 1 THEN 0 ELSE nextChar + 1
    <3>1. K \in Nat \ {0}
      BY <1>1
    <3> QED BY <1>1, <3>1, ModuloNext
  <2>4. nextChar' = Wrap(b + (Len(q) + 1) + 1)
    <3>1. b \in Nat /\ b < K /\ Len(q) \in Nat /\ Len(q) + 1 < K
      BY <1>1, <1>3, <1>5, <1>7
    <3> QED BY <1>5, <1>7, <2>1, <2>3, <3>1, WrapNext
  <2>5. \A i \in 1..Len(q) + 1 : fifo'[i] = Wrap(b + i)
    <3> SUFFICES ASSUME NEW i \in 1..Len(q) + 1 PROVE fifo'[i] = Wrap(b + i)
      OBVIOUS
    <3>1. CASE i = Len(q) + 1
      <4>1. b + Len(q) + 1 = b + (Len(q) + 1)
        BY <1>3, <1>5
      <4> QED BY <1>5, <2>2, <3>1, <4>1
    <3>2. CASE i # Len(q) + 1
      BY <1>5, <2>2, <3>2
    <3> QED BY <3>1, <3>2
  <2> QED BY <1>3, <2>2, <2>4, <2>5 DEF FifoInv, Wrap
<1>8. CASE ~(arrives /\ Len(q) < Depth)
  <2>1. fifo' = q /\ nextChar' \in {nextChar, (nextChar + 0) % K}
    BY <1>5, <1>6, <1>8 DEF kept
  <2>2. (nextChar + 0) % K = nextChar
    <3>1. nextChar + 0 < 2 * K /\ nextChar + 0 < K /\ nextChar + 0 = nextChar /\ K \in Nat \ {0}
      BY <1>1
    <3>2. nextChar \in Nat /\ 0 \in Nat
      BY <1>1
    <3>3. (nextChar + 0) % K = IF nextChar + 0 < K THEN nextChar + 0 ELSE nextChar + 0 - K
      BY <3>1, <3>2, ModuloSum
    <3> QED BY <3>1, <3>3
  <2> QED BY <1>3, <1>5, <2>1, <2>2 DEF FifoInv, Wrap
<1> QED BY <1>7, <1>8

LEMMA RxNext ==
  ASSUME IInv, Tick
  PROVE  RxInv'
<1> SUFFICES ASSUME op' = "rx"
             PROVE  /\ cuts' \in {0, 1} /\ (cuts' = 1 => Since' \in 3..7 /\ (Since' = 7 => ack_r'))
                    /\ pops' <= cuts' + (IF ack_r' THEN 1 ELSE 0)
                    /\ ack_r' /\ rd_data'.valid => rd_data'.char = Base'
  BY DEF RxInv
<1>1. CASE op = "idle"
  BY <1>1, AccessStep
<1>2. CASE op # "idle"
  <2>1. op = "rx" /\ ~(m1 = "none" /\ ack_r)
    BY <1>2, AccessStep, RealAck DEF IInv
  <2>2. /\ m1 # "none" => (m1 = "OPEN" /\ wd_cnt = 0) \/ Since \in 2..5
        /\ Since \in 0..(Period - 1) /\ Since' = IF Since = Period - 1 THEN 0 ELSE Since + 1
    BY <1>2, BusHeld DEF IInv
  <2>3. pops \in Nat /\ Period \in Nat /\ Period > 10
    BY Numbers, Constants DEF IInv
  <2>4. ack_r' <=> m1 = "none"
    BY <2>1, AckNext
  <2>5. /\ cuts \in {0, 1} /\ (cuts = 1 => Since \in 3..7 /\ (Since = 7 => ack_r))
        /\ pops <= cuts + (IF ack_r THEN 1 ELSE 0)
    BY <2>1 DEF IInv, RxInv
  <2>6. (ack_r /\ m1 # "none" => Since = 2) /\ (wd_cnt = 0 => cuts = 0 /\ ~ack_r)
    BY <2>1 DEF IInv, CharInv, WatchInv
  <2>7. /\ pops' = pops + (IF popsNow THEN 1 ELSE 0)
        /\ cuts' = IF ack_r /\ m1 # "none" THEN cuts + 1 ELSE cuts
    BY <1>2, <2>1 DEF Tick, Cpu, sel_m1
  <2>8. popsNow <=> m1 = "none" /\ ~ack_r /\ fifo # <<>>
    BY <2>1 DEF popsNow, sel, sel_m1
  <2> HIDE DEF Since
  <2>9. CASE ack_r
    <3>1. m1 # "none" /\ Since' = 3 /\ cuts = 0 /\ ~popsNow
      BY <2>1, <2>2, <2>3, <2>5, <2>6, <2>8, <2>9
    <3>2. cuts' = 1 /\ pops' <= 1 /\ ~ack_r'
      BY <2>3, <2>4, <2>5, <2>7, <2>9, <3>1
    <3> QED BY <3>1, <3>2
  <2>10. CASE ~ack_r /\ m1 = "none"
    <3>1. cuts' = cuts /\ ack_r' /\ pops' <= cuts' + 1
      BY <2>3, <2>4, <2>5, <2>7, <2>10
    <3>2. cuts' = 1 => Since' \in 3..7
      BY <2>2, <2>3, <2>5, <2>10, <3>1
    <3>3. ASSUME rd_data'.valid PROVE rd_data'.char = Base'
      <4>1. rd_data' = [valid |-> fifo # <<>>, char |-> IF fifo = <<>> THEN rd_data.char ELSE Head(fifo)]
        BY <2>1, <2>10 DEF Tick, Uart, sel, sel_m1
      <4>2. fifo # <<>> /\ rd_data'.char = Head(fifo)
        BY <3>3, <4>1
      <4>3. fifo \in Seq(0..(K - 1)) /\ Len(fifo) \in Nat \ {0}
        BY <4>2, Numbers, EmptySeq DEF IInv
      <4>4. Head(fifo) = fifo[1] /\ fifo[1] = Wrap(Base + 1)
        BY <4>2, <4>3 DEF IInv, FifoInv
      <4> QED BY <2>8, <2>10, <4>2, <4>4, BaseNext
    <3> QED BY <2>5, <3>1, <3>2, <3>3
  <2>11. CASE ~ack_r /\ m1 # "none"
    <3>1. cuts' = cuts /\ ~ack_r' /\ pops' = pops
      BY <2>3, <2>4, <2>7, <2>8, <2>11
    <3>2. cuts' = 1 => Since' \in 3..6
      BY <2>2, <2>3, <2>5, <2>6, <2>11, <3>1
    <3> QED BY <2>3, <2>5, <2>11, <3>1, <3>2
  <2> QED BY <2>9, <2>10, <2>11
<1> QED BY <1>1, <1>2

LEMMA BinNext ==
  ASSUME IInv, Tick
  PROVE  BinInv'
<1>0. bs_cnt \in 0..2 /\ wd_cnt \in Nat /\ Period \in Nat /\ Period > 10
  BY Numbers, Constants DEF IInv
<1>1. /\ s0_ack' <=> bs_cnt = 2
      /\ s0_rdata' = IF bs_cnt = 2 THEN bs_rdata ELSE s0_rdata
      /\ bs_cnt' = IF bs_cnt = 2 THEN 0 ELSE IF bs_cnt > 0 THEN bs_cnt + 1 ELSE IF accepts THEN 1 ELSE 0
      /\ bs_addr' = IF accepts THEN op ELSE bs_addr
      /\ bs_rdata' = bs_addr
      /\ accepts <=> bs_cnt = 0 /\ ~s0_ack /\ m1 = "none" /\ op \in BinOps
  BY DEF Tick, Snapshot, answers, accepts, sel, sel_m1
<1>2. op \notin BinOps => bs_cnt' = 0 /\ ~s0_ack'
  BY <1>1 DEF IInv, BinInv
<1>3. CASE op' \notin BinOps
  <2>1. op \in BinOps => s0_ack /\ bs_cnt = 0
    BY <1>3, AccessStep, RealAck DEF IInv, BinInv, BinOps
  <2>2. bs_cnt' = 0 /\ ~s0_ack'
    BY <1>1, <1>2, <2>1
  <2> QED BY <1>3, <2>2 DEF BinInv
<1>4. CASE op' \in BinOps /\ op = "idle"
  <2>1. bs_cnt' = 0 /\ ~s0_ack' /\ wd_cnt' = 0
    BY <1>2, <1>4, AccessStep DEF BinOps
  <2> QED BY <1>4, <2>1 DEF BinInv, Stage
<1>5. CASE op' \in BinOps /\ op # "idle"
  <2>1. op \in BinOps /\ op' = op /\ wd_cnt' = wd_cnt + 1 /\ ~(m1 = "none" /\ s0_ack)
    BY <1>5, AccessStep, RealAck DEF IInv, BinOps
  <2>2. /\ m1 # "none" => (m1 = "OPEN" /\ wd_cnt = 0 /\ m1' = "none") \/ Since \in 2..5
        /\ m1 # "none" /\ wd_cnt > 0 /\ Since <= 3 => m1' # "none"
        /\ Since \in 0..(Period - 1) /\ Since' = IF Since = Period - 1 THEN 0 ELSE Since + 1
    BY <1>5, BusHeld DEF IInv
  <2>3. /\ bs_cnt >= 1 => bs_addr = op /\ ~s0_ack
        /\ bs_cnt = 2 => bs_rdata = op
        /\ s0_ack => s0_rdata = op /\ bs_cnt = 0
        /\ \/ wd_cnt <= 1 + Stage
           \/ /\ Since \in 3..9 /\ wd_cnt <= Since + 2 /\ (Since <= 4 => m1 # "none")
              /\ IF Stage = 0 THEN Since <= 6 ELSE 5 + Stage <= Since /\ Since <= 6 + Stage
    BY <2>1 DEF IInv, BinInv
  <2>4. /\ bs_cnt' >= 1 => bs_addr' = op' /\ ~s0_ack'
        /\ bs_cnt' = 2 => bs_rdata' = op'
        /\ s0_ack' => s0_rdata' = op' /\ bs_cnt' = 0
    BY <1>0, <1>1, <2>1, <2>3
  <2>5. /\ Stage \in 0..3
        /\ Stage' = IF Stage = 3 THEN 0 ELSE IF Stage > 0 THEN Stage + 1 ELSE IF m1 = "none" THEN 1 ELSE 0
        /\ Stage = 3 => m1 # "none"
    BY <1>0, <1>1, <2>1, <2>3 DEF Stage
  <2> HIDE DEF Since, Stage
  <2>6. \/ wd_cnt' <= 1 + Stage'
        \/ /\ Since' \in 3..9 /\ wd_cnt' <= Since' + 2 /\ (Since' <= 4 => m1' # "none")
           /\ IF Stage' = 0 THEN Since' <= 6 ELSE 5 + Stage' <= Since' /\ Since' <= 6 + Stage'
    <3>1. CASE wd_cnt = 0
      <4>1. wd_cnt' = 1 /\ Stage' \in 0..3
        BY <2>1, <2>5, <3>1
      <4>2. \A x \in 0..3 : 1 <= 1 + x
        OBVIOUS
      <4>3. wd_cnt' <= 1 + Stage'
        BY <4>1, <4>2
      <4> QED BY <4>3
    <3>2. CASE Stage \in {1, 2}
      BY <1>0, <2>1, <2>2, <2>3, <2>5, <3>2
    <3>3. CASE Stage \in {0, 3} /\ wd_cnt > 0 /\ m1 = "none"
      BY <1>0, <2>1, <2>2, <2>3, <2>5, <3>3
    <3>4. CASE Stage \in {0, 3} /\ wd_cnt > 0 /\ m1 # "none"
      <4>1. Since \in 2..5 /\ Stage' = 0 /\ Since' = Since + 1
        BY <1>0, <2>2, <2>5, <3>4
      <4>2. Since' <= 4 => m1' # "none"
        BY <2>2, <3>4, <4>1
      <4>3. wd_cnt' <= Since' + 2
        BY <1>0, <2>1, <2>3, <3>4, <4>1
      <4> QED BY <4>1, <4>2, <4>3
    <3> QED BY <1>0, <2>5, <3>1, <3>2, <3>3, <3>4
  <2> QED BY <2>1, <2>4, <2>6 DEF BinInv
<1> QED BY <1>3, <1>4, <1>5

LEMMA AdcNext ==
  ASSUME IInv, Tick
  PROVE  AdcInv'
<1> SUFFICES ASSUME op' = "adc"
             PROVE  \/ wd_cnt' <= (IF Since' >= 1 THEN Since' - 1 ELSE Period - 1)
                    \/ Since' = 1 /\ s1_ack' /\ m1' = "none" /\ wd_cnt' <= Period
  BY DEF AdcInv
<1>0. Period \in Nat /\ Period > 10 /\ wd_cnt \in Nat
  BY Numbers, Constants DEF IInv
<1>1. CASE op = "idle"
  <2>1. wd_cnt' = 0
    BY <1>1, AccessStep
  <2>2. Since' \in Int
    <3>1. TypeOK'
      BY TypeNext DEF IInv
    <3>2. phase' \in Int
      BY <3>1, Constants DEF TypeOK
    <3> QED BY <3>2, Constants DEF Since
  <2> HIDE DEF Since
  <2>3. \A x \in Int : 0 <= (IF x >= 1 THEN x - 1 ELSE Period - 1)
    BY <1>0
  <2> QED BY <2>1, <2>2, <2>3
<1>2. CASE op # "idle"
  <2>1. op = "adc" /\ wd_cnt' = wd_cnt + 1 /\ ~(m1 = "none" /\ s1_ack)
    BY <1>2, AccessStep, RealAck DEF IInv
  <2>2. /\ Since \in 0..(Period - 1) /\ Since' = IF Since = Period - 1 THEN 0 ELSE Since + 1
        /\ Since = 0 => s1_ack' /\ m1' = "none"
    BY <1>2, <2>1, BusHeld DEF IInv
  <2>3. wd_cnt <= (IF Since >= 1 THEN Since - 1 ELSE Period - 1)
    BY <2>1 DEF IInv, AdcInv
  <2> HIDE DEF Since
  <2> QED BY <1>0, <2>1, <2>2, <2>3
<1> QED BY <1>1, <1>2

LEMMA Inductive ==
  Spec => []IInv
<1>1. Init => IInv
  <2> SUFFICES ASSUME Init PROVE IInv
    OBVIOUS
  <2> USE Constants
  <2>1. TypeOK
    <3>1. fifo \in Seq(0..(K - 1)) /\ Len(fifo) <= Depth
      BY DEF Init
    <3>2. /\ op \in Ops \cup {"idle"} /\ heard \in 0..(K - 1) /\ {pops, cuts, sends} \subseteq Nat
          /\ ds = "IDLE" /\ m1 = "none" /\ {rdata, stored, sample} \subseteq 0..(S - 1)
      BY DEF Init
    <3>3. /\ {started, ready, s1_ack, ack_r, s0_ack, wd_ack} \subseteq BOOLEAN
          /\ phase \in 0..(Period - 1) /\ rd_data \in [valid : BOOLEAN, char : 0..(K - 1)]
      <4>1. 0 \in 0..(Period - 1) /\ 0 \in 0..(K - 1)
        OBVIOUS
      <4> QED BY <4>1 DEF Init
    <3>4. /\ tx_left \in 0..SendTime /\ rx_left \in 0..Gap /\ nextChar \in 0..(K - 1)
          /\ bs_cnt \in 0..2 /\ {bs_addr, bs_rdata, s0_rdata} \subseteq BinOps /\ wd_cnt \in 0..Timeout
      BY DEF Init, BinOps
    <3> QED BY <3>1, <3>2, <3>3, <3>4 DEF TypeOK
  <2>2. CaptureInv
    BY DEF Init, CaptureInv
  <2>3. WatchInv /\ CharInv /\ TxInv /\ RxInv /\ AdcInv
    BY DEF Init, WatchInv, CharInv, TxInv, RxInv, AdcInv
  <2>4. FifoInv
    BY DEF Init, FifoInv, Base, Wrap
  <2>5. BinInv
    BY DEF Init, BinInv, BinOps
  <2> QED BY <2>1, <2>2, <2>3, <2>4, <2>5 DEF IInv
<1>2. IInv /\ [Next]_vars => IInv'
  <2> SUFFICES ASSUME IInv, [Next]_vars PROVE IInv'
    OBVIOUS
  <2>1. CASE Tick
    BY <2>1, TypeNext, CaptureNext, WatchNext, CharNext, TxNext, RxNext, FifoNext, BinNext, AdcNext DEF IInv
  <2>2. CASE UNCHANGED vars
    <3> USE <2>2 DEF vars, cpuVars, dmaVars, adcVars, uartVars, s0Vars, wdVars
    <3>1. TypeOK' /\ CaptureInv' /\ WatchInv' /\ CharInv' /\ TxInv'
      BY DEF IInv, TypeOK, CaptureInv, WatchInv, CharInv, TxInv, Since
    <3>2. RxInv' /\ FifoInv' /\ BinInv' /\ AdcInv'
      BY DEF IInv, RxInv, FifoInv, BinInv, AdcInv, Since, Base, Stage, Wrap
    <3> QED BY <3>1, <3>2 DEF IInv
  <2> QED BY <2>1, <2>2 DEF Next
<1> QED BY <1>1, <1>2, PTL DEF Spec

-----------------------------------------------------------------------------
(* Every register stays in its range, the receive FIFO in its depth        *)
(* (uart_generic.vhd:102-144, 265-283).                                    *)
THEOREM TypeCorrect == Spec => []TypeOK
<1>1. IInv => TypeOK
  BY DEF IInv
<1> QED BY <1>1, Inductive, PTL

(* The capture machine stores every sample of the ADC once, for any period *)
(* that holds its own six cycles and an access of the CPU                  *)
(* (dma.vhd:207-285, spi_master.vhd:98-124).                               *)
THEOREM EverySampleOnce == Spec => []SampleOnce
<1>1. IInv => SampleOnce
  BY DEF IInv, CaptureInv, SampleOnce
<1> QED BY <1>1, Inductive, PTL

(* Whatever the capture machine cuts, an access of the CPU ends with the   *)
(* answer of its own slave, having taken effect as often as its            *)
(* acknowledges account for, and the watchdog ends only one that no slave  *)
(* answers (wb_interconnect.vhd:127-146, 217; uart_generic.vhd:112-142;    *)
(* top.vhd:475-485).                                                       *)
THEOREM AccessesHaveTheirAnswers == Spec => []AccessesAnswered
<1>1. IInv => AccessesAnswered
  <2> SUFFICES ASSUME IInv PROVE AccessesAnswered
    OBVIOUS
  <2>1. wd_ack => op = "unmapped"
    BY DEF IInv, WatchInv
  <2>2. TxOnce
    <3> SUFFICES ASSUME op = "tx", m0_ack PROVE sends = 1
      BY DEF TxOnce
    <3>1. ack_r
      BY <2>1, RealAck DEF m0_ack, IInv, BinOps
    <3> QED BY <3>1 DEF IInv, TxInv
  <2>3. ReadsAccounted
    <3> SUFFICES ASSUME op = "rx"
                 PROVE  /\ pops <= 1 + cuts /\ cuts <= 1
                        /\ m0_ack /\ rd_data.valid => rd_data.char = (heard + pops) % K
      BY DEF ReadsAccounted
    <3>1. pops \in Nat /\ cuts \in {0, 1} /\ pops <= cuts + (IF ack_r THEN 1 ELSE 0)
      BY Numbers DEF IInv, RxInv
    <3>2. pops <= 1 + cuts /\ cuts <= 1 /\ pops <= 2
      BY <3>1
    <3>3. ASSUME m0_ack, rd_data.valid PROVE rd_data.char = (heard + pops) % K
      <4>1. ack_r
        BY <2>1, <3>3, RealAck DEF m0_ack, IInv, BinOps
      <4>2. rd_data.char = Base
        BY <3>3, <4>1 DEF IInv, RxInv
      <4>3. heard \in Nat /\ heard < K /\ K \in Nat /\ K > 2
        BY Numbers, Constants DEF IInv
      <4>4. heard + pops < 2 * K /\ K \in Nat \ {0}
        BY <3>1, <3>2, <4>3
      <4>5. (heard + pops) % K = IF heard + pops < K THEN heard + pops ELSE heard + pops - K
        BY <3>1, <4>3, <4>4, ModuloSum
      <4>6. Base = IF heard + pops < K THEN heard + pops ELSE heard + pops - K
        BY <3>1, <4>3 DEF Base, Wrap
      <4> QED BY <4>2, <4>5, <4>6
    <3> QED BY <3>2, <3>3
  <2>4. BinIsAsked
    <3> SUFFICES ASSUME op \in BinOps, m0_ack PROVE s0_rdata = op
      BY DEF BinIsAsked
    <3>1. s0_ack
      BY <2>1, RealAck DEF m0_ack, IInv, BinOps
    <3> QED BY <3>1 DEF IInv, BinInv
  <2> QED BY <2>1, <2>2, <2>3, <2>4 DEF AccessesAnswered, WatchdogOnlyForSilent
<1> QED BY <1>1, Inductive, PTL
=============================================================================
