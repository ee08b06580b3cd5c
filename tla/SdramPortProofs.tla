---------------------------- MODULE SdramPortProofs ----------------------------
(***************************************************************************)
(* The SDRAM port, for any timing of the chip, any length and number of    *)
(* bursts and any phase of the refresh timer: the chip gets legal commands *)
(* and its refreshes in time, a strobe is missed only at a refresh's first *)
(* cycle, and a frame of which no strobe was missed arrives word by word.  *)
(*                                                                         *)
(* Everything hangs on cycles counted in different registers being equal.  *)
(* Pos is the number of cycles since the strobe of the burst under way:    *)
(* the controller's state and timer, the chip's age, the drain's timeout   *)
(* and word index or the fetch's timeout all say it, and the delay lines   *)
(* hold what was on the port one, two and three cycles before.             *)
(***************************************************************************)
EXTENDS SdramPort, TLAPS

InitStates  == {"INIT_WAIT", "INIT_PRE", "INIT_REF1", "INIT_REF2", "INIT_LMR"}
ReadStates  == {"ACT_RD", "RD", "RD_DATA"}
WriteStates == {"ACT_WR", "WR_DATA"}

(* Cycles since the strobe, in a burst until its last word.                *)
Pos == CASE st \in {"ACT_RD", "ACT_WR"} -> 1 + tmr
         [] st \in {"RD", "WR_DATA"}    -> 1 + TRCD + tmr
         [] st = "RD_DATA"              -> 3 + TRCD + CL + tmr
         [] OTHER                       -> 0

-----------------------------------------------------------------------------
(* The controller's command and timer, and what the chip has been told.    *)
Recovered == \/ mode = "precharged" /\ age >= TRP
             \/ mode = "refreshed" /\ age >= TRFC
             \/ mode = "ready" /\ age >= TMRD

CmdInv ==
  /\ cmd = IF tmr = 0 THEN CommandOf(st) ELSE "NOP"
  /\ IF st = "IDLE" THEN tmr = 0 ELSE tmr < Duration[st]

(* In the first cycle of a state and afterwards.                           *)
ChipInv ==
  /\ st = "INIT_WAIT" \/ (st = "INIT_PRE" /\ tmr = 0) => mode = "off"
  /\ st = "INIT_REF1" /\ tmr = 0 => mode = "precharged" /\ age >= TRP
  /\ st \in {"INIT_REF2", "INIT_LMR"} /\ tmr = 0 => mode = "refreshed" /\ age >= TRFC
  /\ st \in {"IDLE", "REF", "ACT_RD", "ACT_WR"} /\ tmr = 0 => Recovered
  /\ st \in {"RD", "WR_DATA"} /\ tmr = 0 => mode = "active" /\ age >= TRCD
  /\ st = "PRE" /\ tmr = 0 =>
       (mode = "read" /\ age >= CL + Len + 3) \/ (mode = "write" /\ age >= Len + TWR)
  /\ st # "IDLE" /\ tmr > 0 =>
       /\ st \in {"INIT_PRE", "PRE"} => mode = "precharged" /\ age = tmr
       /\ st \in {"INIT_REF1", "INIT_REF2", "REF"} => mode = "refreshed" /\ age = tmr
       /\ st = "INIT_LMR" => mode = "ready" /\ age = tmr
       /\ st \in {"ACT_RD", "ACT_WR"} => mode = "active" /\ age = tmr
       /\ st = "RD" => mode = "read" /\ age = tmr
       /\ st = "WR_DATA" => mode = "write" /\ age = tmr
  /\ st = "RD_DATA" => mode = "read" /\ age = CL + 2 + tmr
  /\ st = "TWR" => mode = "write" /\ age = Len + 1 + tmr

(* The handshake: who may have the port, and when.                         *)
strobe == sip_wr \/ sip_rd

HandInv ==
  /\ busy_n => st = "IDLE" /\ (ref_req => ref_cnt = 0)
  /\ own <=> fs \in {"SETTLE", "WW", "W", "IRQ"}
  /\ wr <=> fs = "W" /\ timeout = 0
  /\ rd <=> ft = "READ" /\ ftimeout = 0
  /\ strobe => \/ st = "IDLE" /\ (ref_req => ref_cnt = 0)
               \/ st = "REF" /\ tmr = 0
  /\ rd_valid <=> st = "RD_DATA"
  /\ init_done <=> st \notin InitStates

(* A refresh that became due is younger than the burst under way, or is    *)
(* left over from the initialisation.                                      *)
Younger ==
  /\ st \in {"ACT_RD", "ACT_WR"} => ref_cnt <= 1 + tmr
  /\ st \in {"RD", "WR_DATA"} => ref_cnt <= 1 + TRCD + tmr
  /\ st = "RD_DATA" => ref_cnt <= 3 + TRCD + CL + tmr
  /\ st = "TWR" => ref_cnt <= 2 + TRCD + Len + tmr
  /\ st = "PRE" => ref_cnt <= BurstTime - TRP + 1 + tmr
  /\ st = "IDLE" => ref_cnt <= BurstTime + 1
  /\ st = "REF" => ref_cnt <= BurstTime + 2

(* The refreshes of the initialisation, then every interval.               *)
InitRefreshes ==
  /\ st \in {"INIT_PRE", "INIT_REF1", "INIT_REF2", "INIT_LMR"} /\ ~ref_req => ref_cnt >= 1
  /\ (st = "INIT_REF2" /\ tmr > 0) \/ st = "INIT_LMR" => ref_req \/ unrefreshed <= ref_cnt
  /\ st = "INIT_REF2" /\ tmr > 0 => unrefreshed <= tmr
  /\ st = "INIT_LMR" => unrefreshed <= TRFC + tmr

RefreshInv ==
  /\ InitRefreshes
  /\ st = "REF" /\ tmr > 0 => ~ref_req /\ unrefreshed <= tmr
  /\ init_done /\ ~ref_req => unrefreshed <= ref_cnt + TRFC
  /\ init_done /\ ref_req =>
       \/ Younger /\ unrefreshed <= RefreshInterval + ref_cnt + TRFC
       \/ st = "IDLE" /\ ~busy_n /\ ~strobe /\ unrefreshed <= TRFC + TMRD
       \/ st = "REF" /\ tmr = 0 /\ unrefreshed <= TRFC + TMRD + 1

-----------------------------------------------------------------------------
(* The drain.                                                              *)
DrainInv ==
  /\ fs = "SETTLE" => warm
  /\ fs \in {"SETTLE", "WW", "W"} /\ warm => burst = 0
  /\ fs = "W" => widx = timeout
  /\ fs = "W" /\ timeout = 0 => wdata = Word(burst, 0) /\ waddr = IF warm THEN 1 ELSE 2 + burst
  /\ fs \in {"WW", "W", "IRQ", "SERIAL"} => init_done
  /\ fs \in {"COMPUTE", "SETTLE"} => st \in InitStates \cup {"IDLE", "REF"}
  /\ fs \in {"WW", "W", "IRQ"} => st \notin ReadStates
  /\ fs # "SERIAL" => ft = "IDLE" /\ ~irq /\ ~decode

(* A burst being written: the word on the port, those in the delay line,   *)
(* the one on the pins and those already in the row are the words of the   *)
(* row that is open.  Row 1, the warm-up's, is never read.                 *)
target == IF cmd = "ACT" THEN row ELSE active

WriteInv ==
  st \in WriteStates =>
    /\ target \in Rows
    /\ Pos <= DrainWait =>
         fs = "W" /\ timeout = Pos /\ widx = Pos /\ target = IF warm THEN 1 ELSE 2 + burst
    /\ Pos <= DrainWait + 1 => own /\ (target # 1 => wdata = Word(target - 2, Pos - 1))
    /\ target # 1 =>
         /\ Pos - 1 \in 1..(DrainWait + 1) => wpipe[1] = Word(target - 2, Pos - 2)
         /\ Pos - 2 \in 1..(DrainWait + 1) => wpipe[2] = Word(target - 2, Pos - 3)
         /\ Pos - 3 \in 1..(DrainWait + 1) => wpipe[3] = Word(target - 2, Pos - 4)
         /\ st = "WR_DATA" =>
              /\ tmr - Skew \in 0..(Len - 1) => dq_out = Word(target - 2, tmr - Skew)
              /\ \A i \in 0..(Len - 1) : i < tmr - Skew => mem[target][i] = Word(target - 2, i)

(* The bursts whose strobe is past are in their rows, but for the last.    *)
Strobed == CASE fs = "WW"                -> burst
             [] fs = "W"                 -> IF warm THEN 0 ELSE IF timeout = 0 THEN burst ELSE burst + 1
             [] fs \in {"IRQ", "SERIAL"} -> NBurst
             [] OTHER                    -> 0
RowDone(b) == \A i \in 0..(Len - 1) : mem[2 + b][i] = Word(b, i)
RowsInv ==
  ~lost => \A b \in 0..(NBurst - 1) :
             b < Strobed => RowDone(b) \/ (st \in WriteStates /\ target = 2 + b)

-----------------------------------------------------------------------------
(* The fetch.  Left bounds the cycles until busy_n is seen, so the serial  *)
(* dump, which keeps the port free, outlasts the fetch.                    *)
Left == CASE st = "IDLE"    -> IF busy_n THEN 0 ELSE IF ref_req THEN TRFC + 2 ELSE 1
          [] st = "REF"     -> TRFC - tmr + 1
          [] st = "PRE"     -> TRP - tmr + TRFC + 2
          [] st = "TWR"     -> TWR - tmr + TRP + TRFC + 2
          [] st = "WR_DATA" -> Len + 1 - tmr + TWR + TRP + TRFC + 2
          [] st = "ACT_WR"  -> TRCD - tmr + Len + 1 + TWR + TRP + TRFC + 2
          [] OTHER          -> 0
Budget == fburst * Slot + TRCD + Len + TWR + TRP + TRFC + 5

FetchInv ==
  fs = "SERIAL" =>
    /\ ft = "IDLE" => \/ ser = 0 /\ irq /\ ~decode /\ st \notin ReadStates
                      \/ ser = 1 /\ ~irq /\ decode /\ st \notin ReadStates
                      \/ ser > 1 /\ ~irq /\ ~decode /\ st \in {"IDLE", "REF"}
    /\ ft # "IDLE" => ~irq /\ ~decode /\ ser > 1
    /\ ft = "REQ" => st \notin ReadStates /\ ser + Left <= Budget
    /\ ft = "READ" => /\ ser <= Budget + 1 + ftimeout
                      /\ st \in {"IDLE", "REF", "PRE"} \cup ReadStates
                      /\ st \in ReadStates => ftimeout = Pos
                      /\ st = "PRE" => ftimeout = TRCD + CL + 4 + Len + tmr
    /\ ft = "DONE" => st \in {"IDLE", "REF"} /\ ser <= Budget + Slot

(* A burst being read: what the chip sends is two registers from data, and *)
(* the index counts the words that came.                                   *)
Sent == \A i \in 0..(Len - 1) : age = i + CL + 1 => dq_in = mem[target][i]
ReadInv ==
  ft = "READ" =>
    /\ ftimeout = 0 => raddr = 2 + fburst /\ idx = 0
    /\ st \in ReadStates => target = 2 + fburst
    /\ st \in {"ACT_RD", "RD"} => idx = 0
    /\ (st = "RD" /\ tmr > 0) \/ st = "RD_DATA" => Sent
    /\ st = "RD_DATA" => idx = tmr /\ (tmr < Len => data = mem[target][tmr])
    /\ ftimeout > 0 /\ ~lost /\ st \notin ReadStates => idx = Len

(* The snapshot, up to the last word that came, is the frame.              *)
Got == fburst * Len + (IF ft = "READ" THEN idx ELSE 0)
Same(n) == bsram[n] = [frame |-> frame, bin |-> n]
SnapInv ==
  /\ ft \in {"REQ", "READ"} /\ ~lost => \A n \in 0..(Bins - 1) : n < Got => Same(n)
  /\ frame_ready => ft = "DONE"
  /\ ft = "DONE" /\ ~lost => \A n \in 0..(Bins - 1) : Same(n)

IInv == /\ TypeOK /\ CmdInv /\ ChipInv /\ HandInv /\ RefreshInv /\ DrainInv /\ WriteInv /\ RowsInv
        /\ FetchInv /\ ReadInv /\ SnapInv

-----------------------------------------------------------------------------
LEMMA Constants ==
  /\ TRCD \in Nat \ {0} /\ CL \in Nat \ {0} /\ TRP \in Nat \ {0} /\ TRFC \in Nat \ {0} /\ TWR \in Nat \ {0}
  /\ TMRD \in Nat \ {0} /\ InitWait \in Nat \ {0} /\ RefreshInterval \in Nat \ {0} /\ Len \in Nat \ {0}
  /\ NBurst \in Nat \ {0} /\ WrAlign \in {0, 1} /\ Skew \in {0, 1} /\ Bins \in Nat /\ Bins > 0
  /\ DrainWait \in Nat /\ Window \in Nat /\ Serial \in Nat \ {0} /\ TRCD + Skew = 3 + WrAlign
  /\ DrainWait + 1 >= Len /\ RefreshInterval >= TMRD
  /\ RefreshInterval > TRCD + CL + Len + TWR + TRP + TRFC + 5
  /\ Window >= TRCD + CL + Len + TWR + TRP + TRFC + 5
  /\ Skew \in Nat /\ WrAlign \in Nat
<1>1. /\ TRCD \in Nat \ {0} /\ CL \in Nat \ {0} /\ TRP \in Nat \ {0} /\ TRFC \in Nat \ {0} /\ TWR \in Nat \ {0}
      /\ TMRD \in Nat \ {0} /\ InitWait \in Nat \ {0} /\ RefreshInterval \in Nat \ {0} /\ Len \in Nat \ {0}
      /\ NBurst \in Nat \ {0} /\ WrAlign \in {0, 1} /\ Skew \in {0, 1}
      /\ DrainWait \in Nat /\ Window \in Nat /\ Serial \in Nat \ {0}
  BY SdramAssumption
<1>2. Bins \in Nat /\ Bins > 0
  <2>1. (NBurst - 1) * Len \in Nat /\ NBurst * Len \in Nat
    BY <1>1
  <2> QED BY <2>1, SdramAssumption
<1>3. RefreshInterval > BurstTime + TRFC + 2 /\ Window >= BurstTime + TRFC + 2
  BY TimingAssumption
<1>4. BurstTime + TRFC + 2 = TRCD + CL + Len + TWR + TRP + TRFC + 5
  BY <1>1 DEF BurstTime
<1> QED BY <1>1, <1>2, <1>3, <1>4, TimingAssumption, AlignAssumption

LEMMA ModuloNext ==
  ASSUME NEW n \in Nat \ {0}, NEW x \in Nat, x < n
  PROVE  (x + 1) % n = IF x = n - 1 THEN 0 ELSE x + 1
OBVIOUS

LEMMA Durations ==
  /\ Duration["INIT_WAIT"] = InitWait /\ Duration["INIT_PRE"] = TRP /\ Duration["INIT_REF1"] = TRFC
  /\ Duration["INIT_REF2"] = TRFC /\ Duration["INIT_LMR"] = TMRD /\ Duration["REF"] = TRFC
  /\ Duration["ACT_RD"] = TRCD /\ Duration["RD"] = CL + 2 /\ Duration["RD_DATA"] = Len + 1
  /\ Duration["ACT_WR"] = TRCD /\ Duration["WR_DATA"] = Len + 1 /\ Duration["TWR"] = TWR
  /\ Duration["PRE"] = TRP
BY DEF Duration

LEMMA Successors ==
  /\ Successor["INIT_WAIT"] = "INIT_PRE" /\ Successor["INIT_PRE"] = "INIT_REF1"
  /\ Successor["INIT_REF1"] = "INIT_REF2" /\ Successor["INIT_REF2"] = "INIT_LMR"
  /\ Successor["INIT_LMR"] = "IDLE" /\ Successor["REF"] = "IDLE" /\ Successor["ACT_RD"] = "RD"
  /\ Successor["RD"] = "RD_DATA" /\ Successor["RD_DATA"] = "PRE" /\ Successor["ACT_WR"] = "WR_DATA"
  /\ Successor["WR_DATA"] = "TWR" /\ Successor["TWR"] = "PRE" /\ Successor["PRE"] = "IDLE"
BY DEF Successor

(* What a cycle does to the controller, state by state.                    *)
Moves(s, d, t) == st = s => IF tmr = d - 1 THEN st' = t /\ tmr' = 0 ELSE st' = s /\ tmr' = tmr + 1

LEMMA ControlStep ==
  ASSUME TypeOK, Controller
  PROVE  /\ Moves("INIT_WAIT", InitWait, "INIT_PRE") /\ Moves("INIT_PRE", TRP, "INIT_REF1")
         /\ Moves("INIT_REF1", TRFC, "INIT_REF2") /\ Moves("INIT_REF2", TRFC, "INIT_LMR")
         /\ Moves("INIT_LMR", TMRD, "IDLE") /\ Moves("REF", TRFC, "IDLE")
         /\ Moves("ACT_RD", TRCD, "RD") /\ Moves("RD", CL + 2, "RD_DATA") /\ Moves("RD_DATA", Len + 1, "PRE")
         /\ Moves("ACT_WR", TRCD, "WR_DATA") /\ Moves("WR_DATA", Len + 1, "TWR") /\ Moves("TWR", TWR, "PRE")
         /\ Moves("PRE", TRP, "IDLE")
         /\ st = "IDLE" => /\ st' = IF sip_wr THEN "ACT_WR" ELSE IF sip_rd THEN "ACT_RD"
                                   ELSE IF ref_req THEN "REF" ELSE "IDLE"
                           /\ tmr' = 0
         /\ cmd' = IF st' = st THEN "NOP" ELSE CommandOf(st')
         /\ st \in States /\ st' \in States /\ tmr \in Nat
<1>1. /\ st' = next_state /\ cmd' = IF st' = st THEN "NOP" ELSE CommandOf(st')
      /\ tmr' = IF st' # st THEN 0 ELSE IF st = "IDLE" THEN 0 ELSE tmr + 1
  BY DEF Controller
<1>2. st \in States /\ tmr \in Nat
  BY Constants DEF TypeOK
<1>3. st = "IDLE" => /\ st' = IF sip_wr THEN "ACT_WR" ELSE IF sip_rd THEN "ACT_RD"
                                   ELSE IF ref_req THEN "REF" ELSE "IDLE"
                     /\ tmr' = 0
  BY <1>1 DEF next_state
<1>4. st # "IDLE" => st' = IF tmr = Duration[st] - 1 THEN Successor[st] ELSE st
  BY <1>1 DEF next_state, LastTick
<1>5. /\ Moves("INIT_WAIT", InitWait, "INIT_PRE") /\ Moves("INIT_PRE", TRP, "INIT_REF1")
      /\ Moves("INIT_REF1", TRFC, "INIT_REF2") /\ Moves("INIT_REF2", TRFC, "INIT_LMR")
      /\ Moves("INIT_LMR", TMRD, "IDLE") /\ Moves("REF", TRFC, "IDLE")
  BY <1>1, <1>4, Durations, Successors DEF Moves
<1>6. /\ Moves("ACT_RD", TRCD, "RD") /\ Moves("RD", CL + 2, "RD_DATA") /\ Moves("RD_DATA", Len + 1, "PRE")
      /\ Moves("ACT_WR", TRCD, "WR_DATA") /\ Moves("WR_DATA", Len + 1, "TWR") /\ Moves("TWR", TWR, "PRE")
      /\ Moves("PRE", TRP, "IDLE")
  BY <1>1, <1>4, Durations, Successors DEF Moves
<1>7. st' \in States
  <2>1. CASE st = "IDLE"
    BY <1>3, <2>1 DEF States
  <2>2. CASE st # "IDLE"
    BY <1>2, <1>5, <1>6, <2>2 DEF States, Moves
  <2> QED BY <2>1, <2>2
<1> QED BY <1>1, <1>2, <1>3, <1>5, <1>6, <1>7

-----------------------------------------------------------------------------
(* The controller and the chip, state by state.                            *)
LEMMA Commands ==
  /\ CommandOf("INIT_WAIT") = "NOP" /\ CommandOf("INIT_PRE") = "PRE" /\ CommandOf("INIT_REF1") = "REF"
  /\ CommandOf("INIT_REF2") = "REF" /\ CommandOf("INIT_LMR") = "LMR" /\ CommandOf("IDLE") = "NOP"
  /\ CommandOf("REF") = "REF" /\ CommandOf("ACT_RD") = "ACT" /\ CommandOf("RD") = "READ"
  /\ CommandOf("RD_DATA") = "NOP" /\ CommandOf("ACT_WR") = "ACT" /\ CommandOf("WR_DATA") = "WRITE"
  /\ CommandOf("TWR") = "NOP" /\ CommandOf("PRE") = "PRE"
BY DEF CommandOf

LEMMA CmdNext ==
  ASSUME TypeOK, CmdInv, Controller
  PROVE  CmdInv'
<1>1. cmd' = IF tmr' = 0 THEN CommandOf(st') ELSE "NOP"
  <2>1. CASE st = "IDLE"
    BY <2>1, ControlStep, Commands
  <2>2. CASE st # "IDLE"
    <3>1. st' = st => tmr' = tmr + 1
      BY <2>2, ControlStep, Constants DEF Moves, States
    <3>2. st' # st => tmr' = 0
      BY <2>2, ControlStep, Constants DEF Moves, States
    <3> QED BY <3>1, <3>2, ControlStep
  <2> QED BY <2>1, <2>2
<1>2. IF st' = "IDLE" THEN tmr' = 0 ELSE tmr' < Duration[st']
  <2>1. CASE st \in {"INIT_WAIT", "INIT_PRE", "INIT_REF1", "INIT_REF2", "INIT_LMR", "REF", "IDLE"}
    BY <2>1, ControlStep, Constants, Durations DEF Moves, CmdInv
  <2>2. CASE st \in {"ACT_RD", "RD", "RD_DATA", "ACT_WR", "WR_DATA", "TWR", "PRE"}
    BY <2>2, ControlStep, Constants, Durations DEF Moves, CmdInv
  <2> QED BY <2>1, <2>2, ControlStep DEF States
<1> QED BY <1>1, <1>2 DEF CmdInv

(* What the chip does in a cycle, once the command is known.               *)
LEMMA ChipStep ==
  ASSUME TypeOK, CmdInv, Chip
  PROVE  /\ age \in Nat /\ age' \in Nat
         /\ cmd = "NOP" => /\ mode' = mode /\ active' = active
                           /\ age' = IF age < AgeCap THEN age + 1 ELSE age
         /\ cmd # "NOP" => age' = 1
         /\ cmd = "ACT" => mode' = "active" /\ active' = row
         /\ cmd = "READ" => mode' = "read" /\ active' = active
         /\ cmd = "WRITE" => mode' = "write" /\ active' = active
         /\ cmd = "PRE" => mode' = "precharged"
         /\ cmd = "REF" => mode' = "refreshed"
         /\ cmd = "LMR" => mode' = "ready"
         /\ cmd \in {"NOP", "ACT", "READ", "WRITE", "PRE", "REF", "LMR"}
         /\ AgeCap = TRCD + CL + Len + TWR + TRP + TRFC + TMRD + 3
<1>1. AgeCap = TRCD + CL + Len + TWR + TRP + TRFC + TMRD + 3
  BY Constants DEF AgeCap, BurstTime
<1>2. age \in Nat
  BY Constants, <1>1 DEF TypeOK
<1>3. cmd \in {"NOP", "ACT", "READ", "WRITE", "PRE", "REF", "LMR"}
  BY Commands DEF CmdInv, TypeOK, States
<1>4. /\ cmd = "NOP" => /\ mode' = mode /\ active' = active
                        /\ age' = IF age < AgeCap THEN age + 1 ELSE age
      /\ cmd # "NOP" => age' = 1
      /\ cmd = "ACT" => mode' = "active" /\ active' = row
      /\ cmd = "READ" => mode' = "read" /\ active' = active
      /\ cmd = "WRITE" => mode' = "write" /\ active' = active
      /\ cmd = "PRE" => mode' = "precharged"
      /\ cmd = "REF" => mode' = "refreshed"
      /\ cmd = "LMR" => mode' = "ready"
  BY DEF Chip
<1>5. age' \in Nat
  BY <1>2, <1>3, <1>4
<1> QED BY <1>1, <1>2, <1>3, <1>4, <1>5

LEMMA ChipNext ==
  ASSUME TypeOK, CmdInv, ChipInv, Controller, Chip
  PROVE  ChipInv'
<1> USE ControlStep, ChipStep, Constants, Durations, Commands DEF Moves, ChipInv, Recovered, CmdInv
<1>1. CASE st = "INIT_WAIT"
  BY <1>1
<1>2. CASE st = "INIT_PRE"
  BY <1>2
<1>3. CASE st = "INIT_REF1"
  BY <1>3
<1>4. CASE st = "INIT_REF2"
  BY <1>4
<1>5. CASE st = "INIT_LMR"
  BY <1>5
<1>6. CASE st = "IDLE"
  BY <1>6
<1>7. CASE st = "REF"
  BY <1>7
<1>8. CASE st = "ACT_RD"
  BY <1>8
<1>9. CASE st = "RD"
  BY <1>9
<1>10. CASE st = "RD_DATA"
  BY <1>10
<1>11. CASE st = "ACT_WR"
  BY <1>11
<1>12. CASE st = "WR_DATA"
  BY <1>12
<1>13. CASE st = "TWR"
  BY <1>13
<1>14. CASE st = "PRE"
  BY <1>14
<1> QED
  BY <1>1, <1>2, <1>3, <1>4, <1>5, <1>6, <1>7, <1>8, <1>9, <1>10, <1>11, <1>12, <1>13, <1>14 DEF States

-----------------------------------------------------------------------------
(* The handshake.                                                          *)
LEMMA RefreshStep ==
  ASSUME TypeOK, Controller
  PROVE  /\ ref_cnt \in Nat /\ ref_cnt < RefreshInterval
         /\ ref_cnt' = IF ref_cnt = RefreshInterval - 1 THEN 0 ELSE ref_cnt + 1
         /\ ref_req' = (st # "REF" /\ (ref_req \/ ref_cnt = RefreshInterval - 1))
         /\ busy_n' = (st' = "IDLE" /\ ~ref_req)
         /\ rd_valid' = (st' = "RD_DATA")
         /\ init_done' = (init_done \/ (st = "INIT_LMR" /\ st' = "IDLE"))
<1>1. ref_cnt \in Nat /\ ref_cnt < RefreshInterval
  BY Constants DEF TypeOK
<1>2. RefreshInterval \in Nat \ {0}
  BY Constants
<1>3. (ref_cnt + 1) % RefreshInterval = IF ref_cnt = RefreshInterval - 1 THEN 0 ELSE ref_cnt + 1
  BY <1>1, <1>2, ModuloNext
<1> QED BY <1>1, <1>3 DEF Controller, ready

(* The strobe is raised in the cycle after busy_n was seen, when no other  *)
(* is up: the controller is then still idle, or begins a refresh.          *)
LEMMA StrobeNext ==
  ASSUME TypeOK, CmdInv, HandInv, Controller, Drain, Fetch, strobe'
  PROVE  /\ busy_n /\ st = "IDLE" /\ ~strobe
         /\ \/ fs = "WW" /\ own' /\ wr'
            \/ ft = "REQ" /\ ~own' /\ rd' /\ ~wr
<1>1. CASE own' /\ wr'
  <2>1. fs = "WW" /\ busy_n
    BY <1>1 DEF Drain, Compute, Settle, WaitReady, Stream, Irq, SerialOut
  <2>2. own /\ ~wr
    BY <2>1 DEF HandInv
  <2> QED BY <1>1, <2>1, <2>2 DEF HandInv, strobe, sip_wr, sip_rd
<1>2. CASE ~own' /\ rd'
  <2>1. ft = "REQ" /\ busy_n
    BY <1>2 DEF Fetch, FetchIdle, FetchReq, FetchRead, ReadUntil, FetchDone
  <2>2. ~rd
    BY <2>1 DEF HandInv
  <2>3. fs # "W"
    BY <1>2 DEF Drain, Compute, Settle, WaitReady, Stream, Irq, SerialOut
  <2>4. ~wr
    BY <2>3 DEF HandInv
  <2> QED BY <1>2, <2>1, <2>2, <2>4 DEF HandInv, strobe, sip_wr, sip_rd
<1> QED BY <1>1, <1>2 DEF strobe, sip_wr, sip_rd

LEMMA HandNext ==
  ASSUME TypeOK, CmdInv, HandInv, Controller, Drain, Fetch
  PROVE  HandInv'
<1>1. busy_n' => st' = "IDLE" /\ (ref_req' => ref_cnt' = 0)
  BY RefreshStep
<1>2. own' <=> fs' \in {"SETTLE", "WW", "W", "IRQ"}
  BY DEF HandInv, Drain, Compute, Settle, WaitReady, Stream, Irq, SerialOut
<1>3. wr' <=> fs' = "W" /\ timeout' = 0
  BY Constants DEF TypeOK, Drain, Compute, Settle, WaitReady, Stream, Irq, SerialOut
<1>4. rd' <=> ft' = "READ" /\ ftimeout' = 0
  <2>1. ftimeout \in Nat /\ Window \in Nat /\ Window > 0
    BY Constants DEF TypeOK
  <2>2. CASE FetchIdle
    BY <2>2 DEF FetchIdle
  <2>3. CASE FetchReq
    BY <2>3 DEF FetchReq
  <2>4. CASE FetchRead
    BY <2>1, <2>4 DEF FetchRead, ReadUntil
  <2>5. CASE FetchDone
    BY <2>5 DEF FetchDone
  <2> QED BY <2>2, <2>3, <2>4, <2>5 DEF Fetch
<1>5. ASSUME strobe'
      PROVE  \/ st' = "IDLE" /\ (ref_req' => ref_cnt' = 0)
             \/ st' = "REF" /\ tmr' = 0
  <2>1. st = "IDLE" /\ ~sip_wr /\ ~sip_rd
    BY <1>5, StrobeNext DEF strobe
  <2> QED BY <2>1, ControlStep, RefreshStep
<1>6. rd_valid' <=> st' = "RD_DATA"
  BY RefreshStep
<1>7. init_done' <=> st' \notin InitStates
  BY RefreshStep, ControlStep, Constants DEF HandInv, InitStates, Moves, States
<1> QED BY <1>1, <1>2, <1>3, <1>4, <1>5, <1>6, <1>7 DEF HandInv

-----------------------------------------------------------------------------
(* The refreshes.                                                          *)
LEMMA UnrefreshedStep ==
  ASSUME TypeOK, CmdInv, Chip
  PROVE  /\ unrefreshed \in Nat /\ unrefreshed' \in Nat
         /\ unrefreshed' <= unrefreshed + 1
         /\ st \in {"INIT_REF1", "INIT_REF2", "REF"} /\ tmr = 0 => unrefreshed' = 1
<1>1. unrefreshed \in Nat
  BY Constants DEF TypeOK, MaxGap, BurstTime
<1>2. MaxGap \in Nat
  BY Constants DEF MaxGap, BurstTime
<1>3. st \in {"INIT_REF1", "INIT_REF2", "REF"} /\ tmr = 0 => cmd = "REF"
  BY Commands DEF CmdInv
<1>4. unrefreshed' = IF cmd = "REF" THEN 1 ELSE IF unrefreshed <= MaxGap THEN unrefreshed + 1 ELSE unrefreshed
  BY DEF Chip
<1> QED BY <1>1, <1>2, <1>3, <1>4

LEMMA RefreshNext ==
  ASSUME TypeOK, CmdInv, HandInv, RefreshInv, Controller, Chip, Drain, Fetch
  PROVE  RefreshInv'
<1>1. /\ strobe' => busy_n /\ st = "IDLE"
      /\ strobe \in BOOLEAN /\ (strobe <=> sip_wr \/ sip_rd)
  BY StrobeNext DEF strobe, sip_wr, sip_rd
<1>2. /\ BurstTime = TRCD + CL + 2 + Len + 1 + TWR + TRP
      /\ ref_req \in BOOLEAN /\ init_done \in BOOLEAN /\ busy_n \in BOOLEAN
  BY DEF BurstTime, TypeOK
<1> USE <1>1, <1>2, ControlStep, RefreshStep, UnrefreshedStep, Constants DEF Moves
<1>3. InitRefreshes'
  <2> st # "REF" => ref_req' \/ ref_cnt' >= 1
    <3>1. st # "REF" /\ ref_cnt = RefreshInterval - 1 => ref_req'
      BY RefreshStep
    <3>2. ref_cnt # RefreshInterval - 1 => ref_cnt' >= 1
      BY RefreshStep
    <3> QED BY <3>1, <3>2
  <2>1. CASE st = "INIT_WAIT"
    BY <2>1 DEF InitRefreshes
  <2>2. CASE st = "INIT_PRE"
    BY <2>2 DEF InitRefreshes, RefreshInv
  <2>3. CASE st = "INIT_REF1"
    BY <2>3 DEF InitRefreshes, RefreshInv
  <2>4. CASE st = "INIT_REF2"
    BY <2>4, Durations DEF InitRefreshes, RefreshInv, CmdInv
  <2>5. CASE st = "INIT_LMR"
    BY <2>5 DEF InitRefreshes, RefreshInv
  <2>6. CASE st \notin InitStates
    BY <2>6 DEF InitRefreshes, InitStates, States
  <2> QED BY <2>1, <2>2, <2>3, <2>4, <2>5, <2>6 DEF InitStates
<1> USE DEF HandInv, RefreshInv, Younger, CmdInv, InitStates
<1>4. CASE st \in {"INIT_WAIT", "INIT_PRE", "INIT_REF1", "INIT_REF2"}
  <2>1. ~init_done' /\ st' # "REF"
    BY <1>4
  <2> QED BY <1>3, <2>1
<1>7. CASE st = "INIT_LMR"
  <2>1. CASE st' = "INIT_LMR"
    BY <1>3, <1>7, <2>1
  <2>2. CASE st' # "INIT_LMR"
    <3>1. st' = "IDLE" /\ ~strobe' /\ tmr = TMRD - 1
      BY <1>7, <2>2
    <3>2. /\ unrefreshed' <= TRFC + TMRD
          /\ ~ref_req => unrefreshed' <= ref_cnt + 1
      BY <1>7, <3>1 DEF InitRefreshes
    <3> QED BY <1>3, <1>7, <3>1, <3>2
  <2> QED BY <2>1, <2>2
<1>8. CASE st = "IDLE"
  BY <1>3, <1>8, Durations
<1>9. CASE st = "REF"
  BY <1>3, <1>9, Durations
<1>10. CASE st = "ACT_RD"
  BY <1>3, <1>10, Durations
<1>11. CASE st = "RD"
  BY <1>3, <1>11, Durations
<1>12. CASE st = "RD_DATA"
  BY <1>3, <1>12, Durations
<1>13. CASE st = "ACT_WR"
  BY <1>3, <1>13, Durations
<1>14. CASE st = "WR_DATA"
  BY <1>3, <1>14, Durations
<1>15. CASE st = "TWR"
  BY <1>3, <1>15, Durations
<1>16. CASE st = "PRE"
  BY <1>3, <1>16, Durations
<1> QED
  BY <1>4, <1>7, <1>8, <1>9, <1>10, <1>11, <1>12, <1>13, <1>14, <1>15, <1>16 DEF States

-----------------------------------------------------------------------------
(* The serial dump outlasts the fetch.                                     *)
LEMMA SlotBounds ==
  ASSUME TypeOK
  PROVE  /\ Slot \in Nat /\ Slot = Window + TRFC + 4
         /\ fburst \in Nat /\ fburst < NBurst /\ fburst * Slot \in Nat
         /\ (fburst + 1) * Slot = fburst * Slot + Slot
         /\ Serial >= fburst * Slot + Slot + Slot
         /\ Budget = fburst * Slot + TRCD + Len + TWR + TRP + TRFC + 5
         /\ Budget + CL <= fburst * Slot + Window
<1>1. Slot \in Nat /\ Slot = Window + TRFC + 4
  BY Constants DEF Slot
<1>2. fburst \in Nat /\ fburst < NBurst
  BY Constants DEF TypeOK
<1>3. \A a, b, s \in Nat : (a + 1) * s = a * s + s /\ (a <= b => a * s <= b * s) /\ a * s \in Nat
  OBVIOUS
<1>4. fburst * Slot \in Nat /\ (fburst + 1) * Slot = fburst * Slot + Slot
  BY <1>1, <1>2, <1>3
<1>5. (fburst + 2) * Slot <= (NBurst + 1) * Slot
  BY <1>1, <1>2, <1>3, Constants
<1>6. (fburst + 2) * Slot = fburst * Slot + Slot + Slot
  <2>1. (fburst + 1) + 1 = fburst + 2 /\ fburst + 1 \in Nat
    BY <1>2
  <2>2. ((fburst + 1) + 1) * Slot = (fburst + 1) * Slot + Slot
    BY <1>1, <1>3, <2>1
  <2> QED BY <1>4, <2>1, <2>2
<1>7. Serial >= (NBurst + 1) * Slot
  BY TimingAssumption
<1>8. (NBurst + 1) * Slot \in Nat
  BY <1>1, Constants
<1>9. Serial >= fburst * Slot + Slot + Slot
  BY <1>1, <1>4, <1>5, <1>6, <1>7, <1>8, Constants
<1>10. Budget = fburst * Slot + TRCD + Len + TWR + TRP + TRFC + 5
  BY DEF Budget
<1> HIDE DEF Slot
<1> QED BY <1>1, <1>2, <1>4, <1>9, <1>10, Constants

LEMMA LeftIsNat ==
  ASSUME TypeOK, CmdInv
  PROVE  Left \in Nat
<1>1. tmr \in Nat /\ st \in States
  BY Constants DEF TypeOK
<1> QED BY <1>1, Constants, Durations DEF CmdInv, Left, States

LEMMA SerialEnds ==
  ASSUME TypeOK, CmdInv, FetchInv, Fetch, fs = "SERIAL", ser = Serial - 1
  PROVE  ft = "IDLE" /\ ser > 1
<1>1. ser \in Nat /\ ftimeout \in Nat /\ ftimeout <= Window
  BY Constants DEF TypeOK
<1> ft \in {"IDLE", "REQ", "READ", "DONE"}
  BY DEF Fetch, FetchIdle, FetchReq, FetchRead, ReadUntil, FetchDone
<1>2. ft \notin {"REQ", "READ", "DONE"}
  BY <1>1, SlotBounds, LeftIsNat, Constants DEF FetchInv
<1>3. ser > 1
  BY <1>1, SlotBounds, Constants
<1> QED BY <1>1, <1>2, <1>3

-----------------------------------------------------------------------------
(* The drain.                                                              *)
LEMMA DrainNext ==
  ASSUME TypeOK, CmdInv, HandInv, DrainInv, FetchInv, Controller, Drain, Fetch
  PROVE  DrainInv'
<1>1. CASE Compute
  <2>1. /\ st' \in InitStates \cup {"IDLE", "REF"} /\ ~sip_wr /\ ~sip_rd
    BY <1>1, ControlStep DEF Compute, DrainInv, HandInv, sip_wr, sip_rd, Moves, InitStates
  <2>2. ft' = "IDLE" /\ ~irq' /\ ~decode'
    BY <1>1 DEF Compute, DrainInv, Fetch, FetchIdle, FetchReq, FetchRead, ReadUntil, FetchDone
  <2> QED BY <1>1, <2>1, <2>2 DEF Compute, DrainInv
<1>2. CASE Settle
  <2>1. /\ st' \in InitStates \cup {"IDLE", "REF"} /\ ~sip_wr /\ ~sip_rd
    BY <1>2, ControlStep DEF Settle, DrainInv, HandInv, sip_wr, sip_rd, Moves, InitStates
  <2>2. ft' = "IDLE" /\ ~irq' /\ ~decode'
    BY <1>2 DEF Settle, drainRest, DrainInv, Fetch, FetchIdle, FetchReq, FetchRead, ReadUntil, FetchDone
  <2>3. init_done => init_done'
    BY RefreshStep
  <2> QED BY <1>2, <2>1, <2>2, <2>3 DEF Settle, drainRest, DrainInv, InitStates, ReadStates
<1>3. CASE WaitReady
  <2>1. st' \notin ReadStates
    BY <1>3, ControlStep DEF WaitReady, DrainInv, HandInv, sip_rd, Moves, ReadStates, States
  <2>2. ft' = "IDLE" /\ ~irq' /\ ~decode'
    BY <1>3 DEF WaitReady, drainRest, DrainInv, Fetch, FetchIdle, FetchReq, FetchRead, ReadUntil, FetchDone
  <2>3. init_done'
    BY <1>3, RefreshStep DEF DrainInv, WaitReady
  <2>4. Word(burst, 0)' = Word(burst, 0)
    BY <1>3 DEF WaitReady, drainRest, Word, Bin
  <2> QED BY <1>3, <2>1, <2>2, <2>3, <2>4 DEF WaitReady, drainRest, DrainInv
<1>4. CASE Stream
  <2>1. st' \notin ReadStates
    BY <1>4, ControlStep DEF Stream, DrainInv, HandInv, sip_rd, Moves, ReadStates, States
  <2>2. ft' = "IDLE" /\ ~irq' /\ ~decode'
    BY <1>4 DEF Stream, drainRest, DrainInv, Fetch, FetchIdle, FetchReq, FetchRead, ReadUntil, FetchDone
  <2>3. init_done'
    BY <1>4, RefreshStep DEF DrainInv, Stream
  <2>4. timeout \in Nat /\ DrainWait \in Nat
    BY Constants DEF TypeOK
  <2> QED BY <1>4, <2>1, <2>2, <2>3, <2>4 DEF Stream, drainRest, DrainInv
<1>5. CASE Irq
  <2>1. init_done'
    BY <1>5, RefreshStep DEF DrainInv, Irq
  <2> QED BY <1>5, <2>1 DEF Irq, DrainInv
<1>6. CASE SerialOut
  <2>1. init_done'
    BY <1>6, RefreshStep DEF DrainInv, SerialOut
  <2>2. CASE ser = Serial - 1
    <3>1. /\ ft = "IDLE" /\ ~irq /\ ~decode /\ st \in {"IDLE", "REF"} /\ ~wr /\ ~rd
      BY <1>6, <2>2, SerialEnds DEF SerialOut, FetchInv, HandInv
    <3>2. st' \in {"IDLE", "REF"}
      BY <3>1, ControlStep DEF Moves, sip_wr, sip_rd
    <3>3. ft' = "IDLE" /\ ~irq' /\ ~decode'
      BY <1>6, <3>1 DEF SerialOut, Fetch, FetchIdle, FetchReq, FetchRead, ReadUntil, FetchDone
    <3> QED BY <1>6, <2>1, <2>2, <3>2, <3>3 DEF SerialOut, DrainInv
  <2>3. CASE ser # Serial - 1
    BY <1>6, <2>1, <2>3 DEF SerialOut, DrainInv
  <2> QED BY <2>2, <2>3
<1> QED BY <1>1, <1>2, <1>3, <1>4, <1>5, <1>6 DEF Drain

-----------------------------------------------------------------------------
(* A burst being written.                                                  *)
LEMMA FrameKeeps ==
  ASSUME Drain, DrainInv, fs # "COMPUTE" \/ st \in WriteStates
  PROVE  frame' = frame /\ \A b, i : [frame |-> frame', bin |-> Bin(b, i)] = Word(b, i)
<1>1. fs # "COMPUTE"
  BY DEF DrainInv, WriteStates, InitStates
<1>2. frame' = frame
  BY <1>1 DEF Drain, Compute, Settle, WaitReady, Stream, Irq, SerialOut, drainRest
<1> QED BY <1>2 DEF Word

LEMMA TargetType ==
  ASSUME TypeOK
  PROVE  target \in Rows \cup {0} /\ target \in Int
BY Constants DEF TypeOK, target, Rows

LEMMA TargetStays ==
  ASSUME CmdInv, TypeOK, Chip, Controller,
         \/ st \in WriteStates /\ st' \in WriteStates
         \/ st \in ReadStates /\ st' \in ReadStates
  PROVE  target' = target
<1>1. cmd' # "ACT"
  BY ControlStep, Commands, Constants DEF WriteStates, ReadStates, Moves
<1>2. cmd \in {"ACT", "NOP", "READ", "WRITE"}
  BY Commands DEF CmdInv, WriteStates, ReadStates
<1> QED BY <1>1, <1>2, ChipStep DEF target

(* The word on the pins goes to its place in the row.                      *)
LEMMA MemStep ==
  ASSUME TypeOK, CmdInv, ChipInv, Chip, target \in Rows,
         NEW r \in Rows, NEW i \in 0..(Len - 1)
  PROVE  mem'[r][i] = IF st = "WR_DATA" /\ r = target /\ i = tmr - Skew THEN dq_out ELSE mem[r][i]
<1>1. CASE st # "WR_DATA"
  BY <1>1 DEF Chip
<1>2. CASE st = "WR_DATA"
  <2>1. cmd = "WRITE" \/ mode = "write"
    BY <1>2, Commands, Constants DEF CmdInv, ChipInv, TypeOK
  <2>2. Beat = tmr - Skew
    BY <1>2, Commands, Constants DEF CmdInv, ChipInv, TypeOK, Beat
  <2>3. target = active
    BY <1>2, Commands DEF CmdInv, target
  <2>4. mem' = IF tmr - Skew \in 0..(Len - 1) THEN [mem EXCEPT ![target][tmr - Skew] = dq_out] ELSE mem
    BY <1>2, <2>1, <2>2, <2>3 DEF Chip
  <2>5. mem \in [Rows -> [0..(Len - 1) -> Words]]
    BY DEF TypeOK
  <2> QED BY <1>2, <2>4, <2>5
<1> QED BY <1>1, <1>2

LEMMA WritePos ==
  ASSUME TypeOK, CmdInv, st \in WriteStates
  PROVE  /\ Pos \in Nat /\ Pos >= 1 /\ tmr \in Nat
         /\ st = "WR_DATA" => Pos = 1 + TRCD + tmr
         /\ st = "ACT_WR" => Pos = 1 + tmr
<1>1. tmr \in Nat
  BY Constants DEF TypeOK
<1>2. CASE st = "WR_DATA"
  <2>1. Pos = 1 + TRCD + tmr
    BY <1>2 DEF Pos
  <2> QED BY <1>1, <1>2, <2>1, Constants
<1>3. CASE st = "ACT_WR"
  <2>1. Pos = 1 + tmr
    BY <1>3 DEF Pos
  <2> QED BY <1>1, <1>3, <2>1, Constants
<1> QED BY <1>2, <1>3 DEF WriteStates

LEMMA WriteBegins ==
  ASSUME TypeOK, CmdInv, HandInv, DrainInv, Controller, Chip, Drain,
         st \notin WriteStates, st' \in WriteStates
  PROVE  WriteInv'
<1>1. st = "IDLE" /\ sip_wr /\ st' = "ACT_WR" /\ tmr' = 0
  BY ControlStep, Constants DEF WriteStates, States, Moves
<1>2. own /\ fs = "W" /\ timeout = 0 /\ widx = 0 /\ wdata = Word(burst, 0) /\ waddr = IF warm THEN 1 ELSE 2 + burst
  BY <1>1 DEF HandInv, DrainInv, sip_wr
<1>3. cmd' = "ACT" /\ row' = waddr
  BY <1>1, <1>2, ControlStep, Commands DEF Controller, sip_row
<1>4. target' = IF warm THEN 1 ELSE 2 + burst
  BY <1>2, <1>3 DEF target
<1>5. burst \in Nat /\ burst < NBurst /\ DrainWait \in Nat /\ NBurst \in Nat \ {0}
  BY Constants DEF TypeOK
<1>6. target' \in Rows /\ target' \in Int
  BY <1>4, <1>5 DEF Rows
<1>7. Pos' = 1
  BY <1>1 DEF Pos
<1>8. /\ own' /\ wdata' = Word(burst, 0)
      /\ DrainWait # 0 => fs' = "W" /\ timeout' = 1 /\ widx' = 1 /\ warm' = warm /\ burst' = burst
  BY <1>2, <1>5 DEF Drain, Compute, Settle, WaitReady, Stream, Irq, SerialOut
<1>9. \A b, i : [frame |-> frame', bin |-> Bin(b, i)] = Word(b, i)
  BY <1>2, FrameKeeps
<1>10. target' # 1 => [frame |-> frame', bin |-> Bin(target' - 2, Pos' - 1)] = Word(burst, 0)
  <2>1. target' # 1 => target' - 2 = burst /\ Pos' - 1 = 0
    BY <1>4, <1>5, <1>7
  <2> QED BY <2>1, <1>9
<1>11. target' # 1 => Word(target - 2, Pos - 1)' = wdata'
  BY <1>8, <1>10 DEF Word
<1>12. Pos' <= DrainWait => fs' = "W" /\ timeout' = Pos' /\ widx' = Pos' /\ target' = IF warm' THEN 1 ELSE 2 + burst'
  BY <1>4, <1>5, <1>7, <1>8
<1>13. Pos' <= DrainWait + 1 => own' /\ (target' # 1 => wdata' = Word(target - 2, Pos - 1)')
  BY <1>8, <1>11
<1>14. /\ Pos' - 1 \notin 1..(DrainWait + 1) /\ Pos' - 2 \notin 1..(DrainWait + 1)
       /\ Pos' - 3 \notin 1..(DrainWait + 1) /\ st' # "WR_DATA"
  BY <1>1, <1>5, <1>7
<1> QED BY <1>6, <1>12, <1>13, <1>14 DEF WriteInv

LEMMA WriteSteps ==
  ASSUME TypeOK, CmdInv, HandInv, Controller, st \in WriteStates, st' \in WriteStates
  PROVE  /\ Pos' = Pos + 1 /\ tmr' \in Nat
         /\ st' = "WR_DATA" => Pos = TRCD + tmr' /\ (tmr' > 0 => st = "WR_DATA" /\ tmr' = tmr + 1)
         /\ st = "WR_DATA" => st' = "WR_DATA"
<1> USE WritePos, Constants, ControlStep DEF Moves
<1>1. CASE st = "WR_DATA"
  <2>1. st' = "WR_DATA" /\ tmr' = tmr + 1
    BY <1>1 DEF WriteStates
  <2>2. Pos' = 1 + TRCD + tmr'
    BY <2>1 DEF Pos
  <2> QED BY <1>1, <2>1, <2>2
<1>2. CASE st = "ACT_WR" /\ st' = "ACT_WR"
  <2>1. tmr' = tmr + 1
    BY <1>2
  <2>2. Pos' = 1 + tmr'
    BY <1>2 DEF Pos
  <2> QED BY <1>2, <2>1, <2>2
<1>3. CASE st = "ACT_WR" /\ st' = "WR_DATA"
  <2>1. tmr' = 0 /\ tmr = TRCD - 1
    BY <1>3
  <2>2. Pos' = 1 + TRCD + tmr'
    BY <1>3 DEF Pos
  <2> QED BY <1>3, <2>1, <2>2
<1> QED BY <1>1, <1>2, <1>3 DEF WriteStates

(* The drain while it streams.                                             *)
LEMMA StreamStep ==
  ASSUME TypeOK, Drain, fs = "W"
  PROVE  /\ own' /\ wdata' = Word(burst, widx)
         /\ timeout # DrainWait => /\ fs' = "W" /\ timeout' = timeout + 1 /\ widx' = widx + 1
                                   /\ warm' = warm /\ burst' = burst
BY DEF Drain, Compute, Settle, WaitReady, Stream, Irq, SerialOut

LEMMA WriteContinues ==
  ASSUME TypeOK, CmdInv, ChipInv, HandInv, DrainInv, WriteInv, Controller, Chip, Drain,
         st \in WriteStates, st' \in WriteStates
  PROVE  WriteInv'
<1>1. target' = target /\ target \in Rows /\ target \in Int
  BY TargetStays, TargetType DEF WriteInv
<1>2. /\ Pos \in Nat /\ Pos >= 1 /\ Pos' = Pos + 1 /\ tmr \in Nat /\ tmr' \in Nat
      /\ st' = "WR_DATA" => Pos = TRCD + tmr' /\ (tmr' > 0 => st = "WR_DATA" /\ tmr' = tmr + 1)
  BY WritePos, WriteSteps
<1> /\ TRCD \in Nat /\ Skew \in Nat /\ WrAlign \in Nat /\ Len \in Nat /\ DrainWait \in Nat
    /\ TRCD + Skew = 3 + WrAlign /\ DrainWait + 1 >= Len /\ WrAlign \in {0, 1}
  BY Constants
<1>3. \A b, i : [frame |-> frame', bin |-> Bin(b, i)] = Word(b, i)
  BY FrameKeeps
<1>5. Pos' <= DrainWait =>
        fs' = "W" /\ timeout' = Pos' /\ widx' = Pos' /\ target' = IF warm' THEN 1 ELSE 2 + burst'
  <2> SUFFICES ASSUME Pos' <= DrainWait
               PROVE  fs' = "W" /\ timeout' = Pos' /\ widx' = Pos' /\ target' = IF warm' THEN 1 ELSE 2 + burst'
    OBVIOUS
  <2>1. Pos <= DrainWait /\ Pos # DrainWait
    BY <1>2
  <2>2. fs = "W" /\ timeout = Pos /\ widx = Pos /\ target = IF warm THEN 1 ELSE 2 + burst
    BY <2>1 DEF WriteInv
  <2> QED BY <1>1, <1>2, <2>1, <2>2, StreamStep
<1>6. Pos' <= DrainWait + 1 => own' /\ (target' # 1 => wdata' = Word(target - 2, Pos - 1)')
  <2> SUFFICES ASSUME Pos' <= DrainWait + 1
               PROVE  own' /\ (target' # 1 => wdata' = Word(target - 2, Pos - 1)')
    OBVIOUS
  <2>1. Pos <= DrainWait
    BY <1>2
  <2>2. fs = "W" /\ widx = Pos /\ target = IF warm THEN 1 ELSE 2 + burst
    BY <2>1 DEF WriteInv
  <2>3. own' /\ wdata' = Word(burst, Pos)
    BY <2>2, StreamStep
  <2>4. burst \in Nat
    BY Constants DEF TypeOK
  <2>5. target' # 1 => target' - 2 = burst /\ Pos' - 1 = Pos
    BY <1>1, <1>2, <2>2, <2>4
  <2>6. target' # 1 => Word(target - 2, Pos - 1)' = [frame |-> frame', bin |-> Bin(burst, Pos)]
    BY <2>5 DEF Word
  <2> QED BY <1>3, <2>3, <2>6
<1>7. ASSUME target' # 1
      PROVE  /\ Pos' - 1 \in 1..(DrainWait + 1) => wpipe'[1] = Word(target - 2, Pos - 2)'
             /\ Pos' - 2 \in 1..(DrainWait + 1) => wpipe'[2] = Word(target - 2, Pos - 3)'
             /\ Pos' - 3 \in 1..(DrainWait + 1) => wpipe'[3] = Word(target - 2, Pos - 4)'
             /\ st' = "WR_DATA" /\ tmr' - Skew \in 0..(Len - 1) => dq_out' = Word(target - 2, tmr - Skew)'
  <2>1. wpipe' = <<sip_data, wpipe[1], wpipe[2]>>
    BY DEF Controller
  <2>2. target # 1
    BY <1>1, <1>7
  <2>3. Pos' - 1 \in 1..(DrainWait + 1) => wpipe'[1] = Word(target - 2, Pos - 2)'
    <3> SUFFICES ASSUME Pos' - 1 \in 1..(DrainWait + 1)
                 PROVE  wpipe'[1] = Word(target - 2, Pos - 2)'
      OBVIOUS
    <3>1. Pos <= DrainWait + 1 /\ Pos' - 2 = Pos - 1
      BY <1>2
    <3>2. sip_data = Word(target - 2, Pos - 1)
      BY <2>2, <3>1 DEF WriteInv, sip_data
    <3> QED BY <1>1, <1>3, <2>1, <3>1, <3>2 DEF Word
  <2>4. Pos' - 2 \in 1..(DrainWait + 1) => wpipe'[2] = Word(target - 2, Pos - 3)'
    <3> SUFFICES ASSUME Pos' - 2 \in 1..(DrainWait + 1)
                 PROVE  wpipe'[2] = Word(target - 2, Pos - 3)'
      OBVIOUS
    <3>1. Pos - 1 \in 1..(DrainWait + 1) /\ Pos' - 3 = Pos - 2
      BY <1>2
    <3>2. wpipe[1] = Word(target - 2, Pos - 2)
      BY <2>2, <3>1 DEF WriteInv
    <3> QED BY <1>1, <1>3, <2>1, <3>1, <3>2 DEF Word
  <2>5. Pos' - 3 \in 1..(DrainWait + 1) => wpipe'[3] = Word(target - 2, Pos - 4)'
    <3> SUFFICES ASSUME Pos' - 3 \in 1..(DrainWait + 1)
                 PROVE  wpipe'[3] = Word(target - 2, Pos - 4)'
      OBVIOUS
    <3>1. Pos - 2 \in 1..(DrainWait + 1) /\ Pos' - 4 = Pos - 3
      BY <1>2
    <3>2. wpipe[2] = Word(target - 2, Pos - 3)
      BY <2>2, <3>1 DEF WriteInv
    <3> QED BY <1>1, <1>3, <2>1, <3>1, <3>2 DEF Word
  <2>6. ASSUME st' = "WR_DATA", tmr' - Skew \in 0..(Len - 1)
        PROVE  dq_out' = Word(target - 2, tmr - Skew)'
    <3> PICK t \in Nat : tmr' = t
      BY <1>2
    <3>1. Pos = TRCD + t /\ t - Skew \in 0..(Len - 1) /\ Pos' = Pos + 1
      BY <1>2, <2>6
    <3>2. dq_out' = wpipe[2 + WrAlign]
      BY <2>6 DEF Controller
    <3>3. CASE WrAlign = 0
      <4>1. Pos - 2 \in 1..(DrainWait + 1) /\ Pos - 3 = t - Skew
        BY <3>1, <3>3
      <4>2. dq_out' = Word(target - 2, Pos - 3)
        BY <2>2, <3>2, <3>3, <4>1 DEF WriteInv
      <4> QED BY <1>1, <1>3, <4>1, <4>2 DEF Word
    <3>4. CASE WrAlign = 1
      <4>1. Pos - 3 \in 1..(DrainWait + 1) /\ Pos - 4 = t - Skew
        BY <3>1, <3>4
      <4>2. dq_out' = Word(target - 2, Pos - 4)
        BY <2>2, <3>2, <3>4, <4>1 DEF WriteInv
      <4> QED BY <1>1, <1>3, <4>1, <4>2 DEF Word
    <3> QED BY <3>3, <3>4
  <2> QED BY <2>3, <2>4, <2>5, <2>6
<1>8. ASSUME target' # 1, st' = "WR_DATA", NEW i \in 0..(Len - 1), i < tmr' - Skew
      PROVE  mem'[target'][i] = Word(target - 2, i)'
  <2>1. st = "WR_DATA" /\ tmr' = tmr + 1
    <3> PICK t \in Nat : tmr' = t
      BY <1>2
    <3>1. t > 0
      BY <1>8
    <3> QED BY <1>2, <1>8, <3>1
  <2>2. target # 1
    BY <1>1, <1>8
  <2>3. mem'[target][i] = IF i = tmr - Skew THEN dq_out ELSE mem[target][i]
    BY <1>1, <2>1, MemStep
  <2>4. i = tmr - Skew \/ i < tmr - Skew
    BY <1>2, <1>8, <2>1
  <2>5. mem'[target][i] = Word(target - 2, i)
    BY <2>1, <2>2, <2>3, <2>4 DEF WriteInv
  <2> QED BY <1>1, <1>3, <2>5 DEF Word
<1> QED BY <1>1, <1>5, <1>6, <1>7, <1>8 DEF WriteInv

LEMMA WriteNext ==
  ASSUME TypeOK, CmdInv, ChipInv, HandInv, DrainInv, WriteInv, Controller, Chip, Drain
  PROVE  WriteInv'
<1>1. CASE st' \notin WriteStates
  BY <1>1 DEF WriteInv
<1> QED BY <1>1, WriteBegins, WriteContinues

(* Rows fill up while they are written and stay as they are afterwards.    *)
LEMMA StrobedStep ==
  ASSUME TypeOK, DrainInv, Drain, NEW b \in 0..(NBurst - 1), b < Strobed'
  PROVE  /\ fs \notin {"COMPUTE", "SETTLE"}
         /\ b < Strobed \/ (fs = "W" /\ timeout = 0 /\ ~warm /\ b = burst)
<1>1. burst \in Nat /\ NBurst \in Nat \ {0} /\ timeout \in Nat /\ DrainWait \in Nat /\ b \in Nat /\ b < NBurst
  BY Constants DEF TypeOK
<1>2. CASE Compute
  BY <1>1, <1>2 DEF Compute, Strobed
<1>3. CASE Settle
  BY <1>1, <1>3 DEF Settle, Strobed, DrainInv
<1>4. CASE WaitReady
  BY <1>1, <1>4 DEF WaitReady, Strobed, DrainInv
<1>5. CASE Stream
  <2>1. CASE warm
    BY <1>1, <1>5, <2>1 DEF Stream, Strobed, DrainInv
  <2>2. CASE ~warm
    <3> DEFINE new == IF timeout = 0 THEN burst ELSE burst + 1
    <3>1. Strobed = new /\ fs = "W"
      BY <1>5, <2>2 DEF Stream, Strobed
    <3>2. Strobed' = burst + 1
      <4>1. CASE timeout # DrainWait
        <5>1. fs' = "W" /\ warm' = warm /\ burst' = burst /\ timeout' # 0
          BY <1>1, <1>5, <4>1 DEF Stream
        <5> QED BY <2>2, <5>1 DEF Strobed
      <4>2. CASE timeout = DrainWait /\ burst # NBurst - 1
        <5>1. fs' = "WW" /\ burst' = burst + 1
          BY <1>5, <2>2, <4>2 DEF Stream
        <5> QED BY <5>1 DEF Strobed
      <4>3. CASE timeout = DrainWait /\ burst = NBurst - 1
        <5>1. fs' = "IRQ" /\ burst + 1 = NBurst
          BY <1>1, <1>5, <2>2, <4>3 DEF Stream
        <5> QED BY <5>1 DEF Strobed
      <4> QED BY <4>1, <4>2, <4>3
    <3>3. b < burst + 1
      BY <3>2
    <3> QED BY <1>1, <2>2, <3>1, <3>3
  <2> QED BY <2>1, <2>2
<1>6. CASE Irq
  BY <1>1, <1>6 DEF Irq, Strobed
<1>7. CASE SerialOut
  BY <1>1, <1>7 DEF SerialOut, Strobed
<1> QED BY <1>2, <1>3, <1>4, <1>5, <1>6, <1>7 DEF Drain

LEMMA RowsNext ==
  ASSUME TypeOK, CmdInv, ChipInv, HandInv, DrainInv, WriteInv, RowsInv, Controller, Chip, Drain, Past
  PROVE  RowsInv'
<1> SUFFICES ASSUME ~lost', NEW b \in 0..(NBurst - 1), b < Strobed'
             PROVE  RowDone(b)' \/ (st' \in WriteStates /\ target' = 2 + b)
  BY DEF RowsInv
<1>1. /\ fs \notin {"COMPUTE", "SETTLE"}
      /\ b < Strobed \/ (fs = "W" /\ timeout = 0 /\ ~warm /\ b = burst)
  BY StrobedStep
<1>2. ~lost /\ ~missed
  BY <1>1 DEF Past
<1>3. \A c, i : [frame |-> frame', bin |-> Bin(c, i)] = Word(c, i)
  BY <1>1, FrameKeeps
<1>4. CASE fs = "W" /\ timeout = 0 /\ ~warm /\ b = burst
  <2>1. sip_wr /\ st = "IDLE" /\ waddr = 2 + b /\ own
    BY <1>2, <1>4 DEF HandInv, DrainInv, sip_wr, missed
  <2>2. st' = "ACT_WR" /\ cmd' = "ACT"
    BY <2>1, ControlStep, Commands
  <2>3. row' = waddr
    BY <2>1, <2>2, ControlStep, Commands DEF Controller, sip_row
  <2> QED BY <2>1, <2>2, <2>3 DEF target, WriteStates
<1>5. CASE RowDone(b)
  <2>1. SUFFICES ASSUME NEW i \in 0..(Len - 1)
                 PROVE  mem'[2 + b][i] = Word(b, i)
    BY <1>3 DEF RowDone, Word
  <2>2. mem[2 + b][i] = Word(b, i)
    BY <1>5 DEF RowDone
  <2>3. CASE st # "WR_DATA"
    BY <2>2, <2>3 DEF Chip
  <2>4. CASE st = "WR_DATA"
    <3>1. target \in Rows /\ 2 + b \in Rows /\ target \in Int
      BY <2>4, Constants, TargetType DEF WriteInv, WriteStates, Rows
    <3>2. mem'[2 + b][i] = IF 2 + b = target /\ i = tmr - Skew THEN dq_out ELSE mem[2 + b][i]
      BY <2>4, <3>1, MemStep
    <3>3. 2 + b = target /\ i = tmr - Skew => dq_out = Word(b, i)
      <4> HAVE 2 + b = target /\ i = tmr - Skew
      <4>1. target # 1 /\ target - 2 = b /\ tmr - Skew \in 0..(Len - 1)
        OBVIOUS
      <4> QED BY <2>4, <4>1 DEF WriteInv, WriteStates
    <3> QED BY <2>2, <3>2, <3>3
  <2> QED BY <2>3, <2>4
<1>6. CASE st \in WriteStates /\ target = 2 + b /\ st' \notin WriteStates
  <2>1. st = "WR_DATA" /\ tmr = Len /\ tmr \in Nat
    BY <1>6, ControlStep, Constants DEF Moves, WriteStates
  <2>2. SUFFICES ASSUME NEW i \in 0..(Len - 1)
                 PROVE  mem'[2 + b][i] = Word(b, i)
    BY <1>3 DEF RowDone, Word
  <2>3. target \in Rows /\ target \in Int
    BY <1>6, TargetType DEF WriteInv
  <2>4. mem'[target][i] = IF i = tmr - Skew THEN dq_out ELSE mem[target][i]
    BY <2>1, <2>3, MemStep
  <2>5. target # 1 /\ target - 2 = b
    BY <1>6
  <2>6. i < tmr - Skew \/ (i = tmr - Skew /\ tmr - Skew \in 0..(Len - 1))
    BY <2>1, Constants
  <2> QED BY <1>6, <2>1, <2>4, <2>5, <2>6 DEF WriteInv, WriteStates
<1>7. CASE st \in WriteStates /\ target = 2 + b /\ st' \in WriteStates
  BY <1>7, TargetStays
<1> QED BY <1>1, <1>2, <1>4, <1>5, <1>6, <1>7 DEF RowsInv

-----------------------------------------------------------------------------
(* The fetch and the time it takes.                                        *)
LEMMA LeftBound ==
  ASSUME TypeOK, CmdInv, Controller
  PROVE  /\ Left' \in Int /\ Left' <= TRCD + Len + TWR + TRP + TRFC + 3
         /\ st' \in {"IDLE", "REF"} => Left' <= TRFC + 2
<1>1. tmr' \in Nat
  BY ControlStep, Constants DEF Moves, States
<1>2. PICK t \in Nat : tmr' = t
  BY <1>1
<1> USE Constants DEF Left
<1>3. CASE st' = "IDLE"
  BY <1>3
<1>4. CASE st' = "REF"
  <2>1. Left' = TRFC - t + 1
    BY <1>2, <1>4
  <2> QED BY <2>1
<1>5. CASE st' = "PRE"
  <2>1. Left' = TRP - t + TRFC + 2
    BY <1>2, <1>5
  <2> QED BY <1>5, <2>1
<1>6. CASE st' = "TWR"
  <2>1. Left' = TWR - t + TRP + TRFC + 2
    BY <1>2, <1>6
  <2> QED BY <1>6, <2>1
<1>7. CASE st' = "WR_DATA"
  <2>1. Left' = Len + 1 - t + TWR + TRP + TRFC + 2
    BY <1>2, <1>7
  <2> QED BY <1>7, <2>1
<1>8. CASE st' = "ACT_WR"
  <2>1. Left' = TRCD - t + Len + 1 + TWR + TRP + TRFC + 2
    BY <1>2, <1>8
  <2> QED BY <1>8, <2>1
<1>9. CASE st' \notin {"IDLE", "REF", "PRE", "TWR", "WR_DATA", "ACT_WR"}
  <2>1. Left' = 0
    BY <1>9
  <2> QED BY <1>9, <2>1
<1> QED BY <1>3, <1>4, <1>5, <1>6, <1>7, <1>8, <1>9

(* A cycle nearer to busy_n.                                               *)
LEMMA LeftStep ==
  ASSUME TypeOK, CmdInv, Controller, ~strobe, st \notin ReadStates \cup InitStates
  PROVE  busy_n \/ Left' <= Left - 1
<1> USE Constants, ControlStep, RefreshStep DEF Moves, strobe
<1>1. CASE st = "IDLE" /\ ~busy_n
  <2>1. Left = IF ref_req THEN TRFC + 2 ELSE 1
    BY <1>1 DEF Left
  <2>2. CASE ref_req
    <3>1. st' = "REF" /\ tmr' = 0
      BY <1>1, <2>2
    <3>2. Left' = TRFC - 0 + 1
      BY <3>1 DEF Left
    <3> QED BY <2>1, <2>2, <3>2
  <2>3. CASE ~ref_req
    <3>1. st' = "IDLE" /\ busy_n'
      BY <1>1, <2>3
    <3>2. Left' = 0
      BY <3>1 DEF Left
    <3> QED BY <2>1, <2>3, <3>2
  <2> QED BY <2>2, <2>3
<1>2. CASE st = "REF"
  <2>1. Left = TRFC - tmr + 1
    BY <1>2 DEF Left
  <2>2. CASE tmr = TRFC - 1
    <3>1. st' = "IDLE" /\ ~ref_req'
      BY <1>2, <2>2
    <3>2. Left' = 0 \/ Left' = 1
      BY <3>1 DEF Left
    <3> QED BY <2>1, <2>2, <3>2
  <2>3. CASE tmr # TRFC - 1
    <3>1. st' = "REF" /\ tmr' = tmr + 1
      BY <1>2, <2>3
    <3>2. Left' = TRFC - (tmr + 1) + 1
      BY <3>1 DEF Left
    <3> QED BY <2>1, <3>2
  <2> QED BY <2>2, <2>3
<1>3. CASE st = "PRE"
  <2>1. Left = TRP - tmr + TRFC + 2
    BY <1>3 DEF Left
  <2>2. CASE tmr = TRP - 1
    <3>1. st' = "IDLE"
      BY <1>3, <2>2
    <3> QED BY <2>1, <2>2, <3>1, LeftBound
  <2>3. CASE tmr # TRP - 1
    <3>1. st' = "PRE" /\ tmr' = tmr + 1
      BY <1>3, <2>3
    <3>2. Left' = TRP - (tmr + 1) + TRFC + 2
      BY <3>1 DEF Left
    <3> QED BY <2>1, <3>2
  <2> QED BY <2>2, <2>3
<1>4. CASE st = "TWR"
  <2>1. Left = TWR - tmr + TRP + TRFC + 2
    BY <1>4 DEF Left
  <2>2. CASE tmr = TWR - 1
    <3>1. st' = "PRE" /\ tmr' = 0
      BY <1>4, <2>2
    <3>2. Left' = TRP - 0 + TRFC + 2
      BY <3>1 DEF Left
    <3> QED BY <2>1, <2>2, <3>2
  <2>3. CASE tmr # TWR - 1
    <3>1. st' = "TWR" /\ tmr' = tmr + 1
      BY <1>4, <2>3
    <3>2. Left' = TWR - (tmr + 1) + TRP + TRFC + 2
      BY <3>1 DEF Left
    <3> QED BY <2>1, <3>2
  <2> QED BY <2>2, <2>3
<1>5. CASE st = "WR_DATA"
  <2>1. Left = Len + 1 - tmr + TWR + TRP + TRFC + 2
    BY <1>5 DEF Left
  <2>2. CASE tmr = Len
    <3>1. st' = "TWR" /\ tmr' = 0
      BY <1>5, <2>2
    <3>2. Left' = TWR - 0 + TRP + TRFC + 2
      BY <3>1 DEF Left
    <3> QED BY <2>1, <2>2, <3>2
  <2>3. CASE tmr # Len
    <3>1. st' = "WR_DATA" /\ tmr' = tmr + 1
      BY <1>5, <2>3
    <3>2. Left' = Len + 1 - (tmr + 1) + TWR + TRP + TRFC + 2
      BY <3>1 DEF Left
    <3> QED BY <2>1, <3>2
  <2> QED BY <2>2, <2>3
<1>6. CASE st = "ACT_WR"
  <2>1. Left = TRCD - tmr + Len + 1 + TWR + TRP + TRFC + 2
    BY <1>6 DEF Left
  <2>2. CASE tmr = TRCD - 1
    <3>1. st' = "WR_DATA" /\ tmr' = 0
      BY <1>6, <2>2
    <3>2. Left' = Len + 1 - 0 + TWR + TRP + TRFC + 2
      BY <3>1 DEF Left
    <3> QED BY <2>1, <2>2, <3>2
  <2>3. CASE tmr # TRCD - 1
    <3>1. st' = "ACT_WR" /\ tmr' = tmr + 1
      BY <1>6, <2>3
    <3>2. Left' = TRCD - (tmr + 1) + Len + 1 + TWR + TRP + TRFC + 2
      BY <3>1 DEF Left
    <3> QED BY <2>1, <3>2
  <2> QED BY <2>2, <2>3
<1> QED BY <1>1, <1>2, <1>3, <1>4, <1>5, <1>6 DEF States, ReadStates, InitStates

(* With no strobe up, an idle controller stays so or refreshes.            *)
LEMMA QuietStep ==
  ASSUME TypeOK, Controller, ~strobe
  PROVE  /\ st \in {"IDLE", "REF"} => st' \in {"IDLE", "REF"}
         /\ st \notin ReadStates => st' \notin ReadStates
         /\ st \in {"IDLE", "REF", "PRE"} => st' \in {"IDLE", "REF", "PRE"}
BY ControlStep DEF Moves, strobe, ReadStates, States

(* A read and the fetch's timeout advance together.                        *)
LEMMA ReadSteps ==
  ASSUME TypeOK, CmdInv, HandInv, FetchInv, Controller, fs = "SERIAL", ft = "READ"
  PROVE  /\ st' \in {"IDLE", "REF", "PRE"} \cup ReadStates
         /\ st' \in ReadStates => Pos' = ftimeout + 1
         /\ st' = "PRE" => ftimeout + 1 = TRCD + CL + 4 + Len + tmr' /\ tmr' \in Nat
         /\ ftimeout = Window => st \in {"IDLE", "REF"} /\ ~strobe
<1>1. ftimeout \in Nat /\ tmr \in Nat /\ Window \in Nat
  BY Constants DEF TypeOK
<1>2. ~sip_wr /\ (strobe => ftimeout = 0)
  BY DEF HandInv, sip_wr, sip_rd, strobe
<1> USE <1>1, <1>2, Constants, ControlStep DEF Moves
<1>3. CASE st = "IDLE"
  <2>1. CASE sip_rd
    <3>1. st' = "ACT_RD" /\ tmr' = 0 /\ ftimeout = 0
      BY <1>3, <2>1 DEF strobe
    <3>2. Pos' = 1 + 0
      BY <3>1 DEF Pos
    <3> QED BY <1>3, <3>1, <3>2 DEF ReadStates
  <2>2. CASE ~sip_rd
    <3>1. st' \in {"IDLE", "REF"}
      BY <1>3, <2>2
    <3> QED BY <1>3, <2>2, <3>1 DEF ReadStates, strobe
  <2> QED BY <2>1, <2>2
<1>4. CASE st = "REF"
  <2>1. st' \in {"IDLE", "REF"}
    BY <1>4
  <2> QED BY <1>4, <2>1 DEF ReadStates
<1>5. CASE st = "PRE"
  <2>1. ftimeout = TRCD + CL + 4 + Len + tmr /\ tmr < TRP
    BY <1>5, Durations DEF FetchInv, CmdInv
  <2>2. st' = "IDLE" \/ (st' = "PRE" /\ tmr' = tmr + 1)
    BY <1>5
  <2> QED BY <1>5, <2>1, <2>2 DEF ReadStates
<1>6. CASE st = "ACT_RD"
  <2>1. ftimeout = 1 + tmr /\ tmr < TRCD
    <3>1. Pos = 1 + tmr
      BY <1>6 DEF Pos
    <3> QED BY <1>6, <3>1, Durations DEF FetchInv, ReadStates, CmdInv
  <2>2. CASE tmr = TRCD - 1
    <3>1. st' = "RD" /\ tmr' = 0
      BY <1>6, <2>2
    <3>2. Pos' = 1 + TRCD + 0
      BY <3>1 DEF Pos
    <3> QED BY <2>1, <2>2, <3>1, <3>2 DEF ReadStates
  <2>3. CASE tmr # TRCD - 1
    <3>1. st' = "ACT_RD" /\ tmr' = tmr + 1
      BY <1>6, <2>3
    <3>2. Pos' = 1 + (tmr + 1)
      BY <3>1 DEF Pos
    <3> QED BY <2>1, <3>1, <3>2 DEF ReadStates
  <2> QED BY <2>2, <2>3
<1>7. CASE st = "RD"
  <2>1. ftimeout = 1 + TRCD + tmr /\ tmr < CL + 2
    <3>1. Pos = 1 + TRCD + tmr
      BY <1>7 DEF Pos
    <3> QED BY <1>7, <3>1, Durations DEF FetchInv, ReadStates, CmdInv
  <2>2. CASE tmr = CL + 2 - 1
    <3>1. st' = "RD_DATA" /\ tmr' = 0
      BY <1>7, <2>2
    <3>2. Pos' = 3 + TRCD + CL + 0
      BY <3>1 DEF Pos
    <3> QED BY <2>1, <2>2, <3>1, <3>2 DEF ReadStates
  <2>3. CASE tmr # CL + 2 - 1
    <3>1. st' = "RD" /\ tmr' = tmr + 1
      BY <1>7, <2>3
    <3>2. Pos' = 1 + TRCD + (tmr + 1)
      BY <3>1 DEF Pos
    <3> QED BY <2>1, <3>1, <3>2 DEF ReadStates
  <2> QED BY <2>2, <2>3
<1>8. CASE st = "RD_DATA"
  <2>1. ftimeout = 3 + TRCD + CL + tmr /\ tmr < Len + 1
    <3>1. Pos = 3 + TRCD + CL + tmr
      BY <1>8 DEF Pos
    <3> QED BY <1>8, <3>1, Durations DEF FetchInv, ReadStates, CmdInv
  <2>2. CASE tmr = Len
    <3>1. st' = "PRE" /\ tmr' = 0
      BY <1>8, <2>2
    <3> QED BY <2>1, <2>2, <3>1 DEF ReadStates
  <2>3. CASE tmr # Len
    <3>1. st' = "RD_DATA" /\ tmr' = tmr + 1
      BY <1>8, <2>3
    <3>2. Pos' = 3 + TRCD + CL + (tmr + 1)
      BY <3>1 DEF Pos
    <3> QED BY <2>1, <3>1, <3>2 DEF ReadStates
  <2> QED BY <2>2, <2>3
<1> QED BY <1>3, <1>4, <1>5, <1>6, <1>7, <1>8 DEF FetchInv, ReadStates

LEMMA FetchNext ==
  ASSUME TypeOK, CmdInv, HandInv, DrainInv, FetchInv, Controller, Drain, Fetch
  PROVE  FetchInv'
<1> SUFFICES ASSUME fs' = "SERIAL" PROVE FetchInv'
  BY DEF FetchInv
<1> USE DEF strobe, sip_wr, sip_rd
<1>1. CASE Irq
  <2>1. ~strobe /\ st \notin ReadStates /\ ft = "IDLE" /\ ~irq /\ ~decode
    BY <1>1 DEF Irq, HandInv, DrainInv
  <2>2. ft' = "IDLE" /\ ~decode'
    BY <2>1 DEF Fetch, FetchIdle, FetchReq, FetchRead, ReadUntil, FetchDone
  <2> QED BY <1>1, <2>1, <2>2, QuietStep DEF Irq, FetchInv
<1>2. CASE fs = "SERIAL"
  <2>1. ser' = ser + 1 /\ ~irq' /\ decode' = irq /\ ser \in Nat /\ ~wr
    BY <1>2, Constants DEF TypeOK, Drain, Compute, Settle, WaitReady, Stream, Irq, SerialOut, Fetch, HandInv
  <2>2. ~sip_wr /\ (ft # "READ" => ~strobe) /\ (ftimeout # 0 => ~strobe)
    BY <1>2, <2>1 DEF HandInv
  <2>3. CASE ft = "IDLE" /\ ~decode
    <3>1. ft' = "IDLE"
      BY <2>3 DEF Fetch, FetchIdle, FetchReq, FetchRead, ReadUntil, FetchDone
    <3>2. \/ ser = 0 /\ irq /\ st \notin ReadStates
          \/ ser > 1 /\ ~irq /\ st \in {"IDLE", "REF"}
      BY <1>2, <2>3 DEF FetchInv
    <3>3. \/ ser' = 1 /\ decode' /\ st' \notin ReadStates
          \/ ser' > 1 /\ ~decode' /\ st' \in {"IDLE", "REF"}
      BY <2>1, <2>2, <2>3, <3>2, QuietStep
    <3> QED BY <2>1, <3>1, <3>3 DEF FetchInv
  <2>4. CASE ft = "IDLE" /\ decode
    <3>1. ft' = "REQ" /\ fburst' = 0
      BY <2>4 DEF Fetch, FetchIdle, FetchReq, FetchRead, ReadUntil, FetchDone
    <3>2. ser = 1 /\ ~irq /\ st \notin ReadStates
      BY <1>2, <2>4 DEF FetchInv
    <3>3. ser' = 2 /\ ~decode' /\ st' \notin ReadStates
      BY <2>1, <2>2, <2>4, <3>2, QuietStep
    <3>4. Budget' = TRCD + Len + TWR + TRP + TRFC + 5
      <4>1. Budget' = 0 * Slot + TRCD + Len + TWR + TRP + TRFC + 5
        BY <3>1 DEF Budget
      <4> QED BY <4>1, Constants, SlotBounds
    <3>5. ser' + Left' <= Budget'
      <4>1. PICK k \in Int : Left' = k
        BY LeftBound
      <4>2. 2 + k <= TRCD + Len + TWR + TRP + TRFC + 5
        BY <4>1, LeftBound, Constants
      <4> QED BY <3>3, <3>4, <4>1, <4>2
    <3> QED BY <2>1, <3>1, <3>3, <3>5 DEF FetchInv
  <2>5. CASE ft = "REQ"
    <3>1. ~irq /\ ~decode /\ ser > 1 /\ st \notin ReadStates /\ ser + Left <= Budget /\ st \notin InitStates
      BY <1>2, <2>5 DEF FetchInv, DrainInv, HandInv
    <3>2. fburst' = fburst /\ Budget' = Budget /\ ser' > 1 /\ Budget \in Nat /\ Left \in Nat
      BY <2>1, <2>5, <3>1, SlotBounds, LeftIsNat, Constants
      DEF Fetch, FetchIdle, FetchReq, FetchRead, ReadUntil, FetchDone, Budget
    <3>3. CASE busy_n
      <4>1. ft' = "READ" /\ ftimeout' = 0
        BY <2>5, <3>3 DEF Fetch, FetchIdle, FetchReq, FetchRead, ReadUntil, FetchDone
      <4>2. st' \in {"IDLE", "REF"} /\ Left = 0
        BY <2>2, <2>5, <3>3, QuietStep DEF HandInv, Left
      <4>3. ser' <= Budget' + 1 + ftimeout'
        BY <2>1, <3>1, <3>2, <4>1, <4>2
      <4> QED BY <2>1, <3>1, <3>2, <4>1, <4>2, <4>3 DEF FetchInv, ReadStates
    <3>4. CASE ~busy_n
      <4>1. ft' = "REQ"
        BY <2>5, <3>4 DEF Fetch, FetchIdle, FetchReq, FetchRead, ReadUntil, FetchDone
      <4>2. st' \notin ReadStates /\ Left' <= Left - 1
        BY <2>2, <2>5, <3>1, <3>4, QuietStep, LeftStep
      <4>3. ser' + Left' <= Budget'
        <5>1. PICK k \in Int : Left' = k
          BY LeftBound
        <5>2. ser + 1 + k <= Budget
          BY <2>1, <3>1, <3>2, <4>2, <5>1
        <5> QED BY <2>1, <3>2, <5>1, <5>2
      <4> QED BY <2>1, <3>1, <3>2, <4>1, <4>2, <4>3 DEF FetchInv
    <3> QED BY <3>3, <3>4
  <2>6. CASE ft = "READ"
    <3>1. ~irq /\ ~decode /\ ser > 1 /\ ser <= Budget + 1 + ftimeout
      BY <1>2, <2>6 DEF FetchInv
    <3>2. Budget \in Nat /\ ftimeout \in Nat /\ ftimeout <= Window /\ fburst \in Nat /\ ser' > 1
      <4>1. ftimeout \in Nat /\ ftimeout <= Window
        BY Constants DEF TypeOK
      <4>2. Budget \in Nat /\ fburst \in Nat
        BY SlotBounds, Constants
      <4> QED BY <2>1, <3>1, <4>1, <4>2
    <3>3. CASE ftimeout # Window
      <4>1. ft' = "READ" /\ ftimeout' = ftimeout + 1 /\ fburst' = fburst
        BY <2>6, <3>2, <3>3, Constants DEF Fetch, FetchIdle, FetchReq, FetchRead, ReadUntil, FetchDone
      <4>2. Budget' = Budget
        BY <4>1 DEF Budget
      <4>3. ser' <= Budget' + 1 + ftimeout'
        BY <2>1, <3>1, <3>2, <4>1, <4>2
      <4>4. /\ st' \in {"IDLE", "REF", "PRE"} \cup ReadStates
            /\ st' \in ReadStates => ftimeout' = Pos'
            /\ st' = "PRE" => ftimeout' = TRCD + CL + 4 + Len + tmr'
        BY <1>2, <2>6, <4>1, ReadSteps
      <4> QED BY <2>1, <3>1, <3>2, <4>1, <4>3, <4>4 DEF FetchInv
    <3>4. CASE ftimeout = Window
      <4>1. st \in {"IDLE", "REF"} /\ ~strobe
        BY <1>2, <2>6, <3>4, ReadSteps
      <4>2. st' \in {"IDLE", "REF"}
        BY <4>1, QuietStep
      <4>3. CASE fburst = NBurst - 1
        <5>1. ft' = "DONE" /\ fburst' = fburst
          BY <2>6, <3>4, <4>3 DEF Fetch, FetchIdle, FetchReq, FetchRead, ReadUntil, FetchDone
        <5>2. Budget' = Budget
          BY <5>1 DEF Budget
        <5>3. ser + 1 <= Budget + Slot
          BY <2>1, <3>1, <3>2, <3>4, SlotBounds, Constants
        <5> QED BY <2>1, <3>1, <3>2, <4>2, <5>1, <5>2, <5>3 DEF FetchInv
      <4>4. CASE fburst # NBurst - 1
        <5>1. ft' = "REQ" /\ fburst' = fburst + 1
          BY <2>6, <3>4, <4>4 DEF Fetch, FetchIdle, FetchReq, FetchRead, ReadUntil, FetchDone
        <5>2. Budget' = Budget + Slot
          <6>1. Budget' = (fburst + 1) * Slot + TRCD + Len + TWR + TRP + TRFC + 5
            BY <5>1 DEF Budget
          <6> QED BY <6>1, SlotBounds, Constants
        <5>3. PICK k \in Int : Left' = k /\ k <= TRFC + 2
          BY <4>2, LeftBound
        <5>4. ser + 1 + k <= Budget + Slot
          BY <2>1, <3>1, <3>2, <3>4, <5>3, SlotBounds, Constants
        <5>5. ser' + Left' <= Budget'
          BY <2>1, <5>2, <5>3, <5>4
        <5> QED BY <2>1, <3>1, <3>2, <4>2, <5>1, <5>5 DEF FetchInv, ReadStates
      <4> QED BY <4>3, <4>4
    <3> QED BY <3>3, <3>4
  <2>7. CASE ft = "DONE"
    <3>1. ft' = "IDLE"
      BY <2>7 DEF Fetch, FetchIdle, FetchReq, FetchRead, ReadUntil, FetchDone
    <3>2. ser > 1 /\ ~irq /\ st' \in {"IDLE", "REF"}
      BY <1>2, <2>2, <2>7, QuietStep DEF FetchInv
    <3> QED BY <2>1, <3>1, <3>2 DEF FetchInv
  <2> QED BY <2>3, <2>4, <2>5, <2>6, <2>7 DEF Fetch, FetchIdle, FetchReq, FetchRead, ReadUntil, FetchDone
<1> QED BY <1>1, <1>2 DEF Drain, Compute, Settle, WaitReady, Stream, SerialOut

-----------------------------------------------------------------------------
(* A burst being read.                                                     *)
LEMMA FetchKnown ==
  ASSUME Fetch
  PROVE  ft \in {"IDLE", "REQ", "READ", "DONE"}
BY DEF Fetch, FetchIdle, FetchReq, FetchRead, ReadUntil, FetchDone

LEMMA SerialStep ==
  ASSUME DrainInv, HandInv, Drain, Past, fs = "SERIAL"
  PROVE  /\ frame' = frame /\ lost' = (lost \/ missed) /\ ~sip_wr
BY DEF HandInv, Drain, Compute, Settle, WaitReady, Stream, Irq, SerialOut, Past, sip_wr

LEMMA ReadsOn ==
  ASSUME TypeOK, Fetch, ft = "READ"
  PROVE  /\ idx' = nextIdx
         /\ ft' = "READ" => /\ ftimeout # Window /\ ftimeout' = ftimeout + 1 /\ ftimeout' # 0
                            /\ fburst' = fburst
         /\ ft' # "READ" => /\ ftimeout = Window
                            /\ IF fburst = NBurst - 1 THEN ft' = "DONE" ELSE ft' = "REQ" /\ fburst' = fburst + 1
<1>1. FetchRead
  BY DEF Fetch, FetchIdle, FetchReq, FetchDone
<1>2. ftimeout \in Nat /\ ftimeout <= Window /\ Window \in Nat
  BY Constants DEF TypeOK
<1>3. CASE ftimeout = Window
  BY <1>1, <1>3 DEF FetchRead, ReadUntil
<1>4. CASE ftimeout # Window
  <2>1. ftimeout < Window
    BY <1>2, <1>4
  <2>2. ftimeout' = ftimeout + 1 /\ ft' = "READ" /\ fburst' = fburst /\ idx' = nextIdx
    BY <1>1, <1>4, <2>1 DEF FetchRead, ReadUntil
  <2>3. ftimeout' # 0
    BY <1>2, <2>2
  <2> QED BY <1>4, <2>2, <2>3
<1> QED BY <1>3, <1>4

(* What the chip sends in a cycle, in a read.                              *)
LEMMA SentStep ==
  ASSUME TypeOK, CmdInv, ChipInv, ReadInv, Controller, Chip, ft = "READ",
         (st = "RD" /\ tmr > 0) \/ (st = "RD_DATA" /\ tmr < Len)
  PROVE  /\ \A i \in 0..(Len - 1) : age' = i + CL + 1 => dq_in' = mem[target][i]
         /\ mem' = mem /\ active = target
<1>1. cmd = "NOP" /\ active = target /\ mode = "read" /\ mem' = mem
  BY Commands DEF CmdInv, ChipInv, target, Chip
<1>2. age < AgeCap /\ age \in Nat /\ age' = age + 1
  <2>1. tmr \in Nat /\ tmr < Duration[st]
    BY Constants DEF TypeOK, CmdInv
  <2>2. age < AgeCap
    BY <2>1, ChipStep, Constants, Durations DEF ChipInv
  <2> QED BY <1>1, <2>2, ChipStep
<1>3. ASSUME NEW i \in 0..(Len - 1), age' = i + CL + 1
      PROVE  dq_in' = mem[target][i]
  <2>1. age - CL = i
    BY <1>2, <1>3, Constants
  <2> QED BY <1>1, <2>1 DEF Controller, dq
<1> QED BY <1>1, <1>3

LEMMA ReadNext ==
  ASSUME TypeOK, CmdInv, ChipInv, HandInv, DrainInv, FetchInv, ReadInv, Controller, Chip, Drain, Fetch, Past
  PROVE  ReadInv'
<1> SUFFICES ASSUME ft' = "READ" PROVE ReadInv'
  BY DEF ReadInv
<1>1. fs = "SERIAL" /\ ft \in {"REQ", "READ"}
  BY DEF DrainInv, Fetch, FetchIdle, FetchReq, FetchRead, ReadUntil, FetchDone
<1>2. lost' = (lost \/ missed) /\ ~sip_wr
  BY <1>1, SerialStep
<1>3. idx \in Nat /\ idx <= Len /\ tmr \in Nat /\ ftimeout \in Nat /\ Len \in Nat /\ Window \in Nat /\ lost \in BOOLEAN
  BY Constants DEF TypeOK
<1>4. CASE ft = "REQ"
  <2>1. busy_n /\ raddr' = 2 + fburst /\ fburst' = fburst /\ idx' = 0 /\ ftimeout' = 0
    BY <1>4 DEF Fetch, FetchIdle, FetchReq, FetchRead, ReadUntil, FetchDone
  <2>2. st' \in {"IDLE", "REF"}
    BY <1>2, <1>4, <2>1, QuietStep DEF HandInv, strobe, sip_wr, sip_rd
  <2> QED BY <2>1, <2>2 DEF ReadInv, ReadStates
<1>5. CASE ft = "READ"
  <2>2. ftimeout' = ftimeout + 1 /\ fburst' = fburst /\ idx' = nextIdx /\ ftimeout' # 0
    BY <1>3, <1>5, ReadsOn
  <2>3. nextIdx = IF st = "RD_DATA" /\ idx < Len THEN idx + 1 ELSE idx
    BY DEF nextIdx, takes, HandInv
  <2>4. CASE st \notin ReadStates
    <3>1. idx' = idx
      BY <2>2, <2>3, <2>4 DEF ReadStates
    <3>2. CASE st' \in ReadStates
      <4>1. st = "IDLE" /\ sip_rd /\ st' = "ACT_RD" /\ tmr' = 0
        BY <1>2, <2>4, <3>2, ControlStep DEF Moves, ReadStates, States
      <4>2. ftimeout = 0 /\ ~own
        BY <4>1 DEF HandInv, sip_rd
      <4>3. raddr = 2 + fburst /\ idx = 0
        BY <1>5, <4>2 DEF ReadInv
      <4>4. cmd' = "ACT" /\ row' = raddr
        BY <4>1, <4>2, ControlStep, Commands DEF Controller, sip_row
      <4>5. target' = 2 + fburst'
        BY <2>2, <4>3, <4>4 DEF target
      <4> QED BY <2>2, <3>1, <4>1, <4>3, <4>5 DEF ReadInv, ReadStates
    <3>3. CASE st' \notin ReadStates
      <4>1. ~lost' => idx' = Len
        <5>1. CASE ftimeout = 0
          <6>1. sip_rd
            BY <1>1, <1>5, <5>1 DEF HandInv, sip_rd
          <6>2. st # "IDLE"
            BY <1>2, <3>3, <6>1, ControlStep DEF ReadStates
          <6> QED BY <1>2, <6>1, <6>2 DEF missed
        <5>2. CASE ftimeout # 0
          BY <1>2, <1>3, <1>5, <2>4, <3>1, <5>2 DEF ReadInv
        <5> QED BY <5>1, <5>2
      <4> QED BY <2>2, <3>3, <4>1 DEF ReadInv, ReadStates
    <3> QED BY <3>2, <3>3
  <2>5. CASE st = "ACT_RD"
    <3>1. st' = "ACT_RD" \/ (st' = "RD" /\ tmr' = 0)
      BY <2>5, ControlStep DEF Moves
    <3>2. target' = target /\ target = 2 + fburst
      BY <1>5, <2>5, <3>1, TargetStays DEF ReadInv, ReadStates
    <3>3. idx' = 0
      BY <1>5, <2>2, <2>3, <2>5 DEF ReadInv
    <3> QED BY <2>2, <3>1, <3>2, <3>3 DEF ReadInv, ReadStates
  <2>6. CASE st = "RD"
    <3>1. \/ st' = "RD" /\ tmr' = tmr + 1
          \/ st' = "RD_DATA" /\ tmr' = 0 /\ tmr = CL + 2 - 1
      <4>1. IF tmr = CL + 2 - 1 THEN st' = "RD_DATA" /\ tmr' = 0 ELSE st' = "RD" /\ tmr' = tmr + 1
        BY <2>6, ControlStep, Constants DEF Moves
      <4> QED BY <4>1
    <3>2. target' = target /\ target = 2 + fburst
      BY <1>5, <2>6, <3>1, TargetStays DEF ReadInv, ReadStates
    <3>3. idx' = 0 /\ idx = 0
      BY <1>5, <2>2, <2>3, <2>6 DEF ReadInv
    <3>4. Sent'
      <4>1. SUFFICES ASSUME NEW i \in 0..(Len - 1), age' = i + CL + 1
                     PROVE  dq_in' = mem'[target][i]
        BY <3>2 DEF Sent
      <4>2. CASE tmr = 0
        <5>1. age' = 1
          BY <2>6, <4>2, Commands, ChipStep DEF CmdInv
        <5> QED BY <4>1, <5>1, Constants
      <4>3. CASE tmr > 0
        BY <1>5, <2>6, <4>1, <4>3, SentStep
      <4> QED BY <1>3, <4>2, <4>3
    <3>5. CASE st' = "RD"
      BY <2>2, <3>2, <3>3, <3>4, <3>5 DEF ReadInv, ReadStates
    <3>6. CASE st' = "RD_DATA"
      <4>1. tmr' = 0 /\ tmr = CL + 1 /\ tmr > 0
        BY <3>1, <3>6, Constants
      <4>2. age = 0 + CL + 1
        BY <2>6, <4>1, Constants DEF ChipInv
      <4>3. 0 \in 0..(Len - 1)
        BY Constants
      <4>4. dq_in = mem[target][0]
        BY <1>5, <2>6, <4>1, <4>2, <4>3 DEF ReadInv, Sent
      <4>5. data' = dq_in /\ mem' = mem
        BY <2>6, <3>6 DEF Controller, Chip
      <4> QED BY <2>2, <3>2, <3>3, <3>4, <3>6, <4>1, <4>4, <4>5 DEF ReadInv, ReadStates
    <3> QED BY <3>1, <3>5, <3>6
  <2>7. CASE st = "RD_DATA"
    <3>1. idx = tmr /\ target = 2 + fburst /\ Sent
      BY <1>5, <2>7 DEF ReadInv, ReadStates
    <3>2. CASE tmr = Len
      <4>1. st' = "PRE" /\ idx' = Len
        BY <1>3, <2>2, <2>3, <2>7, <3>1, <3>2, ControlStep, Constants DEF Moves
      <4> QED BY <2>2, <4>1 DEF ReadInv, ReadStates
    <3>3. CASE tmr # Len
      <4>1. tmr < Len /\ st' = "RD_DATA" /\ tmr' = tmr + 1 /\ idx' = tmr + 1
        BY <1>3, <2>2, <2>3, <2>7, <3>1, <3>3, ControlStep, Constants DEF Moves
      <4>2. target' = target
        BY <2>7, <4>1, TargetStays DEF ReadStates
      <4>3. mem' = mem /\ \A i \in 0..(Len - 1) : age' = i + CL + 1 => dq_in' = mem[target][i]
        BY <1>5, <2>7, <4>1, SentStep
      <4>4. Sent'
        BY <4>2, <4>3 DEF Sent
      <4>5. data' = dq_in
        BY <4>1 DEF Controller
      <4>6. tmr + 1 < Len => dq_in = mem[target][tmr + 1]
        <5> HAVE tmr + 1 < Len
        <5>1. tmr + 1 \in 0..(Len - 1) /\ age = (tmr + 1) + CL + 1
          BY <1>3, <2>7, Constants DEF ChipInv
        <5> QED BY <3>1, <5>1 DEF Sent
      <4> QED BY <2>2, <3>1, <4>1, <4>2, <4>3, <4>4, <4>5, <4>6 DEF ReadInv, ReadStates
    <3> QED BY <3>2, <3>3
  <2> QED BY <2>4, <2>5, <2>6, <2>7 DEF ReadStates
<1> QED BY <1>1, <1>4, <1>5

-----------------------------------------------------------------------------
(* The snapshot.                                                           *)
LEMMA Places ==
  ASSUME TypeOK
  PROVE  /\ fburst * Len \in Nat /\ 0 * Len = 0
         /\ (fburst + 1) * Len = fburst * Len + Len
         /\ fburst = NBurst - 1 => fburst * Len + Len >= Bins
<1>1. fburst \in Nat /\ Len \in Nat /\ NBurst \in Nat \ {0}
  BY Constants DEF TypeOK
<1>2. \A a, l \in Nat : a * l \in Nat /\ 0 * l = 0 /\ (a + 1) * l = a * l + l
  OBVIOUS
<1>3. fburst * Len \in Nat /\ 0 * Len = 0 /\ (fburst + 1) * Len = fburst * Len + Len
  BY <1>1, <1>2
<1>4. fburst = NBurst - 1 => (fburst + 1) * Len >= Bins
  <2>1. NBurst * Len \in Int /\ Bins \in Int /\ NBurst * Len >= Bins
    BY <1>1, SdramAssumption, Constants
  <2>2. fburst = NBurst - 1 => fburst + 1 = NBurst
    BY <1>1
  <2> QED BY <2>1, <2>2
<1> QED BY <1>3, <1>4

LEMMA SnapNext ==
  ASSUME TypeOK, CmdInv, HandInv, DrainInv, RowsInv, FetchInv, ReadInv, SnapInv, Controller, Drain, Fetch, Past
  PROVE  SnapInv'
<1>1. frame_ready' => ft' = "DONE"
  BY DEF Fetch, FetchIdle, FetchReq, FetchRead, ReadUntil, FetchDone
<1> SUFFICES ASSUME ft' \in {"REQ", "READ", "DONE"}, ~lost', NEW n \in 0..(Bins - 1), ft' = "DONE" \/ n < Got'
             PROVE  bsram'[n] = [frame |-> frame', bin |-> n]
  BY <1>1 DEF SnapInv, Same
<1>2. idx \in Nat /\ idx <= Len /\ Len \in Nat /\ fburst \in Nat /\ n \in Nat /\ Bins \in Nat /\ n < Bins
  BY Constants DEF TypeOK
<1>3. CASE ft = "IDLE"
  <2>1. ft' = "REQ" /\ fburst' = 0
    BY <1>3 DEF Fetch, FetchIdle, FetchReq, FetchRead, ReadUntil, FetchDone
  <2>2. Got' = 0 * Len + 0
    BY <2>1 DEF Got
  <2> QED BY <1>2, <2>1, <2>2, Places
<1>4. CASE ft # "IDLE"
  <2>1. fs = "SERIAL"
    BY <1>4 DEF DrainInv
  <2>2. frame' = frame /\ ~lost /\ ~missed
    BY <2>1, SerialStep
  <2>3. CASE ft = "REQ"
    <3>1. ~takes
      BY <2>1, <2>3 DEF FetchInv, HandInv, ReadStates, takes
    <3>2. bsram' = bsram /\ fburst' = fburst /\ ft' # "DONE"
      BY <2>3, <3>1 DEF Fetch, Snapshot, FetchIdle, FetchReq, FetchRead, ReadUntil, FetchDone
    <3>3. ft' = "READ" => idx' = 0
      BY <2>3 DEF Fetch, FetchIdle, FetchReq, FetchRead, ReadUntil, FetchDone
    <3>4. Got' = fburst * Len + 0
      BY <3>2, <3>3 DEF Got
    <3>5. Got = fburst * Len + 0
      BY <2>3 DEF Got
    <3> QED BY <2>2, <2>3, <3>2, <3>4, <3>5 DEF SnapInv, Same
  <2>4. CASE ft = "READ"
    <3>1. Got = fburst * Len + idx
      BY <2>4 DEF Got
    <3>2. takes <=> st = "RD_DATA" /\ idx < Len
      BY DEF takes, HandInv
    <3>3. n < Got => bsram[n] = [frame |-> frame, bin |-> n]
      BY <2>2, <2>4 DEF SnapInv, Same
    <3>4. CASE ft' # "READ"
      <4>1. ftimeout = Window
        BY <2>4, <3>4, ReadsOn
      <4>2. st \notin ReadStates
        BY <2>1, <2>4, <4>1, ReadSteps DEF ReadStates
      <4>3. ~takes
        BY <3>2, <4>2 DEF ReadStates
      <4>4. bsram' = bsram
        BY <4>3 DEF Fetch, Snapshot
      <4>5. idx = Len
        BY <2>2, <2>4, <4>1, <4>2, Constants DEF ReadInv, TypeOK
      <4>6. CASE fburst = NBurst - 1
        <5>1. n < Got
          BY <1>2, <3>1, <4>5, <4>6, Places
        <5> QED BY <2>2, <3>3, <4>4, <5>1
      <4>7. CASE fburst # NBurst - 1
        <5>1. ft' = "REQ" /\ fburst' = fburst + 1
          BY <2>4, <3>4, <4>7, ReadsOn
        <5>2. Got' = (fburst + 1) * Len + 0
          BY <5>1 DEF Got
        <5>3. n < Got
          BY <1>2, <3>1, <4>5, <5>1, <5>2, Places
        <5> QED BY <2>2, <3>3, <4>4, <5>3
      <4> QED BY <4>6, <4>7
    <3>5. CASE ft' = "READ" /\ ~takes
      <4>1. bsram' = bsram /\ idx' = idx /\ fburst' = fburst
        BY <2>4, <3>5, ReadsOn DEF Fetch, Snapshot, nextIdx
      <4>2. Got' = fburst * Len + idx
        BY <3>5, <4>1 DEF Got
      <4> QED BY <2>2, <3>1, <3>3, <3>5, <4>1, <4>2
    <3>6. CASE ft' = "READ" /\ takes
      <4>1. idx' = idx + 1 /\ fburst' = fburst
        BY <2>4, <3>6, ReadsOn DEF nextIdx
      <4>2. Got' = fburst * Len + (idx + 1)
        BY <3>6, <4>1 DEF Got
      <4>3. n < fburst * Len + idx \/ n = fburst * Len + idx
        BY <1>2, <3>6, <4>2, Places
      <4>4. bsram' = IF fburst * Len + idx < Bins THEN [bsram EXCEPT ![fburst * Len + idx] = data] ELSE bsram
        BY <3>6 DEF Fetch, Snapshot
      <4>5. bsram \in [0..(Bins - 1) -> Words]
        BY DEF TypeOK
      <4>6. CASE n < fburst * Len + idx
        <5>1. bsram'[n] = bsram[n]
          BY <1>2, <4>4, <4>5, <4>6, Places
        <5> QED BY <2>2, <3>1, <3>3, <4>6, <5>1
      <4>7. CASE n = fburst * Len + idx
        <5>1. bsram'[n] = data
          BY <1>2, <4>4, <4>5, <4>7
        <5>2. st = "RD_DATA" /\ idx = tmr /\ target = 2 + fburst /\ idx < Len
          BY <2>4, <3>2, <3>6 DEF ReadInv, ReadStates
        <5>3. data = mem[2 + fburst][idx]
          BY <2>4, <5>2 DEF ReadInv
        <5>4. RowDone(fburst)
          <6>1. Strobed = NBurst /\ fburst \in 0..(NBurst - 1) /\ fburst < NBurst
            <7>1. Strobed = NBurst
              BY <2>1 DEF Strobed
            <7>2. fburst \in 0..(NBurst - 1) /\ fburst < NBurst
              BY Constants DEF TypeOK
            <7> QED BY <7>1, <7>2
          <6> QED BY <2>2, <5>2, <6>1 DEF RowsInv, WriteStates
        <5>5. data = Word(fburst, idx)
          BY <1>2, <5>2, <5>3, <5>4 DEF RowDone
        <5>6. Bin(fburst, idx) = n
          BY <1>2, <4>7, Places DEF Bin
        <5> QED BY <2>2, <5>1, <5>5, <5>6 DEF Word
      <4> QED BY <4>3, <4>6, <4>7
    <3> QED BY <3>4, <3>5, <3>6
  <2>5. ft # "DONE"
    BY DEF Fetch, FetchIdle, FetchReq, FetchRead, ReadUntil, FetchDone
  <2> QED BY <1>4, <2>3, <2>4, <2>5, FetchKnown
<1> QED BY <1>3, <1>4

-----------------------------------------------------------------------------
(* The registers' widths.                                                  *)
LEMMA WordTypes ==
  ASSUME TypeOK
  PROVE  None \in Words /\ \A b, i \in Nat : Word(b, i) \in Words
<1>1. Bins \in Nat /\ Bins > 0 /\ Len \in Nat /\ frame \in Frames
  BY Constants DEF TypeOK
<1>2. ASSUME NEW b \in Nat, NEW i \in Nat
      PROVE  Word(b, i) \in Words
  <2>1. b * Len + i \in Nat
    BY <1>1
  <2>2. Bin(b, i) \in 0..(Bins - 1)
    BY <1>1, <2>1 DEF Bin
  <2> QED BY <1>1, <2>2 DEF Word, Words
<1> QED BY <1>1, <1>2 DEF Words, None

LEMMA DrainTypes ==
  ASSUME TypeOK, DrainInv, Drain
  PROVE  /\ own' \in BOOLEAN /\ wr' \in BOOLEAN /\ warm' \in BOOLEAN /\ irq' \in BOOLEAN
         /\ waddr' \in Rows \cup {0} /\ wdata' \in Words /\ frame' \in Frames
         /\ burst' \in 0..(NBurst - 1) /\ widx' \in 0..(DrainWait + 1) /\ timeout' \in 0..DrainWait
         /\ ser' \in 0..(Serial - 1)
<1>1. /\ own \in BOOLEAN /\ wr \in BOOLEAN /\ warm \in BOOLEAN /\ irq \in BOOLEAN /\ busy_n \in BOOLEAN
      /\ waddr \in Rows \cup {0} /\ wdata \in Words /\ frame \in Frames
      /\ burst \in 0..(NBurst - 1) /\ widx \in 0..(DrainWait + 1) /\ timeout \in 0..DrainWait
      /\ ser \in 0..(Serial - 1)
  BY DEF TypeOK
<1>2. NBurst \in Nat \ {0} /\ DrainWait \in Nat /\ Serial \in Nat \ {0}
  BY Constants
<1>3. 1 \in Rows /\ 2 + burst \in Rows
  BY <1>1, <1>2 DEF Rows
<1>4. Word(burst, 0) \in Words /\ Word(burst, widx) \in Words
  BY <1>1, <1>2, WordTypes
<1> USE DEF Drain, Compute, Settle, WaitReady, Stream, Irq, SerialOut, drainRest
<1>5. own' \in BOOLEAN /\ wr' \in BOOLEAN /\ warm' \in BOOLEAN /\ irq' \in BOOLEAN
  BY <1>1
<1>6. waddr' \in Rows \cup {0} /\ wdata' \in Words
  BY <1>1, <1>3, <1>4
<1>7. frame' \in Frames
  BY <1>1 DEF Frames
<1>8. burst' \in 0..(NBurst - 1)
  <2>1. burst' = burst \/ burst' = 0 \/ (burst # NBurst - 1 /\ burst' = burst + 1)
    OBVIOUS
  <2> QED BY <1>1, <1>2, <2>1
<1>9. widx' \in 0..(DrainWait + 1)
  <2>1. widx' = widx \/ widx' = 0 \/ (widx' = widx + 1 /\ widx = timeout)
    BY DEF DrainInv
  <2> QED BY <1>1, <1>2, <2>1
<1>10. timeout' \in 0..DrainWait
  <2>1. timeout' = timeout \/ timeout' = 0 \/ (timeout # DrainWait /\ timeout' = timeout + 1)
    OBVIOUS
  <2> QED BY <1>1, <1>2, <2>1
<1>11. ser' \in 0..(Serial - 1)
  <2>1. ser' = ser \/ ser' = 0 \/ (ser # Serial - 1 /\ ser' = ser + 1)
    OBVIOUS
  <2> QED BY <1>1, <1>2, <2>1
<1> QED BY <1>5, <1>6, <1>7, <1>8, <1>9, <1>10, <1>11

LEMMA FetchTypes ==
  ASSUME TypeOK, Fetch
  PROVE  /\ rd' \in BOOLEAN /\ decode' \in BOOLEAN /\ frame_ready' \in BOOLEAN
         /\ raddr' \in Rows \cup {0} /\ idx' \in 0..Len /\ fburst' \in 0..(NBurst - 1)
         /\ ftimeout' \in 0..Window /\ bsram' \in [0..(Bins - 1) -> Words]
<1>1. /\ rd \in BOOLEAN /\ irq \in BOOLEAN /\ busy_n \in BOOLEAN
      /\ raddr \in Rows \cup {0} /\ idx \in 0..Len /\ fburst \in 0..(NBurst - 1)
      /\ ftimeout \in 0..Window /\ bsram \in [0..(Bins - 1) -> Words] /\ data \in Words
  BY DEF TypeOK
<1>2. NBurst \in Nat \ {0} /\ Window \in Nat /\ Len \in Nat \ {0} /\ Bins \in Nat
  BY Constants
<1>3. 2 + fburst \in Rows
  BY <1>1, <1>2 DEF Rows
<1>4. nextIdx \in 0..Len
  BY <1>1, <1>2 DEF nextIdx, takes
<1>5. bsram' \in [0..(Bins - 1) -> Words]
  <2>1. fburst * Len + idx \in Nat
    BY <1>1, <1>2, Places
  <2>2. CASE takes /\ fburst * Len + idx < Bins
    BY <1>1, <1>2, <2>1, <2>2 DEF Fetch, Snapshot
  <2>3. CASE ~(takes /\ fburst * Len + idx < Bins)
    BY <1>1, <2>3 DEF Fetch, Snapshot
  <2> QED BY <2>2, <2>3
<1>6. decode' \in BOOLEAN
  BY <1>1 DEF Fetch
<1> USE DEF Fetch, FetchIdle, FetchReq, FetchRead, ReadUntil, FetchDone
<1>7. rd' \in BOOLEAN /\ frame_ready' \in BOOLEAN
  BY <1>1
<1>8. raddr' \in Rows \cup {0}
  BY <1>1, <1>3
<1>9. idx' \in 0..Len
  <2>1. idx' = 0 \/ idx' = nextIdx
    OBVIOUS
  <2> QED BY <1>2, <1>4, <2>1
<1>10. fburst' \in 0..(NBurst - 1)
  <2>1. fburst' = fburst \/ fburst' = 0 \/ (fburst # NBurst - 1 /\ fburst' = fburst + 1)
    OBVIOUS
  <2> QED BY <1>1, <1>2, <2>1
<1>11. ftimeout' \in 0..Window
  <2>1. ftimeout' = ftimeout \/ ftimeout' = 0 \/ (ftimeout < Window /\ ftimeout' = ftimeout + 1)
    OBVIOUS
  <2> QED BY <1>1, <1>2, <2>1
<1> QED BY <1>5, <1>6, <1>7, <1>8, <1>9, <1>10, <1>11

LEMMA ControllerTypes ==
  ASSUME TypeOK, CmdInv, ChipInv, DrainInv, FetchInv, ReadInv, Controller, Drain, Fetch
  PROVE  /\ st' \in States /\ tmr' \in 0..(InitWait + Len + CL + TRCD + TRP + TRFC + TMRD + TWR)
         /\ ref_cnt' \in 0..(RefreshInterval - 1)
         /\ ref_req' \in BOOLEAN /\ busy_n' \in BOOLEAN /\ init_done' \in BOOLEAN /\ rd_valid' \in BOOLEAN
         /\ row' \in Rows \cup {0}
         /\ wpipe' \in [1..3 -> Words] /\ dq_out' \in Words /\ dq_in' \in Words /\ data' \in Words
<1>1. st' \in States /\ tmr' \in Nat
  BY ControlStep, Constants DEF Moves, States
<1>2. tmr' \in 0..(InitWait + Len + CL + TRCD + TRP + TRFC + TMRD + TWR)
  <2>1. PICK t \in Nat : tmr' = t
    BY <1>1
  <2>2. IF st' = "IDLE" THEN t = 0 ELSE t < Duration[st']
    BY <2>1, CmdNext DEF CmdInv
  <2>3. t <= InitWait + Len + CL + TRCD + TRP + TRFC + TMRD + TWR
    BY <1>1, <2>2, Constants, Durations DEF States
  <2> QED BY <2>1, <2>3, Constants
<1>3. ref_cnt' \in 0..(RefreshInterval - 1)
  BY RefreshStep, Constants
<1>4. ref_req' \in BOOLEAN /\ busy_n' \in BOOLEAN /\ init_done' \in BOOLEAN /\ rd_valid' \in BOOLEAN
  BY RefreshStep
<1>5. row' \in Rows \cup {0}
  BY DEF Controller, sip_row, TypeOK
<1>6. /\ wdata \in Words /\ dq_in \in Words /\ data \in Words /\ None \in Words /\ wpipe \in [1..3 -> Words]
      /\ mem \in [Rows -> [0..(Len - 1) -> Words]]
  BY WordTypes DEF TypeOK
<1>7. wpipe' \in [1..3 -> Words]
  <2>1. wpipe' = <<sip_data, wpipe[1], wpipe[2]>>
    BY DEF Controller
  <2>2. sip_data \in Words /\ wpipe[1] \in Words /\ wpipe[2] \in Words
    BY <1>6 DEF sip_data
  <2> QED BY <2>1, <2>2
<1>8. dq_out' \in Words
  <2>1. wpipe[2 + WrAlign] \in Words
    BY <1>6, Constants
  <2> QED BY <1>6, <2>1 DEF Controller
<1>9. dq_in' \in Words
  <2>1. CASE mode = "read" /\ age - CL \in 0..(Len - 1)
    <3>1. st \in ReadStates /\ cmd # "ACT"
      BY <2>1, ChipStep, Constants, Commands DEF ChipInv, CmdInv, ReadStates, States, Recovered, TypeOK
    <3>2. fs = "SERIAL" /\ ft = "READ"
      BY <3>1, FetchKnown
      DEF FetchInv, DrainInv, ReadStates, InitStates, Drain, Compute, Settle, WaitReady, Stream, Irq, SerialOut
    <3>3. active = 2 + fburst
      BY <3>1, <3>2 DEF ReadInv, target
    <3>4. active \in Rows
      BY <3>3, Constants DEF TypeOK, Rows
    <3> QED BY <1>6, <2>1, <3>4 DEF Controller, dq
  <2>2. CASE ~(mode = "read" /\ age - CL \in 0..(Len - 1))
    BY <1>6, <2>2 DEF Controller, dq
  <2> QED BY <2>1, <2>2
<1>10. data' \in Words
  BY <1>6 DEF Controller
<1> QED BY <1>1, <1>2, <1>3, <1>4, <1>5, <1>7, <1>8, <1>9, <1>10

LEMMA ChipTypes ==
  ASSUME TypeOK, CmdInv, WriteInv, Chip
  PROVE  /\ age' \in 0..AgeCap /\ active' \in Rows \cup {0} /\ unrefreshed' \in 0..(MaxGap + 1)
         /\ mem' \in [Rows -> [0..(Len - 1) -> Words]]
<1>1. AgeCap \in Nat /\ AgeCap > 0 /\ MaxGap \in Nat
  BY Constants DEF AgeCap, MaxGap, BurstTime
<1>2. age' \in 0..AgeCap
  <2>1. age' = 1 \/ age' = age \/ (age < AgeCap /\ age' = age + 1)
    BY DEF Chip
  <2>2. age \in 0..AgeCap
    BY DEF TypeOK
  <2> QED BY <1>1, <2>1, <2>2
<1>3. unrefreshed' \in 0..(MaxGap + 1)
  BY <1>1 DEF Chip, TypeOK
<1>4. active' \in Rows \cup {0}
  BY DEF Chip, TypeOK
<1>5. mem' \in [Rows -> [0..(Len - 1) -> Words]]
  <2>1. mem \in [Rows -> [0..(Len - 1) -> Words]] /\ dq_out \in Words
    BY DEF TypeOK
  <2>2. CASE st = "WR_DATA"
    <3>1. active \in Rows
      BY <2>2, Commands DEF WriteInv, WriteStates, target, CmdInv
    <3> QED BY <2>1, <3>1 DEF Chip
  <2>3. CASE st # "WR_DATA"
    BY <2>1, <2>3 DEF Chip
  <2> QED BY <2>2, <2>3
<1> QED BY <1>2, <1>3, <1>4, <1>5

LEMMA TypeNext ==
  ASSUME TypeOK, CmdInv, ChipInv, DrainInv, WriteInv, FetchInv, ReadInv,
         Controller, Chip, Drain, Fetch, Past
  PROVE  TypeOK'
<1>1. lost' \in BOOLEAN
  BY DEF Past, TypeOK
<1>2. waddr' \in Rows \cup {0} /\ wdata' \in Words /\ frame' \in Frames
  BY DrainTypes
<1>3. /\ {ref_req', busy_n', init_done', rd_valid', own', wr', warm', irq', rd', decode', frame_ready', lost'}
            \subseteq BOOLEAN
      /\ {dq_out', dq_in', data', wdata'} \subseteq Words
  BY <1>1, DrainTypes, FetchTypes, ControllerTypes
<1> QED BY <1>2, <1>3, DrainTypes, FetchTypes, ControllerTypes, ChipTypes DEF TypeOK

-----------------------------------------------------------------------------
(* The invariant.                                                          *)
LEMMA Initial ==
  ASSUME Init
  PROVE  IInv
<1> USE DEF Init
<1>1. TypeOK
  <2>1. /\ None \in Words /\ 0 \in Frames /\ st \in States
    BY Constants DEF Words, None, Frames, States
  <2>2. /\ AgeCap \in Nat /\ MaxGap \in Nat
    BY Constants DEF AgeCap, MaxGap, BurstTime
  <2>3. wpipe \in [1..3 -> Words] /\ mem \in [Rows -> [0..(Len - 1) -> Words]] /\ bsram \in [0..(Bins - 1) -> Words]
    BY <2>1
  <2>4. /\ tmr \in 0..(InitWait + Len + CL + TRCD + TRP + TRFC + TMRD + TWR)
        /\ ref_cnt \in 0..(RefreshInterval - 1)
    BY Constants
  <2>5. /\ burst \in 0..(NBurst - 1) /\ fburst \in 0..(NBurst - 1) /\ idx \in 0..Len /\ ser \in 0..(Serial - 1)
    BY Constants
  <2>6. /\ widx \in 0..(DrainWait + 1) /\ timeout \in 0..DrainWait /\ ftimeout \in 0..Window
        /\ age \in 0..AgeCap /\ unrefreshed \in 0..(MaxGap + 1)
    BY <2>2, Constants
  <2>7. /\ {ref_req, busy_n, init_done, rd_valid, own, wr, warm, irq, rd, decode, frame_ready, lost} \subseteq BOOLEAN
        /\ {dq_out, dq_in, data, wdata} \subseteq Words
        /\ row \in Rows \cup {0} /\ active \in Rows \cup {0} /\ waddr \in Rows \cup {0} /\ raddr \in Rows \cup {0}
    BY <2>1
  <2> QED BY <2>1, <2>3, <2>4, <2>5, <2>6, <2>7 DEF TypeOK
<1>2. CmdInv
  BY Commands, Durations, Constants DEF CmdInv
<1>3. ChipInv
  BY DEF ChipInv
<1>4. HandInv
  BY DEF HandInv, strobe, sip_wr, sip_rd, InitStates
<1>5. RefreshInv
  BY DEF RefreshInv, InitRefreshes
<1>6. DrainInv
  BY DEF DrainInv, InitStates
<1>7. WriteInv
  BY DEF WriteInv, WriteStates
<1>8. RowsInv
  BY DEF RowsInv, Strobed
<1>9. FetchInv /\ ReadInv /\ SnapInv
  BY DEF FetchInv, ReadInv, SnapInv
<1> QED BY <1>1, <1>2, <1>3, <1>4, <1>5, <1>6, <1>7, <1>8, <1>9 DEF IInv

LEMMA Inductive ==
  ASSUME IInv, [Next]_vars
  PROVE  IInv'
<1>1. CASE Next
  BY <1>1, TypeNext, CmdNext, ChipNext, HandNext, RefreshNext, DrainNext, WriteNext, RowsNext, FetchNext,
     ReadNext, SnapNext DEF IInv, Next
<1>2. CASE UNCHANGED vars
  <2> USE <1>2 DEF vars, ctlVars, chipVars, drainVars, fetchVars
  <2>1. TypeOK' /\ CmdInv' /\ ChipInv'
    BY DEF IInv, TypeOK, CmdInv, ChipInv, Recovered
  <2>2. HandInv' /\ RefreshInv'
    BY DEF IInv, HandInv, RefreshInv, InitRefreshes, Younger, strobe, sip_wr, sip_rd
  <2>3. Word(0, 0)' = Word(0, 0) /\ \A b, i : [frame |-> frame', bin |-> Bin(b, i)] = Word(b, i)
    BY DEF Word
  <2>4. target' = target /\ Pos' = Pos /\ Strobed' = Strobed /\ Left' = Left /\ Budget' = Budget /\ Got' = Got
    BY DEF target, Pos, Strobed, Left, Budget, Got
  <2>5. DrainInv' /\ FetchInv'
    BY <2>4 DEF IInv, DrainInv, FetchInv, Word
  <2>6. WriteInv' /\ RowsInv'
    BY <2>4 DEF IInv, WriteInv, RowsInv, RowDone, Word
  <2>7. ReadInv' /\ SnapInv'
    BY <2>4 DEF IInv, ReadInv, Sent, SnapInv, Same
  <2> QED BY <2>1, <2>2, <2>5, <2>6, <2>7 DEF IInv
<1> QED BY <1>1, <1>2

LEMMA Invariant == Spec => []IInv
<1>1. Init => IInv
  BY Initial
<1>2. IInv /\ [Next]_vars => IInv'
  BY Inductive
<1> QED BY <1>1, <1>2, PTL DEF Spec

-----------------------------------------------------------------------------
(* Every register of the controller, the drain and the fetch keeps its     *)
(* width, in every cycle (sdram_controller_fsm.vhd, dma.vhd, top.vhd).     *)
THEOREM TypeCorrect == Spec => []TypeOK
<1>1. IInv => TypeOK
  BY DEF IInv
<1> QED BY <1>1, Invariant, PTL

(* sdram_controller_fsm.vhd:138-225.  Whatever the chip's timing, the      *)
(* bursts' length and the phase of the refresh timer at the end of the     *)
(* initialisation, every command is legal for the chip in the cycle it     *)
(* gets it, and no refresh is later than an interval and a burst.          *)
THEOREM ChipIsServed == Spec => []ChipServed
<1>1. ASSUME IInv
      PROVE  CommandsLegal
  <2>1. CmdInv /\ ChipInv /\ st \in States
    BY <1>1 DEF IInv, TypeOK
  <2> QED BY <2>1, Commands DEF CommandsLegal, CmdInv, ChipInv, Recovered, States
<1>2. ASSUME IInv, init_done
      PROVE  unrefreshed <= MaxGap
  <2>1. /\ st \notin InitStates /\ st \in States /\ tmr \in Nat /\ ref_cnt \in Nat /\ ref_cnt < RefreshInterval
        /\ unrefreshed \in Nat
    BY <1>2, Constants DEF IInv, HandInv, TypeOK, MaxGap, BurstTime
  <2>2. BurstTime = TRCD + CL + Len + TWR + TRP + 3 /\ BurstTime \in Nat /\ MaxGap = RefreshInterval + BurstTime + TRFC + 2
    BY Constants DEF BurstTime, MaxGap
  <2>3. CASE ~ref_req
    BY <1>2, <2>1, <2>2, <2>3, Constants DEF IInv, RefreshInv
  <2>4. CASE ref_req /\ Younger /\ unrefreshed <= RefreshInterval + ref_cnt + TRFC
    <3>1. st # "IDLE" => tmr < Duration[st]
      BY <1>2 DEF IInv, CmdInv
    <3>2. ref_cnt <= BurstTime + 2
      BY <2>1, <2>2, <2>4, <3>1, Constants, Durations DEF Younger, States, InitStates
    <3> QED BY <2>1, <2>2, <2>4, <3>2, Constants
  <2>5. CASE ref_req /\ unrefreshed <= TRFC + TMRD + 1
    BY <2>1, <2>2, <2>5, Constants
  <2>6. unrefreshed <= TRFC + TMRD => unrefreshed <= TRFC + TMRD + 1
    BY <2>1, Constants
  <2> QED BY <1>2, <2>3, <2>4, <2>5, <2>6 DEF IInv, RefreshInv
<1>3. IInv => ChipServed
  BY <1>1, <1>2 DEF ChipServed, RefreshServed
<1> QED BY <1>3, Invariant, PTL

(* dma.vhd:392-429, top.vhd:736-793, sdram_controller_fsm.vhd:155-161.     *)
(* When the fetch signals a frame the snapshot is the frame the FFT left,  *)
(* bin by bin, for any number and length of bursts, or a strobe met the    *)
(* first cycle of a refresh - and it can meet nothing else.                *)
THEOREM FramesArrive == Spec => []FrameKept
<1>1. ASSUME IInv
      PROVE  SnapshotIsFrame
  BY <1>1 DEF IInv, SnapInv, Same, SnapshotIsFrame
<1>2. ASSUME IInv
      PROVE  MissedOnlyAtRefresh
  BY <1>2 DEF IInv, HandInv, MissedOnlyAtRefresh, missed, strobe
<1>3. IInv => FrameKept
  BY <1>1, <1>2 DEF FrameKept
<1> QED BY <1>3, Invariant, PTL
=============================================================================
