-------------------------- MODULE MasterLinkProofs --------------------------
(***************************************************************************)
(* Proofs about MasterLink for every EOF burst, reception cap and limit of *)
(* presence tries.                                                         *)
(***************************************************************************)
EXTENDS MasterLink, SequenceTheorems, TLAPS

-----------------------------------------------------------------------------
(* Data lemmas.                                                            *)

(* Pushing a frame keeps what is below it.                                 *)
LEMMA StackPush ==
  ASSUME NEW s \in Seq(Frame), NEW f \in Frame
  PROVE  /\ Append(s, f) \in Seq(Frame)
         /\ Len(Append(s, f)) = Len(s) + 1
         /\ \A i \in 1..Len(s) : Append(s, f)[i] = s[i]
         /\ Append(s, f)[Len(s) + 1] = f
BY AppendProperties

(* Popping a frame keeps what is below it.                                 *)
LEMMA StackPop ==
  ASSUME NEW s \in Seq(Frame), s # <<>>
  PROVE  /\ SubSeq(s, 1, Len(s) - 1) \in Seq(Frame)
         /\ Len(SubSeq(s, 1, Len(s) - 1)) = Len(s) - 1
         /\ \A i \in 1..(Len(s) - 1) : SubSeq(s, 1, Len(s) - 1)[i] = s[i]
<1>1. Len(s) \in Nat /\ Len(s) > 0
  BY EmptySeq, LenProperties
<1> QED BY <1>1, SubSeqProperties

(* Replacing the top frame keeps what is below it.                         *)
LEMMA StackExcept ==
  ASSUME NEW s \in Seq(Frame), s # <<>>, NEW g \in Frame
  PROVE  /\ [s EXCEPT ![Len(s)] = g] \in Seq(Frame)
         /\ Len([s EXCEPT ![Len(s)] = g]) = Len(s)
         /\ \A i \in 1..(Len(s) - 1) : [s EXCEPT ![Len(s)] = g][i] = s[i]
         /\ [s EXCEPT ![Len(s)] = g][Len(s)] = g
<1>1. Len(s) \in Nat /\ Len(s) > 0 /\ Len(s) \in 1..Len(s)
  BY EmptySeq, LenProperties
<1> QED BY <1>1, ExceptSeq

(* The codebook gives every message a first bit and two or three bits.     *)
LEMMA Codebook ==
  ASSUME NEW m \in TxMsg
  PROVE  /\ msg_to_pattern(m).first \in Bit
         /\ PatLen(m) \in {2, 3}
         /\ FrameLen(m) \in Nat
         /\ FrameLen(m) = 1 + EofBurst + PatLen(m) + EofBurst
BY LinkAssumption DEF TxMsg, msg_to_pattern, PatLen, FrameLen, Bit

(* Every symbol of a frame is a bit or the EOF.                            *)
LEMMA FrameSymType ==
  ASSUME NEW m \in TxMsg, NEW i \in Nat
  PROVE  FrameSym(m, i) \in Bit \cup {Eof}
<1>1. CASE 1 + EofBurst < i /\ i <= 1 + EofBurst + PatLen(m)
  <2>1. (msg_to_pattern(m).first + (i - 2 - EofBurst)) \in Int
    BY Codebook, LinkAssumption DEF Bit
  <2>2. (msg_to_pattern(m).first + (i - 2 - EofBurst)) % 2 \in {0, 1}
    BY <2>1
  <2> QED BY <1>1, <2>2 DEF FrameSym, Bit
<1>2. CASE ~(1 + EofBurst < i /\ i <= 1 + EofBurst + PatLen(m))
  BY <1>2 DEF FrameSym
<1> QED BY <1>1, <1>2

(* A receiver's pattern stays a pattern, at most RxMax long.               *)
LEMMA AddBitType ==
  ASSUME NEW p \in Pattern, NEW b \in Bit
  PROVE  AddBit(p, b) \in Pattern
BY LinkAssumption DEF AddBit, Pattern, Bit

LEMMA EmptyPatternType == EmptyPattern \in Pattern
BY LinkAssumption DEF EmptyPattern, Pattern

(* What either decoder returns.                                            *)
LEMMA DecodeType ==
  ASSUME NEW p \in Pattern
  PROVE  /\ SlaveDecode(p) \in TxMsg \cup {NONE}
         /\ pattern_to_msg(p) \in RxMsg \cup {NONE}
BY DEF SlaveDecode, pattern_to_msg, TxMsg, RxMsg, NONE, Pattern

-----------------------------------------------------------------------------
(* What the operations do to the call stack.                               *)

StackOK == /\ stack \in Seq(Frame)
           /\ \A i \in 1..Len(stack) : /\ stack[i].sent <= FrameLen(stack[i].msg)
                                       /\ i > 1 => stack[i].handler

(* The innermost frame.                                                    *)
LEMMA TopType ==
  ASSUME StackOK, ~Idle
  PROVE  /\ Len(stack) \in Nat /\ Len(stack) > 0 /\ Len(stack) \in 1..Len(stack)
         /\ Top \in Frame
         /\ Top.msg \in TxMsg /\ Top.sent \in Nat /\ Top.cut \in BOOLEAN
         /\ Top.handler \in BOOLEAN
         /\ Top.sent <= FrameLen(Top.msg)
<1>1. Len(stack) \in Nat /\ Len(stack) > 0 /\ Len(stack) \in 1..Len(stack)
  BY EmptySeq, LenProperties DEF StackOK, Idle
<1>2. stack[Len(stack)] \in Frame
  BY <1>1, ElementOfSeq DEF StackOK
<1>3. stack[Len(stack)].sent <= FrameLen(stack[Len(stack)].msg)
  BY <1>1 DEF StackOK
<1>4. Top = stack[Len(stack)]
  BY DEF Top
<1>5. /\ Top.msg \in TxMsg /\ Top.sent \in Nat /\ Top.cut \in BOOLEAN
      /\ Top.handler \in BOOLEAN
  BY <1>2, <1>4 DEF Frame
<1> QED BY <1>1, <1>2, <1>3, <1>4, <1>5

(* A send called by a handler, or by loop() when nothing is suspended,     *)
(* adds one frame and cuts the frame below it if that is between bits.     *)
LEMMA SendStack ==
  ASSUME StackOK, abort_cut \in BOOLEAN,
         NEW m \in TxMsg, NEW h \in BOOLEAN, Idle \/ h, send_msg(m, h)
  PROVE  /\ StackOK' /\ abort_cut' \in BOOLEAN
         /\ Len(stack') = Len(stack) + 1
         /\ stack' # <<>>
         /\ Top' = [msg |-> m, handler |-> h, sent |-> 0, cut |-> FALSE]
         /\ \A i \in 1..(Len(stack) - 1) : stack'[i] = stack[i]
         /\ ~Idle => stack'[Len(stack)] = [Top EXCEPT !.cut = @ \/ MidBits(Top)]
         /\ abort_cut' = (abort_cut \/ (~Idle /\ MidBits(Top) /\ Top.msg = "ABORT"))
<1> DEFINE f == [msg |-> m, handler |-> h, sent |-> 0, cut |-> FALSE]
<1>1. f \in Frame /\ f.sent <= FrameLen(f.msg)
  BY Codebook DEF Frame
<1>2. CASE Idle
  <2>1. stack' = <<f>> /\ abort_cut' = abort_cut
    BY <1>2 DEF send_msg
  <2>2. Len(stack) = 0 /\ Len(stack') = 1 /\ stack'[1] = f /\ stack' \in Seq(Frame)
    BY <1>1, <1>2, <2>1 DEF Idle
  <2> QED BY <1>1, <1>2, <2>1, <2>2 DEF StackOK, Top
<1>3. CASE ~Idle
  <2> DEFINE g == [Top EXCEPT !.cut = @ \/ MidBits(Top)]
             s == [stack EXCEPT ![Len(stack)] = g]
  <2>1. Len(stack) \in 1..Len(stack) /\ Len(stack) \in Nat /\ Top \in Frame
        /\ Top.cut \in BOOLEAN
    BY <1>3, TopType
  <2>2. (Top.cut \/ MidBits(Top)) \in BOOLEAN
    BY <2>1 DEF MidBits
  <2>3. g \in Frame /\ g.sent = Top.sent /\ g.msg = Top.msg /\ g.handler = Top.handler
    BY <2>1, <2>2 DEF Frame
  <2>4. [stack EXCEPT ![Len(stack)].cut = @ \/ MidBits(Top)] = s
    BY DEF Top
  <2>5. stack' = Append(s, f)
        /\ abort_cut' = (abort_cut \/ (MidBits(Top) /\ Top.msg = "ABORT"))
    BY <1>3, <2>4 DEF send_msg
  <2>6. /\ s \in Seq(Frame) /\ Len(s) = Len(stack)
        /\ \A i \in 1..(Len(stack) - 1) : s[i] = stack[i]
        /\ s[Len(stack)] = g
    <3> HIDE DEF g
    <3> QED BY <1>3, <2>3, StackExcept DEF StackOK, Idle
  <2>7. /\ stack' \in Seq(Frame) /\ Len(stack') = Len(stack) + 1
        /\ \A i \in 1..Len(stack) : stack'[i] = s[i]
        /\ stack'[Len(stack) + 1] = f
    <3> HIDE DEF s, f
    <3> QED BY <1>1, <2>5, <2>6, StackPush
  <2>8. \A i \in 1..Len(stack') : /\ stack'[i].sent <= FrameLen(stack'[i].msg)
                                  /\ i > 1 => stack'[i].handler
    <3> TAKE i \in 1..Len(stack')
    <3>1. CASE i = Len(stack) + 1
      BY <1>1, <1>3, <2>7, <3>1
    <3>2. CASE i = Len(stack)
      <4>1. stack'[i] = g
        BY <2>1, <2>6, <2>7, <3>2
      <4> HIDE DEF g
      <4> QED BY <1>3, <2>1, <2>3, <3>2, <4>1 DEF StackOK, Top
    <3>3. CASE i \in 1..(Len(stack) - 1)
      <4>1. stack'[i] = stack[i] /\ i \in 1..Len(stack)
        BY <2>1, <2>6, <2>7, <3>3
      <4> QED BY <4>1 DEF StackOK
    <3> QED BY <2>1, <2>7, <3>1, <3>2, <3>3
  <2>9. stack'[Len(stack)] = g /\ \A i \in 1..(Len(stack) - 1) : stack'[i] = stack[i]
    <3> HIDE DEF g, s
    <3> QED BY <2>1, <2>6, <2>7
  <2>10. stack' # <<>> /\ Top' = f
    <3> HIDE DEF f
    <3> QED BY <2>1, <2>7 DEF Top
  <2>11. abort_cut' \in BOOLEAN
    BY <2>5 DEF MidBits
  <2> QED BY <1>3, <2>5, <2>7, <2>8, <2>9, <2>10, <2>11 DEF StackOK
<1> QED BY <1>2, <1>3

(* Writing a symbol only counts it in the innermost frame.                 *)
LEMMA EmitStack ==
  ASSUME StackOK, WriteSymbol
  PROVE  /\ StackOK' /\ Len(stack') = Len(stack) /\ stack' # <<>>
         /\ Top' = [Top EXCEPT !.sent = @ + 1]
         /\ \A i \in 1..(Len(stack) - 1) : stack'[i] = stack[i]
<1>1. ~Idle /\ Top.sent < FrameLen(Top.msg)
  BY DEF WriteSymbol
<1> DEFINE g == [Top EXCEPT !.sent = @ + 1]
<1>2. /\ Len(stack) \in 1..Len(stack) /\ Len(stack) \in Nat /\ Top \in Frame
      /\ Top.msg \in TxMsg /\ Top.sent \in Nat /\ Top.handler \in BOOLEAN
  BY <1>1, TopType
<1>3. g \in Frame /\ g.sent = Top.sent + 1 /\ g.msg = Top.msg /\ g.handler = Top.handler
  BY <1>2 DEF Frame
<1>4. stack' = [stack EXCEPT ![Len(stack)] = g]
  BY DEF WriteSymbol, Top
<1>5. g.sent <= FrameLen(g.msg)
  BY <1>1, <1>2, <1>3, Codebook
<1> HIDE DEF g
<1>6. /\ stack' \in Seq(Frame) /\ Len(stack') = Len(stack)
      /\ \A i \in 1..(Len(stack) - 1) : stack'[i] = stack[i]
      /\ stack'[Len(stack)] = g
  BY <1>1, <1>3, <1>4, StackExcept DEF StackOK, Idle
<1>7. \A i \in 1..Len(stack') : /\ stack'[i].sent <= FrameLen(stack'[i].msg)
                                /\ i > 1 => stack'[i].handler
  <2> TAKE i \in 1..Len(stack')
  <2>1. CASE i = Len(stack)
    <3>1. i > 1 => Top.handler
      BY <1>2, <2>1 DEF StackOK, Top
    <3>2. stack'[i] = g
      BY <1>6, <2>1
    <3> QED BY <1>3, <1>5, <3>1, <3>2
  <2>2. CASE i \in 1..(Len(stack) - 1)
    BY <1>2, <1>6, <2>2 DEF StackOK
  <2> QED BY <1>2, <1>6, <2>1, <2>2
<1>8. Top' = g /\ stack' # <<>>
  BY <1>2, <1>6 DEF Top
<1> QED BY <1>6, <1>7, <1>8 DEF StackOK, g

(* A return removes the innermost frame.                                   *)
LEMMA ReturnStack ==
  ASSUME StackOK, SendReturns
  PROVE  /\ StackOK' /\ Len(stack') = Len(stack) - 1
         /\ \A i \in 1..Len(stack') : stack'[i] = stack[i]
<1>1. ~Idle /\ stack' = SubSeq(stack, 1, Len(stack) - 1)
  BY DEF SendReturns
<1>2. Len(stack) \in Nat /\ Len(stack) > 0
  BY <1>1, TopType
<1>3. /\ stack' \in Seq(Frame) /\ Len(stack') = Len(stack) - 1
      /\ \A i \in 1..(Len(stack) - 1) : stack'[i] = stack[i]
  BY <1>1, StackPop DEF StackOK, Idle
<1> QED BY <1>2, <1>3 DEF StackOK

-----------------------------------------------------------------------------
(* Type correctness.                                                       *)

(* The conjuncts of TypeOK by the group of variables they speak of.        *)
RxTypes   == last_sym \in {NoSym, 0, 1, Eof} /\ rx \in Pattern /\ dbg_mode \in BOOLEAN
RegTypes  == /\ awaiting_ack \in BOOLEAN /\ slave_known \in BOOLEAN
             /\ regs \in Nat /\ oks \in Nat
PresTypes == /\ awaiting_presence \in BOOLEAN /\ presence_tries \in Nat
             /\ last_present \in {-1, 0, 1}
SetTypes  == presence_max_tries \in Nat \ {0} /\ auto_presence \in BOOLEAN
AirTypes  == /\ air \in Pattern
             /\ owed \in TxMsg \cup {NONE} /\ closed \in TxMsg \cup {NONE}
             /\ heard \in TxMsg \cup {NONE}
MeantTypes == meant \in Pattern /\ tainted \in BOOLEAN /\ phantom \in BOOLEAN
WaitTypes  == busy \in BOOLEAN /\ overdue \in BOOLEAN

Types == /\ RxTypes /\ RegTypes /\ PresTypes /\ SetTypes /\ StackOK
         /\ AirTypes /\ abort_cut \in BOOLEAN /\ MeantTypes

LEMMA TypeParts == (TypeOK <=> Types /\ WaitTypes) /\ (TypeOK' <=> Types' /\ WaitTypes')
BY DEF Types, TypeOK, RxTypes, RegTypes, PresTypes, SetTypes, StackOK, AirTypes, MeantTypes,
   WaitTypes

LEMMA TypeInit == Init => TypeOK
<1> SUFFICES ASSUME Init PROVE TypeOK
  OBVIOUS
<1>1. StackOK
  BY DEF Init, StackOK
<1>2. RxTypes /\ AirTypes /\ MeantTypes
  BY EmptyPatternType DEF Init, RxTypes, AirTypes, MeantTypes, NoSym
<1>3. RegTypes /\ PresTypes /\ SetTypes /\ abort_cut \in BOOLEAN /\ WaitTypes
  BY LinkAssumption DEF Init, RegTypes, PresTypes, SetTypes, WaitTypes
<1> QED BY <1>1, <1>2, <1>3, TypeParts DEF Types

(* What a completed pattern does to the receiver, whoever handles it.      *)
LEMMA FinishTypes ==
  ASSUME Types, NEW m, rx_finish_pattern(m)
  PROVE  last_sym' = Eof /\ dbg_mode' \in BOOLEAN /\ meant' \in Pattern
BY EmptyPatternType DEF Types, RxTypes, rx_finish_pattern

LEMMA ResetTypes ==
  ASSUME Types, rx_reset
  PROVE  rx' \in Pattern /\ tainted' \in BOOLEAN
BY EmptyPatternType DEF Types, MeantTypes, rx_reset, InHandler

LEMMA ActsTypes ==
  ASSUME Types, NEW m, acts_on(m)
  PROVE  rx_finish_pattern(m) /\ phantom' \in BOOLEAN
BY DEF Types, MeantTypes, acts_on

LEMMA WaitStep == WaitTypes /\ [Next]_vars => WaitTypes'
<1> SUFFICES ASSUME WaitTypes, [Next]_vars PROVE WaitTypes'
  OBVIOUS
<1> USE DEF WaitTypes
<1>1. CASE EmitSymbol \/ WaitExpires \/ ChannelQuiet \/ SendReturns
  BY <1>1 DEF EmitSymbol, WriteSymbol, WaitExpires, ChannelQuiet, SendReturns
<1>2. CASE Receive \/ FrameTimeout
  BY <1>2 DEF Receive, FrameTimeout, RxRepeat, RxBit, OnReq, OnOk, OnPresence, OnIgnored,
     DebugLine, acts_on, rx_finish_pattern, send_set, send_msg, waitVars
<1>3. CASE RetrySet \/ PresenceTimer \/ AutoPresence \/ Command \/ UNCHANGED vars
  BY <1>3 DEF RetrySet, PresenceTimer, RetryPresence, GiveUpPresence, AutoPresence, Command,
     protocol_request_presence, protocol_send_abort, SetSettings, send_msg, vars, waitVars
<1> QED BY <1>1, <1>2, <1>3 DEF Next

LEMMA TypeStep == TypeOK /\ [Next]_vars => TypeOK'
<1> SUFFICES ASSUME Types, [Next]_vars PROVE Types'
  BY TypeParts, WaitStep
<1> USE DEF Types
<1>a. abort_cut \in BOOLEAN /\ StackOK
  OBVIOUS
<1>1. CASE EmitSymbol
  <2>1. WriteSymbol /\ ~Idle
    BY <1>1 DEF EmitSymbol, WriteSymbol
  <2>2. StackOK'
    BY <1>a, <2>1, EmitStack
  <2>3. AirTypes'
    <3>1. Top.msg \in TxMsg /\ Top.sent + 1 \in Nat
      BY <1>a, <2>1, TopType
    <3>2. FrameSym(Top.msg, Top.sent + 1) \in Bit \cup {Eof}
      BY <3>1, FrameSymType
    <3>3. CASE FrameSym(Top.msg, Top.sent + 1) = Eof
      <4>1. air' = EmptyPattern /\ heard' = SlaveDecode(air) /\ closed' = owed /\ owed' = NONE
        BY <2>1, <3>3 DEF WriteSymbol
      <4> QED BY <4>1, DecodeType, EmptyPatternType DEF AirTypes
    <3>4. CASE FrameSym(Top.msg, Top.sent + 1) # Eof
      <4>1. /\ air' = AddBit(air, FrameSym(Top.msg, Top.sent + 1))
            /\ heard' = NONE /\ closed' = NONE /\ owed' \in {Top.msg, owed}
        BY <2>1, <3>4 DEF WriteSymbol
      <4> QED BY <3>1, <3>2, <3>4, <4>1, AddBitType DEF AirTypes
    <3> QED BY <3>3, <3>4
  <2>4. RxTypes' /\ RegTypes' /\ PresTypes' /\ SetTypes' /\ MeantTypes' /\ abort_cut' \in BOOLEAN
    BY <2>1 DEF WriteSymbol, RxTypes, RegTypes, PresTypes, SetTypes, MeantTypes,
       rxVars, regVars, presVars, setVars, meantVars
  <2> QED BY <2>2, <2>3, <2>4
<1>2. CASE SendReturns
  <2>1. StackOK'
    BY <1>a, <1>2, ReturnStack
  <2>2. RxTypes'
    BY <1>2, EmptyPatternType DEF SendReturns, RxTypes
  <2>3. /\ RegTypes' /\ PresTypes' /\ SetTypes' /\ AirTypes' /\ MeantTypes'
        /\ abort_cut' \in BOOLEAN
    BY <1>2 DEF SendReturns, RegTypes, PresTypes, SetTypes, AirTypes, MeantTypes,
       regVars, presVars, setVars, airVars, meantVars
  <2> QED BY <2>1, <2>2, <2>3
<1>3. ASSUME NEW b \in Bit, RxBit(b) PROVE Types'
  <2>1. RxTypes' /\ MeantTypes'
    BY <1>3, AddBitType DEF RxBit, RxTypes, MeantTypes, Bit
  <2>2. /\ RegTypes' /\ PresTypes' /\ SetTypes' /\ StackOK' /\ AirTypes'
        /\ abort_cut' \in BOOLEAN
    BY <1>3 DEF RxBit, RegTypes, PresTypes, SetTypes, StackOK, AirTypes,
       regVars, presVars, setVars, airVars
  <2> QED BY <2>1, <2>2
<1>4. CASE OnReq
  <2>1. acts_on("REQ") /\ send_set
    BY <1>4 DEF OnReq
  <2>2. last_sym' = Eof /\ dbg_mode' \in BOOLEAN /\ meant' \in Pattern /\ phantom' \in BOOLEAN
    BY <2>1, ActsTypes, FinishTypes
  <2>3. StackOK' /\ abort_cut' \in BOOLEAN
    BY <1>a, <2>1, SendStack DEF send_set, TxMsg
  <2>4. RxTypes' /\ MeantTypes'
    BY <2>1, <2>2 DEF send_set, RxTypes, MeantTypes
  <2>5. RegTypes' /\ PresTypes' /\ SetTypes' /\ AirTypes'
    BY <2>1 DEF send_set, RegTypes, PresTypes, SetTypes, AirTypes, presVars, setVars, airVars
  <2> QED BY <2>3, <2>4, <2>5
<1>5. CASE OnOk
  <2>1. acts_on("OK") /\ rx_reset
    BY <1>5 DEF OnOk
  <2>2. last_sym' = Eof /\ dbg_mode' \in BOOLEAN /\ meant' \in Pattern /\ phantom' \in BOOLEAN
    BY <2>1, ActsTypes, FinishTypes
  <2>3. RxTypes' /\ MeantTypes'
    BY <2>1, <2>2, ResetTypes DEF RxTypes, MeantTypes
  <2>4. RegTypes'
    <3>1. awaiting_ack' \in BOOLEAN /\ slave_known' \in BOOLEAN
      BY <1>5 DEF OnOk
    <3>2. oks' = oks + 1 /\ regs' = regs
      BY <1>5 DEF OnOk
    <3>3. oks \in Nat /\ regs \in Nat
      BY DEF RegTypes
    <3>4. oks' \in Nat /\ regs' \in Nat
      BY <3>2, <3>3
    <3> QED BY <3>1, <3>4 DEF RegTypes
  <2>5. PresTypes' /\ SetTypes' /\ StackOK' /\ AirTypes' /\ abort_cut' \in BOOLEAN
    BY <1>5 DEF OnOk, PresTypes, SetTypes, StackOK, AirTypes, presVars, setVars, airVars
  <2> QED BY <2>3, <2>4, <2>5
<1>6. CASE OnPresence
  <2>1. \E m : acts_on(m)
    BY <1>6 DEF OnPresence
  <2>2. last_sym' = Eof /\ dbg_mode' \in BOOLEAN /\ meant' \in Pattern /\ phantom' \in BOOLEAN
    BY <2>1, ActsTypes, FinishTypes
  <2>3. rx_reset /\ last_present' \in {0, 1}
    BY <1>6 DEF OnPresence
  <2>4. RxTypes' /\ MeantTypes'
    BY <2>2, <2>3, ResetTypes DEF RxTypes, MeantTypes
  <2>5. /\ RegTypes' /\ PresTypes' /\ SetTypes' /\ StackOK' /\ AirTypes'
        /\ abort_cut' \in BOOLEAN
    BY <1>6, <2>3 DEF OnPresence, RegTypes, PresTypes, SetTypes, StackOK, AirTypes,
       regVars, setVars, airVars
  <2> QED BY <2>4, <2>5
<1>7. CASE OnIgnored
  <2>1. \E m : rx_finish_pattern(m)
    BY <1>7 DEF OnIgnored
  <2>2. last_sym' = Eof /\ dbg_mode' \in BOOLEAN /\ meant' \in Pattern
    BY <2>1, FinishTypes
  <2>3. rx_reset /\ UNCHANGED phantom
    BY <1>7 DEF OnIgnored
  <2>4. RxTypes' /\ MeantTypes'
    BY <2>2, <2>3, ResetTypes DEF RxTypes, MeantTypes
  <2>5. /\ RegTypes' /\ PresTypes' /\ SetTypes' /\ StackOK' /\ AirTypes'
        /\ abort_cut' \in BOOLEAN
    BY <1>7 DEF OnIgnored, RegTypes, PresTypes, SetTypes, StackOK, AirTypes,
       regVars, presVars, setVars, airVars
  <2> QED BY <2>4, <2>5
<1>8. CASE DebugLine
  BY <1>8 DEF DebugLine, RxTypes, RegTypes, PresTypes, SetTypes, StackOK, AirTypes,
     MeantTypes, regVars, presVars, setVars, airVars, meantVars
<1>9. CASE FrameTimeout
  <2>1. RxTypes' /\ MeantTypes'
    BY <1>9, EmptyPatternType DEF FrameTimeout, RxTypes, MeantTypes
  <2>2. /\ RegTypes' /\ PresTypes' /\ SetTypes' /\ StackOK' /\ AirTypes'
        /\ abort_cut' \in BOOLEAN
    BY <1>9 DEF FrameTimeout, RegTypes, PresTypes, SetTypes, StackOK, AirTypes,
       regVars, presVars, setVars, airVars
  <2> QED BY <2>1, <2>2
<1>10. ASSUME NEW m \in TxMsg, Idle, send_msg(m, FALSE),
              UNCHANGED <<rxVars, setVars, airVars, meantVars>>, RegTypes', PresTypes'
       PROVE  Types'
  <2>1. StackOK' /\ abort_cut' \in BOOLEAN
    BY <1>a, <1>10, SendStack
  <2>2. RxTypes' /\ SetTypes' /\ AirTypes' /\ MeantTypes'
    BY <1>10 DEF RxTypes, SetTypes, AirTypes, MeantTypes, rxVars, setVars, airVars, meantVars
  <2> QED BY <1>10, <2>1, <2>2
<1>11. CASE RetrySet
  <2>1. RegTypes' /\ PresTypes'
    BY <1>11 DEF RetrySet, RegTypes, PresTypes, regVars, presVars
  <2> QED BY <1>10, <1>11, <2>1 DEF RetrySet, TxMsg
<1>12. CASE RetryPresence
  <2>1. RegTypes' /\ PresTypes'
    BY <1>12 DEF RetryPresence, RegTypes, PresTypes, regVars
  <2> QED BY <1>10, <1>12, <2>1 DEF RetryPresence, TxMsg
<1>13. CASE GiveUpPresence
  <2>1. PresTypes'
    BY <1>13 DEF GiveUpPresence, PresTypes
  <2>2. RxTypes' /\ RegTypes' /\ SetTypes' /\ MeantTypes'
    BY <1>13 DEF GiveUpPresence, RxTypes, RegTypes, SetTypes, MeantTypes,
       rxVars, regVars, setVars, meantVars
  <2>3. StackOK' /\ AirTypes' /\ abort_cut' \in BOOLEAN
    BY <1>13 DEF GiveUpPresence, StackOK, AirTypes, airVars
  <2> QED BY <2>1, <2>2, <2>3
<1>14. CASE protocol_request_presence
  <2>1. RegTypes' /\ PresTypes'
    BY <1>14 DEF protocol_request_presence, RegTypes, PresTypes, regVars
  <2> QED BY <1>10, <1>14, <2>1 DEF protocol_request_presence, TxMsg
<1>15. CASE AutoPresence
  BY <1>14, <1>15 DEF AutoPresence
<1>16. CASE protocol_send_abort
  <2>1. RegTypes' /\ PresTypes'
    BY <1>16 DEF protocol_send_abort, RegTypes, PresTypes, regVars, presVars
  <2> QED BY <1>10, <1>16, <2>1 DEF protocol_send_abort, TxMsg
<1>17. ASSUME NEW n \in Nat, NEW auto \in BOOLEAN, SetSettings(n, auto) PROVE Types'
  BY <1>17 DEF SetSettings, RxTypes, RegTypes, PresTypes, SetTypes, StackOK, AirTypes,
     MeantTypes, rxVars, regVars, presVars, airVars, meantVars
<1>18. CASE RxRepeat \/ ChannelQuiet \/ WaitExpires \/ UNCHANGED vars
  BY <1>18 DEF RxRepeat, ChannelQuiet, WaitExpires, vars, RxTypes, RegTypes, PresTypes,
     SetTypes, StackOK, AirTypes, MeantTypes, rxVars, regVars, presVars, setVars, airVars,
     meantVars
<1> QED
  BY <1>1, <1>2, <1>3, <1>4, <1>5, <1>6, <1>7, <1>8, <1>9, <1>11, <1>12, <1>13, <1>14,
     <1>15, <1>16, <1>17, <1>18 DEF Next, Receive, Command, PresenceTimer

(* Every reachable state of the master is well typed: no frame writes past *)
(* its end, and every send below the outermost is a handler's.             *)
THEOREM TypeCorrect == Spec => []TypeOK
<1> QED BY TypeInit, TypeStep, PTL DEF Spec

-----------------------------------------------------------------------------
(* Registrations and the depth of the call stack.                          *)

(* A registration is pending exactly when one more was begun than ended:   *)
(* a REQ heard while SET is still being sent starts no other one.          *)
THEOREM OneRegistration == Spec => []OnePendingRegistration
<1>1. Init => OnePendingRegistration
  BY DEF Init, OnePendingRegistration
<1>2. TypeOK /\ OnePendingRegistration /\ [Next]_vars => OnePendingRegistration'
  <2> SUFFICES ASSUME TypeOK, OnePendingRegistration, [Next]_vars
               PROVE  OnePendingRegistration'
    OBVIOUS
  <2>1. RegTypes
    BY TypeParts DEF Types
  <2>2. CASE OnReq
    BY <2>1, <2>2 DEF OnReq, send_set, OnePendingRegistration, RegTypes
  <2>3. CASE OnOk
    BY <2>1, <2>3 DEF OnOk, OnePendingRegistration, RegTypes
  <2>4. CASE UNCHANGED <<awaiting_ack, regs, oks>>
    BY <2>4 DEF OnePendingRegistration
  <2>5. \/ OnReq \/ OnOk \/ UNCHANGED <<awaiting_ack, regs, oks>>
    BY DEF Next, vars, EmitSymbol, WriteSymbol, SendReturns, WaitExpires, ChannelQuiet,
       Receive, RxRepeat, RxBit, OnPresence,
       OnIgnored, DebugLine, FrameTimeout, RetrySet, PresenceTimer, RetryPresence,
       GiveUpPresence, AutoPresence, Command, protocol_request_presence,
       protocol_send_abort, SetSettings, regVars
  <2> QED BY <2>2, <2>3, <2>4, <2>5
<1> QED BY <1>1, <1>2, TypeCorrect, PTL DEF Spec

(* Beside loop()'s own, every suspended send belongs to a registration.    *)
StackWithinRegs == Len(stack) <= regs + 1

LEMMA StackWithinRegsStep ==
  TypeOK /\ StackWithinRegs /\ [Next]_vars => StackWithinRegs'
<1> SUFFICES ASSUME TypeOK, StackWithinRegs, [Next]_vars PROVE StackWithinRegs'
  OBVIOUS
<1>1. StackOK /\ RegTypes /\ abort_cut \in BOOLEAN /\ Len(stack) \in Nat
  BY TypeParts, LenProperties DEF Types, StackOK
<1>2. CASE EmitSymbol
  <2>1. Len(stack') = Len(stack) /\ regs' = regs
    BY <1>1, <1>2, EmitStack DEF EmitSymbol, WriteSymbol, regVars
  <2> QED BY <2>1 DEF StackWithinRegs
<1>3. CASE SendReturns
  <2>1. Len(stack') = Len(stack) - 1 /\ regs' = regs
    BY <1>1, <1>3, ReturnStack DEF SendReturns, regVars
  <2> QED BY <1>1, <2>1 DEF StackWithinRegs, RegTypes
<1>4. CASE OnReq
  <2>1. send_msg("SET", TRUE) /\ regs' = regs + 1
    BY <1>4 DEF OnReq, send_set
  <2>2. Len(stack') = Len(stack) + 1
    BY <1>1, <2>1, SendStack DEF TxMsg
  <2> QED BY <1>1, <2>1, <2>2 DEF StackWithinRegs, RegTypes
<1>5. ASSUME NEW m \in TxMsg, Idle, send_msg(m, FALSE), UNCHANGED regs
      PROVE  StackWithinRegs'
  <2>1. Len(stack') = Len(stack) + 1 /\ Len(stack) = 0
    BY <1>1, <1>5, SendStack DEF Idle
  <2> QED BY <1>1, <1>5, <2>1 DEF StackWithinRegs, RegTypes
<1>6. CASE RetrySet
  BY <1>5, <1>6 DEF RetrySet, TxMsg, regVars
<1>7. CASE RetryPresence
  BY <1>5, <1>7 DEF RetryPresence, TxMsg, regVars
<1>8. CASE protocol_request_presence
  BY <1>5, <1>8 DEF protocol_request_presence, TxMsg, regVars
<1>9. CASE protocol_send_abort
  BY <1>5, <1>9 DEF protocol_send_abort, TxMsg, regVars
<1>10. CASE UNCHANGED <<stack, regs>>
  BY <1>10 DEF StackWithinRegs
<1>11. \/ EmitSymbol \/ SendReturns \/ OnReq \/ RetrySet \/ RetryPresence
       \/ protocol_request_presence \/ protocol_send_abort \/ UNCHANGED <<stack, regs>>
  BY DEF Next, vars, WaitExpires, ChannelQuiet, Receive, RxRepeat, RxBit, OnOk, OnPresence,
     OnIgnored, DebugLine, FrameTimeout, PresenceTimer, GiveUpPresence, AutoPresence, Command, SetSettings, regVars
<1> QED BY <1>2, <1>3, <1>4, <1>6, <1>7, <1>8, <1>9, <1>10, <1>11

(* However the slave's frames arrive, the recursion tick -> handler ->     *)
(* send -> tick is no deeper than the registrations it completed.          *)
THEOREM BoundedNesting == Spec => []NestingBoundedByOks
<1>1. Init => StackWithinRegs
  BY DEF Init, StackWithinRegs
<1>2. TypeOK /\ StackWithinRegs /\ OnePendingRegistration => NestingBoundedByOks
  <2> SUFFICES ASSUME TypeOK, StackWithinRegs, OnePendingRegistration
               PROVE  NestingBoundedByOks
    OBVIOUS
  <2>1. RegTypes /\ Len(stack) \in Nat
    BY TypeParts, LenProperties DEF Types, StackOK
  <2> QED BY <2>1 DEF StackWithinRegs, OnePendingRegistration, NestingBoundedByOks, RegTypes
<1> QED BY <1>1, <1>2, StackWithinRegsStep, TypeCorrect, OneRegistration, PTL DEF Spec

-----------------------------------------------------------------------------
(* Reception.                                                              *)

(* While a handler is suspended in a send the reception counts as tainted. *)
HandlerTaints == InHandler => tainted

LEMMA CleanStep ==
  TypeOK /\ HandlerTaints /\ CleanReception /\ [Next]_vars
     => HandlerTaints' /\ CleanReception'
<1> SUFFICES ASSUME TypeOK, HandlerTaints, CleanReception, [Next]_vars
             PROVE  HandlerTaints' /\ CleanReception'
  OBVIOUS
<1> USE DEF HandlerTaints, CleanReception
<1>1. StackOK /\ abort_cut \in BOOLEAN /\ tainted \in BOOLEAN /\ Len(stack) \in Nat
  BY TypeParts, LenProperties DEF Types, StackOK, MeantTypes
<1>2. CASE EmitSymbol
  <2>1. WriteSymbol /\ ~Idle
    BY <1>2 DEF EmitSymbol, WriteSymbol
  <2>2. UNCHANGED <<rx, meant, tainted>>
    BY <2>1 DEF WriteSymbol, rxVars, meantVars
  <2>3. InHandler' => InHandler
    <3> SUFFICES ASSUME NEW i \in 1..Len(stack'), stack'[i].handler
                 PROVE  InHandler
      BY DEF InHandler
    <3>1. /\ Len(stack') = Len(stack) /\ Top' = [Top EXCEPT !.sent = @ + 1]
          /\ \A j \in 1..(Len(stack) - 1) : stack'[j] = stack[j]
      BY <1>1, <2>1, EmitStack
    <3>2. Top \in Frame
      BY <1>1, <2>1, TopType
    <3>3. Top'.handler = Top.handler
      BY <3>1, <3>2 DEF Frame
    <3>4. CASE i = Len(stack)
      <4>1. stack'[i] = Top' /\ stack[i] = Top
        BY <3>1, <3>4 DEF Top
      <4> QED BY <3>1, <3>3, <4>1 DEF InHandler
    <3>5. CASE i # Len(stack)
      <4>1. i \in 1..(Len(stack) - 1)
        BY <1>1, <3>1, <3>5
      <4>2. stack'[i] = stack[i] /\ i \in 1..Len(stack)
        BY <3>1, <4>1
      <4> QED BY <4>2 DEF InHandler
    <3> QED BY <3>4, <3>5
  <2> QED BY <2>2, <2>3
<1>3. CASE SendReturns
  <2>1. UNCHANGED <<meant, tainted>> /\ rx' = IF Top.handler THEN EmptyPattern ELSE rx
    BY <1>3 DEF SendReturns, meantVars
  <2>2. InHandler' => InHandler
    BY <1>1, <1>3, ReturnStack DEF InHandler
  <2>3. Top.handler => tainted
    BY <1>1, <1>3, TopType DEF SendReturns, InHandler, Top
  <2> QED BY <2>1, <2>2, <2>3
<1>4. ASSUME NEW b \in Bit, RxBit(b) PROVE HandlerTaints' /\ CleanReception'
  BY <1>4 DEF RxBit, InHandler
<1>5. CASE OnReq
  BY <1>5 DEF OnReq, send_set
<1>6. ASSUME NEW m, rx_finish_pattern(m), rx_reset, UNCHANGED stack
      PROVE  HandlerTaints' /\ CleanReception'
  BY <1>1, <1>6 DEF rx_finish_pattern, rx_reset, InHandler
<1>7. CASE OnOk
  BY <1>6, <1>7 DEF OnOk, acts_on
<1>8. CASE OnPresence
  BY <1>6, <1>8 DEF OnPresence, acts_on
<1>9. CASE OnIgnored
  BY <1>6, <1>9 DEF OnIgnored
<1>10. CASE FrameTimeout
  BY <1>10 DEF FrameTimeout, InHandler
<1>11. ASSUME NEW m \in TxMsg, Idle, send_msg(m, FALSE), UNCHANGED <<rxVars, meantVars>>
       PROVE  HandlerTaints' /\ CleanReception'
  <2>0. Len(stack) = 0
    BY <1>11 DEF Idle
  <2>1. /\ Len(stack') = Len(stack) + 1
        /\ Top' = [msg |-> m, handler |-> FALSE, sent |-> 0, cut |-> FALSE]
    BY <1>1, <1>11, SendStack
  <2>2. stack'[1].handler = FALSE
    BY <2>0, <2>1 DEF Top
  <2>3. 1..Len(stack') = {1}
    BY <2>0, <2>1
  <2>4. ~InHandler'
    BY <2>2, <2>3 DEF InHandler
  <2> QED BY <1>11, <2>4 DEF rxVars, meantVars
<1>12. CASE RetrySet
  BY <1>11, <1>12 DEF RetrySet, TxMsg
<1>13. CASE RetryPresence
  BY <1>11, <1>13 DEF RetryPresence, TxMsg
<1>14. CASE protocol_request_presence
  BY <1>11, <1>14 DEF protocol_request_presence, TxMsg
<1>15. CASE protocol_send_abort
  BY <1>11, <1>15 DEF protocol_send_abort, TxMsg
<1>16. CASE UNCHANGED <<rx, meant, tainted, stack>>
  BY <1>16 DEF InHandler
<1>17. CASE \/ RxRepeat \/ ChannelQuiet \/ WaitExpires
            \/ DebugLine \/ GiveUpPresence \/ UNCHANGED vars
            \/ \E n \in Nat, auto \in BOOLEAN : SetSettings(n, auto)
  BY <1>16, <1>17 DEF RxRepeat, ChannelQuiet, WaitExpires, DebugLine, GiveUpPresence,
     SetSettings, vars, rxVars, meantVars
<1> QED
  BY <1>2, <1>3, <1>4, <1>5, <1>7, <1>8, <1>9, <1>10, <1>12, <1>13, <1>14, <1>15, <1>17
     DEF Next, Receive, Command, PresenceTimer, AutoPresence

(* Once the receiver has read an EOF with no handler suspended, the        *)
(* pattern it builds is the one the slave sends.                           *)
THEOREM ReceptionClean == Spec => []CleanReception
<1>1. Init => HandlerTaints /\ CleanReception
  BY DEF Init, HandlerTaints, CleanReception, InHandler
<1> QED BY <1>1, CleanStep, TypeCorrect, PTL DEF Spec

-----------------------------------------------------------------------------
(* Transmission: what the air holds, given where the innermost send is.    *)

LastPre    == 1 + EofBurst               \* the last EOF of the preamble
LastBit(m) == 1 + EofBurst + PatLen(m)   \* the last bit of the pattern

(* Preamble and tail are EOFs.                                             *)
LEMMA EofSyms ==
  ASSUME NEW m \in TxMsg, NEW i \in Nat, i <= LastPre \/ i > LastBit(m)
  PROVE  FrameSym(m, i) = Eof
BY Codebook, LinkAssumption DEF FrameSym, LastPre, LastBit

(* The bits start with the codebook's first and alternate.                 *)
LEMMA BitSyms ==
  ASSUME NEW m \in TxMsg, NEW i \in Nat, LastPre < i, i <= LastBit(m)
  PROVE  /\ FrameSym(m, i) \in Bit /\ FrameSym(m, i) # Eof
         /\ i = LastPre + 1 => FrameSym(m, i) = msg_to_pattern(m).first
         /\ i > LastPre + 1 => FrameSym(m, i) # FrameSym(m, i - 1)
<1> DEFINE a == msg_to_pattern(m).first
           k == i - 2 - EofBurst
<1>1. a \in {0, 1} /\ EofBurst \in Nat /\ PatLen(m) \in {2, 3}
  BY Codebook, LinkAssumption DEF Bit
<1>2. k \in {0, 1, 2} /\ 1 + EofBurst < i /\ i <= 1 + EofBurst + PatLen(m)
  BY <1>1 DEF LastPre, LastBit
<1>3. FrameSym(m, i) = (a + k) % 2
  BY <1>2 DEF FrameSym
<1>4. i > LastPre + 1 => FrameSym(m, i - 1) = (a + k - 1) % 2 /\ k \in {1, 2}
  BY <1>1, <1>2 DEF FrameSym, LastPre
<1>5. i = LastPre + 1 => k = 0
  BY <1>1 DEF LastPre
<1> HIDE DEF a, k
<1>6. (a + k) % 2 \in {0, 1}
  BY <1>1, <1>2
<1>7. k = 0 => (a + k) % 2 = a
  BY <1>1
<1>8. k \in {1, 2} => (a + k) % 2 # (a + k - 1) % 2
  BY <1>1
<1> QED BY <1>3, <1>4, <1>5, <1>6, <1>7, <1>8 DEF Bit, Eof, a

(* A pattern with a message's first bit and length decodes as the message; *)
(* one that is shorter than two bits decodes as nothing.                   *)
LEMMA DecodeFull ==
  ASSUME NEW m \in TxMsg, NEW p \in Pattern,
         p.first = msg_to_pattern(m).first, p.len = PatLen(m)
  PROVE  SlaveDecode(p) = m
BY DEF TxMsg, SlaveDecode, msg_to_pattern, PatLen

LEMMA DecodeShort ==
  ASSUME NEW p, p.len # 2, p.len # 3
  PROVE  SlaveDecode(p) = NONE
BY DEF SlaveDecode

LEMMA NoneNotMsg == NONE \notin TxMsg
BY DEF NONE, TxMsg

LEMMA DecodeEmpty == SlaveDecode(EmptyPattern) = NONE
BY DEF SlaveDecode, EmptyPattern

InBits(f) == LastPre < f.sent /\ f.sent <= LastBit(f.msg)

(* What the next EOF would make the slave decode is owed, or is a fragment *)
(* of an ABORT that has been cut (c).                                      *)
Explained(a, o, c) == IF o # NONE THEN SlaveDecode(a) = o
                      ELSE SlaveDecode(a) # NONE => c

AirEmpty(a, o) == a = EmptyPattern /\ o = NONE

(* The air a and the owed message o while f is the innermost send: before  *)
(* its first symbol, in its preamble or tail (or resumed there or after    *)
(* its last bit), in its bits undisturbed, in its bits after another frame *)
(* was nested.                                                             *)
Starting(f, a, o, c) == f.sent = 0 /\ Explained(a, o, c)
Outside(f, a, o)     == /\ 0 < f.sent /\ AirEmpty(a, o)
                        /\ f.sent <= LastPre \/ LastBit(f.msg) <= f.sent
Undisturbed(f, a, o) == /\ InBits(f) /\ ~f.cut
                        /\ a.first = msg_to_pattern(f.msg).first
                        /\ a.len = f.sent - LastPre
                        /\ a.last = FrameSym(f.msg, f.sent)
                        /\ o = IF f.sent = LastBit(f.msg) THEN f.msg ELSE NONE
Fragment(f, a, o)    == /\ InBits(f) /\ f.cut /\ o = NONE
                        /\ f.msg # "ABORT" => a.len < f.sent - LastPre

TopAir(f, a, o, c) == \/ Starting(f, a, o, c) \/ Outside(f, a, o)
                      \/ Undisturbed(f, a, o) \/ Fragment(f, a, o)

(* What is recorded of every suspended send.                               *)
FrameNote(f, c) == /\ f.cut => f.sent > LastPre
                   /\ f.cut /\ f.msg = "ABORT" => c

AirInv ==
  /\ Idle => AirEmpty(air, owed)
  /\ ~Idle => TopAir(Top, air, owed, abort_cut)
  /\ \A i \in 1..Len(stack) : FrameNote(stack[i], abort_cut)
  /\ \A i \in 1..Len(stack) : i < Len(stack) /\ MidBits(stack[i]) => stack[i].cut

(* Wherever the innermost send is, unless its next symbol is a bit, what   *)
(* the air holds is explained; and it is if the send is cut here.          *)
LEMMA AirExplained ==
  ASSUME NEW f \in Frame, TopAir(f, air, owed, abort_cut), FrameNote(f, abort_cut), air \in Pattern,
         owed \in TxMsg \cup {NONE}
  PROVE  (MidBits(f) /\ f.msg = "ABORT" /\ owed = NONE) \/ Explained(air, owed, abort_cut)
<1>0. f.msg \in TxMsg /\ f.sent \in Nat /\ LastPre \in Nat /\ PatLen(f.msg) \in {2, 3}
      /\ LastBit(f.msg) = LastPre + PatLen(f.msg) /\ air.len \in Nat
  BY Codebook, LinkAssumption DEF Frame, LastPre, LastBit, Pattern
<1>1. CASE Starting(f, air, owed, abort_cut)
  BY <1>1 DEF Starting
<1>2. CASE Outside(f, air, owed)
  BY <1>2, DecodeEmpty DEF Outside, AirEmpty, Explained
<1>3. CASE Undisturbed(f, air, owed)
  <2>1. CASE f.sent = LastBit(f.msg)
    <3>1. air.len = PatLen(f.msg) /\ owed = f.msg
      BY <1>0, <1>3, <2>1 DEF Undisturbed
    <3>2. SlaveDecode(air) = f.msg
      BY <1>0, <1>3, <3>1, DecodeFull DEF Undisturbed
    <3> QED BY <1>0, <3>1, <3>2, NoneNotMsg DEF Explained
  <2>2. CASE f.sent # LastBit(f.msg) /\ f.msg # "ABORT"
    <3>1. PatLen(f.msg) = 2
      BY <1>0, <2>2 DEF PatLen, msg_to_pattern, TxMsg
    <3>2. air.len = 1 /\ owed = NONE
      BY <1>0, <1>3, <2>2, <3>1 DEF Undisturbed, InBits
    <3>3. SlaveDecode(air) = NONE
      BY <3>2, DecodeShort
    <3> QED BY <3>2, <3>3 DEF Explained
  <2>3. CASE f.sent # LastBit(f.msg) /\ f.msg = "ABORT"
    BY <1>0, <1>3, <2>3 DEF Undisturbed, InBits, MidBits, LastPre, LastBit
  <2> QED BY <2>1, <2>2, <2>3
<1>4. CASE Fragment(f, air, owed)
  <2>1. CASE f.msg = "ABORT"
    BY <1>4, <2>1 DEF Fragment, FrameNote, Explained
  <2>2. CASE f.msg # "ABORT"
    <3>1. PatLen(f.msg) = 2
      BY <1>0, <2>2 DEF PatLen, msg_to_pattern, TxMsg
    <3>2. air.len < 2 /\ owed = NONE
      BY <1>0, <1>4, <2>2, <3>1 DEF Fragment, InBits
    <3>3. SlaveDecode(air) = NONE
      BY <1>0, <3>2, DecodeShort
    <3> QED BY <3>2, <3>3 DEF Explained
  <2> QED BY <2>1, <2>2
<1> QED BY <1>1, <1>2, <1>3, <1>4 DEF TopAir

(* One symbol of the innermost send, on the air.                           *)
LEMMA AirEmit ==
  ASSUME TypeOK, AirInv, WriteSymbol
  PROVE  AirInv' /\ IntactFrameHeard' /\ ForgeryNeedsCutAbort'
<1> DEFINE f == Top
           s == FrameSym(f.msg, f.sent + 1)
<1>1. /\ StackOK /\ ~Idle /\ air \in Pattern /\ owed \in TxMsg \cup {NONE}
      /\ f.sent < FrameLen(f.msg)
  BY TypeParts DEF Types, AirTypes, WriteSymbol
<1>2. /\ f \in Frame /\ f.msg \in TxMsg /\ f.sent \in Nat /\ f.cut \in BOOLEAN
      /\ Len(stack) \in Nat /\ Len(stack) \in 1..Len(stack)
  BY <1>1, TopType
<1>3. /\ Len(stack') = Len(stack) /\ ~Idle'
      /\ Top' = [f EXCEPT !.sent = @ + 1]
      /\ \A i \in 1..(Len(stack) - 1) : stack'[i] = stack[i]
  BY <1>1, EmitStack DEF Idle
<1>4. Top'.msg = f.msg /\ Top'.sent = f.sent + 1 /\ Top'.cut = f.cut
  BY <1>2, <1>3 DEF Frame
<1>5. TopAir(f, air, owed, abort_cut) /\ FrameNote(f, abort_cut) /\ abort_cut' = abort_cut
  BY <1>1, <1>2 DEF AirInv, Top, WriteSymbol
<1>6. /\ LastPre \in Nat /\ LastPre > 0 /\ PatLen(f.msg) \in {2, 3}
      /\ LastBit(f.msg) = LastPre + PatLen(f.msg)
      /\ air.len \in Nat /\ air.len <= RxMax /\ RxMax > 3 /\ RxMax \in Nat
  BY <1>1, <1>2, Codebook, LinkAssumption DEF LastPre, LastBit, Pattern
<1> HIDE DEF f
<1>7. FrameNote(Top', abort_cut') /\ \A i \in 1..Len(stack') : FrameNote(stack'[i], abort_cut')
  <2>1. FrameNote(Top', abort_cut')
    BY <1>2, <1>4, <1>5, <1>6 DEF FrameNote
  <2>2. ASSUME NEW i \in 1..Len(stack') PROVE FrameNote(stack'[i], abort_cut')
    <3>1. CASE i = Len(stack)
      BY <1>3, <2>1, <3>1 DEF Top
    <3>2. CASE i # Len(stack)
      <4>1. i \in 1..(Len(stack) - 1) /\ i \in 1..Len(stack)
        BY <1>2, <1>3, <3>2
      <4>2. stack'[i] = stack[i] /\ FrameNote(stack[i], abort_cut)
        BY <1>3, <4>1 DEF AirInv
      <4> QED BY <1>5, <4>2 DEF FrameNote
    <3> QED BY <3>1, <3>2
  <2> QED BY <2>1, <2>2
<1>8. \A i \in 1..Len(stack') : i < Len(stack') /\ MidBits(stack'[i]) => stack'[i].cut
  <2> SUFFICES ASSUME NEW i \in 1..Len(stack'), i < Len(stack'), MidBits(stack'[i])
               PROVE  stack'[i].cut
    OBVIOUS
  <2>1. i \in 1..(Len(stack) - 1) /\ i \in 1..Len(stack) /\ i < Len(stack)
    BY <1>2, <1>3
  <2> QED BY <1>3, <2>1 DEF AirInv
<1>9. CASE s = Eof
  <2>1. ~(LastPre <= f.sent /\ f.sent < LastBit(f.msg))
    BY <1>2, <1>6, <1>9, BitSyms
  <2>2. /\ air' = EmptyPattern /\ heard' = SlaveDecode(air) /\ closed' = owed /\ owed' = NONE
    BY <1>9 DEF WriteSymbol, f
  <2>3. Explained(air, owed, abort_cut)
    <3>1. ~MidBits(f)
      BY <1>2, <1>6, <2>1, LinkAssumption DEF MidBits, LastPre, LastBit
    <3> QED BY <1>1, <1>2, <1>5, <3>1, AirExplained
  <2>4. IntactFrameHeard' /\ ForgeryNeedsCutAbort'
    BY <1>5, <2>2, <2>3 DEF Explained, IntactFrameHeard, ForgeryNeedsCutAbort
  <2>5. Outside(Top', air', owed')
    BY <1>2, <1>4, <1>6, <2>1, <2>2 DEF Outside, AirEmpty
  <2> QED BY <1>3, <1>7, <1>8, <2>4, <2>5 DEF AirInv, TopAir
<1>10. CASE s # Eof
  <2>1. LastPre <= f.sent /\ f.sent < LastBit(f.msg)
    BY <1>2, <1>6, <1>10, EofSyms
  <2>2. /\ s \in Bit
        /\ f.sent = LastPre => s = msg_to_pattern(f.msg).first
        /\ f.sent > LastPre => s # FrameSym(f.msg, f.sent)
    BY <1>2, <1>6, <2>1, BitSyms
  <2>3. /\ air' = AddBit(air, s) /\ heard' = NONE /\ closed' = NONE
        /\ owed' = IF f.sent + 1 = LastBit(f.msg) /\ ~f.cut THEN f.msg ELSE owed
    BY <1>10 DEF WriteSymbol, LastBit, f
  <2>4. IntactFrameHeard' /\ ForgeryNeedsCutAbort'
    BY <2>3 DEF IntactFrameHeard, ForgeryNeedsCutAbort
  <2>5. InBits(Top')
    BY <1>2, <1>4, <1>6, <2>1 DEF InBits
  <2> HIDE DEF s
  <2>6. CASE Outside(f, air, owed)
    <3>1. air.len = 0 /\ owed = NONE
      BY <2>6 DEF Outside, AirEmpty, EmptyPattern
    <3>2. air'.len = 1 /\ air'.first = s /\ air'.last = s
      BY <1>6, <2>3, <3>1 DEF AddBit
    <3>3. f.sent = LastPre
      BY <1>2, <1>6, <2>1, <2>6 DEF Outside
    <3>4. ~f.cut
      BY <1>5, <1>6, <3>3 DEF FrameNote
    <3>5. owed' = NONE /\ f.sent + 1 # LastBit(f.msg)
      BY <1>6, <2>3, <3>1, <3>3
    <3>6. Undisturbed(Top', air', owed')
      BY <1>4, <1>6, <2>2, <2>5, <3>2, <3>3, <3>4, <3>5 DEF Undisturbed, s, InBits
    <3> QED BY <1>3, <1>7, <1>8, <2>4, <3>6 DEF AirInv, TopAir
  <2>7. CASE Undisturbed(f, air, owed)
    <3>1. f.sent > LastPre /\ ~f.cut /\ owed = NONE /\ air.len = f.sent - LastPre
      BY <1>6, <2>1, <2>7 DEF Undisturbed, InBits
    <3>2. s # air.last
      BY <2>2, <2>7, <3>1 DEF Undisturbed
    <3>3. /\ air'.len = air.len + 1 /\ air'.first = air.first /\ air'.last = s
      BY <1>2, <1>6, <2>1, <2>3, <3>1, <3>2 DEF AddBit
    <3>4. Undisturbed(Top', air', owed')
      BY <1>2, <1>4, <1>6, <2>3, <2>5, <2>7, <3>1, <3>3 DEF Undisturbed, s, InBits
    <3> QED BY <1>3, <1>7, <1>8, <2>4, <3>4 DEF AirInv, TopAir
  <2>8. CASE Fragment(f, air, owed)
    <3>1. f.cut /\ owed' = NONE
      BY <2>3, <2>8 DEF Fragment
    <3>2. air'.len <= air.len + 1 /\ air'.len \in Nat
      BY <1>6, <2>3 DEF AddBit
    <3>3. f.msg # "ABORT" => air'.len < f.sent + 1 - LastPre
      BY <1>2, <1>6, <2>8, <3>2 DEF Fragment
    <3>4. Fragment(Top', air', owed')
      <4>1. Top'.cut
        BY <1>4, <3>1
      <4>2. Top'.msg # "ABORT" => air'.len < Top'.sent - LastPre
        BY <1>2, <1>4, <1>6, <3>3
      <4> QED BY <2>5, <3>1, <4>1, <4>2 DEF Fragment
    <3> QED BY <1>3, <1>7, <1>8, <2>4, <3>4 DEF AirInv, TopAir
  <2>9. ~Starting(f, air, owed, abort_cut)
    BY <1>6, <2>1 DEF Starting
  <2> QED BY <1>5, <2>6, <2>7, <2>8, <2>9 DEF TopAir
<1> QED BY <1>9, <1>10

(* A nested send: what is on the air stays explained.                      *)
LEMMA AirSend ==
  ASSUME TypeOK, AirInv, NEW m \in TxMsg, NEW h \in BOOLEAN, Idle \/ h,
         send_msg(m, h), UNCHANGED airVars
  PROVE  AirInv' /\ (abort_cut => abort_cut')
<1>1. /\ StackOK /\ abort_cut \in BOOLEAN /\ air \in Pattern
      /\ owed \in TxMsg \cup {NONE} /\ Len(stack) \in Nat
  BY TypeParts, LenProperties DEF Types, AirTypes, StackOK
<1>2. /\ Len(stack') = Len(stack) + 1 /\ stack' # <<>>
      /\ Top' = [msg |-> m, handler |-> h, sent |-> 0, cut |-> FALSE]
      /\ \A i \in 1..(Len(stack) - 1) : stack'[i] = stack[i]
      /\ ~Idle => stack'[Len(stack)] = [Top EXCEPT !.cut = @ \/ MidBits(Top)]
      /\ abort_cut' = (abort_cut \/ (~Idle /\ MidBits(Top) /\ Top.msg = "ABORT"))
  BY <1>1, SendStack
<1>3. Explained(air', owed', abort_cut')
  <2>1. CASE Idle
    BY <2>1, DecodeEmpty DEF AirInv, AirEmpty, Explained, airVars
  <2>2. CASE ~Idle
    <3>1. Top \in Frame /\ TopAir(Top, air, owed, abort_cut) /\ FrameNote(Top, abort_cut)
      BY <1>1, <2>2, TopType DEF AirInv, Top
    <3>2. (MidBits(Top) /\ Top.msg = "ABORT" /\ owed = NONE) \/ Explained(air, owed, abort_cut)
      BY <1>1, <3>1, AirExplained
    <3> QED BY <1>2, <2>2, <3>2 DEF Explained, airVars
  <2> QED BY <2>1, <2>2
<1>4. TopAir(Top', air', owed', abort_cut')
  BY <1>2, <1>3 DEF TopAir, Starting
<1>5. ASSUME NEW i \in 1..Len(stack')
      PROVE  /\ FrameNote(stack'[i], abort_cut')
             /\ i < Len(stack') /\ MidBits(stack'[i]) => stack'[i].cut
  <2>1. CASE i = Len(stack')
    BY <1>2, <2>1 DEF FrameNote, Top
  <2>2. CASE i = Len(stack)
    <3> DEFINE f == Top
               g == stack'[i]
    <3>0. Len(stack) \in 1..Len(stack) /\ ~Idle
      BY <1>1, <2>2 DEF Idle
    <3>1. f \in Frame /\ FrameNote(f, abort_cut)
      BY <1>1, <3>0, TopType DEF AirInv, Top
    <3>2. g = [f EXCEPT !.cut = @ \/ MidBits(f)]
      BY <1>2, <2>2, <3>0
    <3>3. /\ g.msg = f.msg /\ g.sent = f.sent /\ g.cut = (f.cut \/ MidBits(f))
          /\ f.sent \in Nat
      BY <3>1, <3>2 DEF Frame
    <3> HIDE DEF f, g
    <3>4. MidBits(f) => f.sent > LastPre
      BY <3>3, LinkAssumption DEF MidBits, LastPre
    <3>5. f.msg = "ABORT" /\ MidBits(f) => abort_cut'
      BY <1>2, <3>0 DEF f
    <3>6. MidBits(g) => MidBits(f)
      BY <3>3 DEF MidBits
    <3>7. FrameNote(g, abort_cut') /\ (MidBits(g) => g.cut)
      BY <1>2, <3>1, <3>3, <3>4, <3>5, <3>6 DEF FrameNote
    <3> QED BY <3>7 DEF g
  <2>3. CASE i \in 1..(Len(stack) - 1)
    <3>1. stack'[i] = stack[i] /\ i \in 1..Len(stack) /\ i < Len(stack)
      BY <1>1, <1>2, <2>3
    <3>2. FrameNote(stack[i], abort_cut) /\ (MidBits(stack[i]) => stack[i].cut)
      BY <3>1 DEF AirInv
    <3> QED BY <1>2, <3>1, <3>2 DEF FrameNote
  <2> QED BY <1>1, <1>2, <2>1, <2>2, <2>3
<1>6. ~Idle'
  BY <1>2 DEF Idle
<1> QED BY <1>2, <1>4, <1>5, <1>6 DEF AirInv

(* A return leaves the air empty, wherever the frame below was suspended.  *)
LEMMA AirReturn ==
  ASSUME TypeOK, AirInv, SendReturns
  PROVE  AirInv'
<1>1. StackOK /\ ~Idle /\ UNCHANGED <<air, owed, abort_cut>> /\ Top.sent = FrameLen(Top.msg)
  BY TypeParts DEF Types, SendReturns, airVars
<1>2. Top \in Frame /\ Top.msg \in TxMsg /\ Len(stack) \in Nat /\ Len(stack) > 0
  BY <1>1, TopType
<1>3. Len(stack') = Len(stack) - 1 /\ \A i \in 1..Len(stack') : stack'[i] = stack[i]
  BY <1>1, ReturnStack
<1>4. AirEmpty(air', owed')
  <2>1. Top.sent > LastBit(Top.msg) /\ Top.sent # 0
    BY <1>1, <1>2, Codebook, LinkAssumption DEF LastBit
  <2>2. Outside(Top, air, owed)
    BY <1>1, <2>1, Codebook, LinkAssumption, <1>2
       DEF AirInv, TopAir, Starting, Undisturbed, Fragment, InBits, LastBit
  <2> QED BY <1>1, <2>2 DEF Outside, AirEmpty
<1>5. ASSUME NEW i \in 1..Len(stack')
      PROVE  FrameNote(stack'[i], abort_cut') /\ (MidBits(stack'[i]) => stack'[i].cut)
  <2>1. stack'[i] = stack[i] /\ i \in 1..Len(stack) /\ i < Len(stack)
    BY <1>2, <1>3
  <2>2. FrameNote(stack[i], abort_cut) /\ (MidBits(stack[i]) => stack[i].cut)
    BY <2>1 DEF AirInv
  <2> QED BY <1>1, <2>1, <2>2 DEF FrameNote
<1>6. ASSUME ~Idle' PROVE TopAir(Top', air', owed', abort_cut')
  <2> DEFINE f == Top'
  <2>1. StackOK'
    BY <1>1, ReturnStack
  <2>2. Len(stack') \in 1..Len(stack')
    BY <1>6, <2>1, EmptySeq, LenProperties DEF StackOK, Idle
  <2>3. f \in Frame
    BY <2>1, <2>2, ElementOfSeq DEF StackOK, Top
  <2>4. MidBits(f) => f.cut
    BY <1>5, <2>2 DEF Top
  <2>5. f.msg \in TxMsg /\ f.sent \in Nat
    BY <2>3 DEF Frame
  <2> HIDE DEF f
  <2>6. air'.len = 0 /\ owed' = NONE /\ Explained(air', owed', abort_cut')
    BY <1>4, DecodeEmpty DEF AirEmpty, EmptyPattern, Explained
  <2>7. CASE MidBits(f)
    <3>1. InBits(f) /\ f.sent > LastPre
      BY <2>5, <2>7, Codebook, LinkAssumption DEF InBits, MidBits, LastPre, LastBit
    <3>2. 0 < f.sent - LastPre
      BY <2>5, <3>1, LinkAssumption DEF LastPre
    <3>3. Fragment(f, air', owed')
      BY <2>4, <2>6, <2>7, <3>1, <3>2 DEF Fragment, InBits
    <3> QED BY <3>3 DEF TopAir, f
  <2>8. CASE ~MidBits(f) /\ f.sent > 0
    <3>1. Outside(f, air', owed')
      BY <1>4, <2>5, <2>8, Codebook, LinkAssumption DEF Outside, MidBits, LastPre, LastBit
    <3> QED BY <3>1 DEF TopAir, f
  <2>9. CASE f.sent = 0
    BY <2>6, <2>9 DEF TopAir, Starting, f
  <2> QED BY <2>5, <2>7, <2>8, <2>9
<1> QED BY <1>4, <1>5, <1>6 DEF AirInv

(* The inductive invariant of the transmitting side.                       *)
TxInv == AirInv /\ IntactFrameHeard /\ ForgeryNeedsCutAbort

LEMMA TxStep == TypeOK /\ TxInv /\ [Next]_vars => TxInv'
<1> SUFFICES ASSUME TypeOK, TxInv, [Next]_vars PROVE TxInv'
  OBVIOUS
<1>1. CASE EmitSymbol
  BY <1>1, AirEmit DEF TxInv, EmitSymbol
<1>2. CASE SendReturns
  BY <1>2, AirReturn DEF TxInv, SendReturns, airVars, IntactFrameHeard, ForgeryNeedsCutAbort
<1>3. ASSUME NEW m \in TxMsg, NEW h \in BOOLEAN, Idle \/ h, send_msg(m, h),
             UNCHANGED airVars
      PROVE  TxInv'
  <2>1. AirInv' /\ (abort_cut => abort_cut')
    BY <1>3, AirSend DEF TxInv
  <2> QED BY <1>3, <2>1 DEF TxInv, airVars, IntactFrameHeard, ForgeryNeedsCutAbort
<1>4. CASE OnReq
  BY <1>3, <1>4 DEF OnReq, send_set, TxMsg
<1>5. CASE RetrySet
  BY <1>3, <1>5 DEF RetrySet, TxMsg
<1>6. CASE RetryPresence
  BY <1>3, <1>6 DEF RetryPresence, TxMsg
<1>7. CASE protocol_request_presence
  BY <1>3, <1>7 DEF protocol_request_presence, TxMsg
<1>8. CASE protocol_send_abort
  BY <1>3, <1>8 DEF protocol_send_abort, TxMsg
<1>9. CASE UNCHANGED <<stack, airVars, abort_cut>>
  BY <1>9 DEF TxInv, AirInv, IntactFrameHeard, ForgeryNeedsCutAbort, airVars, Idle, Top,
     AirEmpty, TopAir, Starting, Outside, Undisturbed, Fragment, FrameNote, Explained
<1>10. \/ EmitSymbol \/ SendReturns \/ OnReq \/ RetrySet \/ RetryPresence
       \/ protocol_request_presence \/ protocol_send_abort
       \/ UNCHANGED <<stack, airVars, abort_cut>>
  BY DEF Next, vars, WaitExpires, ChannelQuiet, Receive, RxRepeat, RxBit, OnOk, OnPresence,
     OnIgnored, DebugLine, FrameTimeout, PresenceTimer, GiveUpPresence, AutoPresence, Command, SetSettings
<1> QED BY <1>1, <1>2, <1>4, <1>5, <1>6, <1>7, <1>8, <1>9, <1>10

LEMMA TxInit == Init => TxInv
<1> SUFFICES ASSUME Init PROVE TxInv
  OBVIOUS
<1>1. Idle /\ Len(stack) = 0 /\ AirEmpty(air, owed)
  BY DEF Init, Idle, AirEmpty
<1> QED BY <1>1 DEF Init, TxInv, AirInv, IntactFrameHeard, ForgeryNeedsCutAbort

(* A frame is decoded as its message whatever was nested outside its bits, *)
(* and no interleaving of nested sends forges a message unless it cuts an  *)
(* ABORT between two of its bits.                                          *)
THEOREM SlaveHearsFrames == Spec => []FramesHeard
BY TxInit, TxStep, TypeCorrect, PTL DEF Spec, TxInv, FramesHeard
=============================================================================
