----------------------------- MODULE MasterLink -----------------------------
(***************************************************************************)
(* The ESP32 master: the link layer to the FPGA (fpga_uart_link.cpp) and   *)
(* the registration / presence protocol above it (protocol.cpp).           *)
(*                                                                         *)
(* Everything runs in one thread, loop(), but sending is blocking and      *)
(* RE-ENTRANT: while fpga_uart_send_pattern waits or paces it calls        *)
(* fpga_uart_tick, which may complete a received pattern, call             *)
(* protocol_on_pattern and from there send again.  The C call stack is     *)
(* therefore a variable: `stack` holds one frame per suspended             *)
(* fpga_uart_send_pattern, innermost last.                                 *)
(*                                                                         *)
(* Time is abstracted: a timer may be found expired whenever the code      *)
(* looks at it, and the two of the carrier sense are `busy` and `overdue`. *)
(* Bytes waiting in the UART are not kept: the code dates a symbol by the  *)
(* moment it reads it, so only that moment matters.                        *)
(***************************************************************************)
EXTENDS Integers, Sequences

CONSTANTS
  EofBurst,     (* EOF_BURST: EOFs before and after the bits of a frame    *)
  RxMax,        (* cap of rx_len (16 in the code)                          *)
  DefaultTries  (* initial presence_max_tries (6 in the code)              *)

ASSUME LinkAssumption ==
  /\ EofBurst \in Nat \ {0}
  /\ RxMax \in Nat /\ RxMax > 3
  /\ DefaultTries \in Nat \ {0}

VARIABLES
  last_sym,           \* last accepted slave symbol, or NoSym
  rx,                 \* rx_first, rx_len, rx_last: the pattern being received
  dbg_mode,           \* inside a "$...\n" diagnostic line
  awaiting_ack,       \* a registration (SET) waits for its OK
  slave_known,        \* the slave is registered
  awaiting_presence,  \* a presence request waits for its answer
  presence_tries,     \* transmissions of the current presence request
  presence_max_tries,
  auto_presence,      \* auto_presence_s > 0
  last_present,       \* -1 unknown, 0, 1
  stack,              \* suspended fpga_uart_send_pattern calls
  busy,               \* last_rx_ms is less than CHANNEL_GUARD_MS ago
  overdue             \* the innermost cs_wait_quiet has lasted CSMA_MAX_WAIT_MS

(* What happens outside the master, and history the properties refer to.   *)
VARIABLES
  air,        \* the pattern the slave's receiver is collecting
  owed,       \* message all of whose bits are on the air and whose EOF is not
  closed,     \* message completed by the last symbol sent, or NONE
  heard,      \* message the slave decoded from the last symbol sent, or NONE
  abort_cut,  \* some ABORT has been interrupted between two of its bits
  meant,      \* the pattern a receiver that is never suspended would hold
  tainted,    \* a handler has sent since the last undisturbed EOF
  phantom,    \* a message was acted upon that the slave had not sent
  regs,       \* registrations begun
  oks         \* registrations confirmed

rxVars    == <<last_sym, rx, dbg_mode>>
regVars   == <<awaiting_ack, slave_known, regs, oks>>
presVars  == <<awaiting_presence, presence_tries, last_present>>
setVars   == <<presence_max_tries, auto_presence>>
airVars   == <<air, owed, closed, heard>>
meantVars == <<meant, tainted, phantom>>
waitVars  == <<busy, overdue>>
vars == <<rxVars, regVars, presVars, setVars, stack, airVars, abort_cut, meantVars,
          waitVars>>

-----------------------------------------------------------------------------
(* Symbols and the codebook.  Tones 0, 1 and Eof: 'A','B','C' from the     *)
(* slave's carrier, 'a','b','c' (and the long EOF 'd') on the master's.    *)

Eof   == 2
NoSym == -1
Bit   == {0, 1}
NONE  == "NONE"
TxMsg == {"REQ_PRESENCE", "SET", "ABORT"}
RxMsg == {"REQ", "OK", "PRESENCE_NO", "PRESENCE_YES"}

Pattern      == [first : Bit \cup {-1}, len : 0..RxMax, last : Bit \cup {-1}]
EmptyPattern == [first |-> -1, len |-> 0, last |-> -1]

(* Faulty variant: the longer codewords that protocol.h still lists.       *)
msg_to_pattern_old(m) ==
  CASE m = "REQ_PRESENCE" -> [first |-> 1, len |-> 3]
    [] m = "SET"          -> [first |-> 1, len |-> 2]
    [] m = "ABORT"        -> [first |-> 0, len |-> 5]

msg_to_pattern(m) ==
  CASE m = "REQ_PRESENCE" -> [first |-> 0, len |-> 2]
    [] m = "SET"          -> [first |-> 1, len |-> 2]
    [] m = "ABORT"        -> [first |-> 0, len |-> 3]

pattern_to_msg(p) ==
  CASE p.len = 2 -> IF p.first = 1 THEN "PRESENCE_NO" ELSE "PRESENCE_YES"
    [] p.len = 3 -> IF p.first = 1 THEN "OK" ELSE "REQ"
    [] OTHER     -> NONE

(* The slave's receive table is the master's transmit table (protocol.cpp, *)
(* lines 16-23); its receiver collects a pattern as the master's does.     *)
SlaveDecode(p) ==
  CASE p.len = 2 -> IF p.first = 1 THEN "SET" ELSE "REQ_PRESENCE"
    [] p.len = 3 -> IF p.first = 1 THEN NONE ELSE "ABORT"
    [] OTHER     -> NONE

(* Faulty variant: rx_len is not capped.                                   *)
AddBitUncapped(p, b) ==
  IF p.len > 0 /\ b = p.last THEN p
  ELSE [first |-> IF p.len = 0 THEN b ELSE p.first, len |-> p.len + 1, last |-> b]

(* A data bit equal to the previous one is an echo of its tone: ignored.   *)
AddBit(p, b) ==
  IF p.len > 0 /\ b = p.last THEN p
  ELSE [first |-> IF p.len = 0 THEN b ELSE p.first,
        len   |-> IF p.len < RxMax THEN p.len + 1 ELSE p.len,
        last  |-> b]

-----------------------------------------------------------------------------
(* Frames on the call stack: the message, whether protocol_on_pattern is   *)
(* the caller, the symbols written so far, and (history) whether another   *)
(* frame was sent between its first and its last bit.                      *)

PatLen(m)   == msg_to_pattern(m).len
FrameLen(m) == 1 + EofBurst + PatLen(m) + EofBurst
Frame == [msg : TxMsg, handler : BOOLEAN, sent : Nat, cut : BOOLEAN]

(* The i-th symbol: warm-up EOF, EOF burst, alternating bits, EOF burst.   *)
FrameSym(m, i) ==
  IF 1 + EofBurst < i /\ i <= 1 + EofBurst + PatLen(m)
  THEN (msg_to_pattern(m).first + (i - 2 - EofBurst)) % 2
  ELSE Eof

Idle == stack = <<>>
Top  == stack[Len(stack)]
InHandler == \E i \in 1..Len(stack) : stack[i].handler

MidBits(f) == 1 + EofBurst < f.sent /\ f.sent < 1 + EofBurst + PatLen(f.msg)

(* Entry of fpga_uart_send_pattern, up to its first wait.                  *)
send_msg(m, from_handler) ==
  LET f == [msg |-> m, handler |-> from_handler, sent |-> 0, cut |-> FALSE]
  IN  /\ overdue' = FALSE
      /\ IF Idle
         THEN stack' = <<f>> /\ UNCHANGED abort_cut
         ELSE /\ stack' = Append([stack EXCEPT ![Len(stack)].cut = @ \/ MidBits(Top)], f)
              /\ abort_cut' = (abort_cut \/ (MidBits(Top) /\ Top.msg = "ABORT"))

(* One uart_reg_write_byte of the innermost send and what it means on the  *)
(* air.                                                                    *)
WriteSymbol ==
  /\ ~Idle
  /\ Top.sent < FrameLen(Top.msg)
  /\ stack' = [stack EXCEPT ![Len(stack)].sent = @ + 1]
  /\ LET s == FrameSym(Top.msg, Top.sent + 1)
     IN  IF s = Eof
         THEN /\ air' = EmptyPattern
              /\ heard' = SlaveDecode(air)
              /\ closed' = owed
              /\ owed' = NONE
         ELSE /\ air' = AddBit(air, s)
              /\ heard' = NONE
              /\ closed' = NONE
              /\ owed' = IF Top.sent + 1 = 1 + EofBurst + PatLen(Top.msg) /\ ~Top.cut
                         THEN Top.msg ELSE owed
  /\ overdue' = FALSE
  /\ UNCHANGED <<rxVars, regVars, presVars, setVars, abort_cut, meantVars, busy>>

(* Faulty variant: the wait for a quiet channel has no maximum.            *)
EmitSymbolNoMaxWait == ~busy /\ WriteSymbol

(* cs_wait_quiet lets the write happen: the channel is quiet, or the wait  *)
(* has lasted CSMA_MAX_WAIT_MS.                                            *)
EmitSymbol == (~busy \/ overdue) /\ WriteSymbol

(* The innermost cs_wait_quiet has lasted CSMA_MAX_WAIT_MS.                *)
WaitExpires ==
  /\ ~Idle
  /\ Top.sent < FrameLen(Top.msg)
  /\ ~overdue
  /\ overdue' = TRUE
  /\ UNCHANGED <<rxVars, regVars, presVars, setVars, stack, airVars, abort_cut,
                 meantVars, busy>>

(* The slave has been silent for CHANNEL_GUARD_MS.                         *)
ChannelQuiet ==
  /\ busy
  /\ busy' = FALSE
  /\ UNCHANGED <<rxVars, regVars, presVars, setVars, stack, airVars, abort_cut,
                 meantVars, overdue>>

(* fpga_uart_send_pattern returns.  A handler returns with it, through     *)
(* rx_finish_pattern, which then clears the reception state.               *)
SendReturns ==
  /\ ~Idle
  /\ Top.sent = FrameLen(Top.msg)
  /\ stack' = SubSeq(stack, 1, Len(stack) - 1)
  /\ rx' = IF Top.handler THEN EmptyPattern ELSE rx
  /\ overdue' = FALSE
  /\ UNCHANGED <<last_sym, dbg_mode, regVars, presVars, setVars, airVars,
                 abort_cut, meantVars, busy>>

-----------------------------------------------------------------------------
(* Reception: fpga_uart_tick, from loop() or from inside a send.           *)

(* A symbol equal to the last one is dropped, but the channel is busy.     *)
RxRepeat ==
  /\ ~dbg_mode
  /\ last_sym # NoSym
  /\ busy' = TRUE
  /\ UNCHANGED <<rxVars, regVars, presVars, setVars, stack, airVars, abort_cut,
                 meantVars, overdue>>

(* A data symbol.                                                          *)
RxBit(b) ==
  /\ ~dbg_mode
  /\ busy' = TRUE
  /\ b # last_sym
  /\ last_sym' = b
  /\ rx' = AddBit(rx, b)
  /\ meant' = AddBit(meant, b)
  /\ UNCHANGED <<dbg_mode, regVars, presVars, setVars, stack, airVars, abort_cut,
                 tainted, phantom, overdue>>

(* What every EOF does before and after the handler, when it does not send *)
rx_finish_pattern(m) ==
  /\ ~dbg_mode
  /\ busy' = TRUE
  /\ last_sym # Eof
  /\ last_sym' = Eof
  /\ m = pattern_to_msg(rx)
  /\ meant' = EmptyPattern
  /\ UNCHANGED dbg_mode

(* The handler acts on m: was m the message between the last two EOFs?     *)
acts_on(m) ==
  /\ rx_finish_pattern(m)
  /\ phantom' = (phantom \/ m # pattern_to_msg(meant))

(* Faulty variant: the pattern is not cleared after it has been handled.   *)
rx_reset_missing ==
  /\ UNCHANGED rx
  /\ tainted' = (tainted /\ InHandler)

rx_reset ==
  /\ rx' = EmptyPattern
  /\ tainted' = (tainted /\ InHandler)

(* send_set, blocking: the handler is suspended in it.                     *)
send_set ==
  /\ awaiting_ack' = TRUE
  /\ regs' = regs + 1
  /\ send_msg("SET", TRUE)
  /\ tainted' = TRUE
  /\ UNCHANGED <<rx, slave_known, oks, presVars, setVars, airVars>>

(* Faulty variant: every REQ registers anew.                               *)
OnReqAlways == acts_on("REQ") /\ send_set

(* REQ with no registration pending.                                       *)
OnReq ==
  /\ acts_on("REQ")
  /\ ~awaiting_ack
  /\ send_set

OnOk ==
  /\ acts_on("OK")
  /\ awaiting_ack
  /\ awaiting_ack' = FALSE
  /\ slave_known' = TRUE
  /\ oks' = oks + 1
  /\ rx_reset
  /\ UNCHANGED <<regs, presVars, setVars, stack, airVars, abort_cut, overdue>>

OnPresence ==
  /\ \/ acts_on("PRESENCE_NO") /\ last_present' = 0
     \/ acts_on("PRESENCE_YES") /\ last_present' = 1
  /\ awaiting_presence' = FALSE
  /\ rx_reset
  /\ UNCHANGED <<presence_tries, regVars, setVars, stack, airVars, abort_cut, overdue>>

(* No message, a REQ while registering, an OK nobody waits for.            *)
OnIgnored ==
  /\ \/ rx_finish_pattern(NONE)
     \/ rx_finish_pattern("REQ") /\ awaiting_ack
     \/ rx_finish_pattern("OK") /\ ~awaiting_ack
  /\ rx_reset
  /\ UNCHANGED <<phantom, regVars, presVars, setVars, stack, airVars, abort_cut, overdue>>

(* FRAME_TIMEOUT_MS without a new symbol.                                  *)
FrameTimeout ==
  /\ rx.len > 0
  /\ rx' = EmptyPattern
  /\ last_sym' = NoSym
  /\ meant' = EmptyPattern
  /\ UNCHANGED <<dbg_mode, regVars, presVars, setVars, stack, airVars, abort_cut,
                 tainted, phantom, waitVars>>

(* '$' and '\n': what lies between them is not decoded as symbols.         *)
DebugLine ==
  /\ dbg_mode' = ~dbg_mode
  /\ UNCHANGED <<last_sym, rx, regVars, presVars, setVars, stack, airVars, abort_cut,
                 meantVars, waitVars>>

-----------------------------------------------------------------------------
(* loop(): protocol_tick and the commands of the dashboard and console.    *)
(* They run only when no send is suspended.                                *)

RetrySet ==
  /\ Idle
  /\ awaiting_ack
  /\ send_msg("SET", FALSE)
  /\ UNCHANGED <<rxVars, regVars, presVars, setVars, airVars, meantVars, busy>>

RetryPresence ==
  /\ Idle
  /\ awaiting_presence
  /\ presence_tries < presence_max_tries
  /\ presence_tries' = presence_tries + 1
  /\ send_msg("REQ_PRESENCE", FALSE)
  /\ UNCHANGED <<awaiting_presence, last_present, rxVars, regVars, setVars, airVars,
                 meantVars, busy>>

(* Faulty variant: gives up only on the exact number of tries.             *)
GiveUpPresenceExact ==
  /\ Idle
  /\ awaiting_presence
  /\ presence_tries = presence_max_tries
  /\ awaiting_presence' = FALSE
  /\ UNCHANGED <<presence_tries, last_present, rxVars, regVars, setVars, stack,
                 airVars, abort_cut, meantVars, waitVars>>

GiveUpPresence ==
  /\ Idle
  /\ awaiting_presence
  /\ presence_tries >= presence_max_tries
  /\ awaiting_presence' = FALSE
  /\ UNCHANGED <<presence_tries, last_present, rxVars, regVars, setVars, stack,
                 airVars, abort_cut, meantVars, waitVars>>

protocol_request_presence ==
  /\ Idle
  /\ awaiting_presence' = TRUE
  /\ presence_tries' = 1
  /\ send_msg("REQ_PRESENCE", FALSE)
  /\ UNCHANGED <<last_present, rxVars, regVars, setVars, airVars, meantVars, busy>>

AutoPresence ==
  /\ auto_presence
  /\ slave_known
  /\ ~awaiting_presence
  /\ protocol_request_presence

protocol_send_abort ==
  /\ Idle
  /\ send_msg("ABORT", FALSE)
  /\ UNCHANGED <<rxVars, regVars, presVars, setVars, airVars, meantVars, busy>>

(* settings_set of the dashboard: a limit of 0 is ignored.                 *)
SetSettings(n, auto) ==
  /\ Idle
  /\ presence_max_tries' = IF n > 0 THEN n ELSE presence_max_tries
  /\ auto_presence' = auto
  /\ UNCHANGED <<rxVars, regVars, presVars, stack, airVars, abort_cut, meantVars, waitVars>>

-----------------------------------------------------------------------------
Init ==
  /\ last_sym = NoSym /\ rx = EmptyPattern /\ dbg_mode = FALSE
  /\ awaiting_ack = FALSE /\ slave_known = FALSE /\ regs = 0 /\ oks = 0
  /\ awaiting_presence = FALSE /\ presence_tries = 0 /\ last_present = -1
  /\ presence_max_tries = DefaultTries /\ auto_presence = FALSE
  /\ stack = <<>>
  /\ air = EmptyPattern /\ owed = NONE /\ closed = NONE /\ heard = NONE
  /\ abort_cut = FALSE
  /\ meant = EmptyPattern /\ tainted = FALSE /\ phantom = FALSE
  /\ busy = TRUE /\ overdue = FALSE

Receive == \/ RxRepeat \/ \E b \in Bit : RxBit(b)
           \/ OnReq \/ OnOk \/ OnPresence \/ OnIgnored
           \/ DebugLine

Command == \/ protocol_request_presence
           \/ protocol_send_abort
           \/ \E n \in Nat, auto \in BOOLEAN : SetSettings(n, auto)

PresenceTimer == RetryPresence \/ GiveUpPresence

Next == \/ EmitSymbol \/ WaitExpires \/ SendReturns
        \/ Receive \/ ChannelQuiet \/ FrameTimeout
        \/ RetrySet \/ PresenceTimer \/ AutoPresence
        \/ Command

Spec == Init /\ [][Next]_vars

-----------------------------------------------------------------------------
(* Properties.                                                             *)

(* Every variable keeps its type; a frame never writes past its end and    *)
(* only the outermost frame can have been sent by loop() itself.           *)
TypeOK ==
  /\ last_sym \in {NoSym, 0, 1, Eof} /\ rx \in Pattern /\ dbg_mode \in BOOLEAN
  /\ awaiting_ack \in BOOLEAN /\ slave_known \in BOOLEAN
  /\ regs \in Nat /\ oks \in Nat
  /\ awaiting_presence \in BOOLEAN /\ presence_tries \in Nat
  /\ last_present \in {-1, 0, 1}
  /\ presence_max_tries \in Nat \ {0} /\ auto_presence \in BOOLEAN
  /\ stack \in Seq(Frame)
  /\ \A i \in 1..Len(stack) : /\ stack[i].sent <= FrameLen(stack[i].msg)
                              /\ i > 1 => stack[i].handler
  /\ air \in Pattern
  /\ owed \in TxMsg \cup {NONE} /\ closed \in TxMsg \cup {NONE}
  /\ heard \in TxMsg \cup {NONE}
  /\ abort_cut \in BOOLEAN
  /\ meant \in Pattern /\ tainted \in BOOLEAN /\ phantom \in BOOLEAN
  /\ busy \in BOOLEAN /\ overdue \in BOOLEAN

(* protocol.cpp:136-138, "idempotente": REQs that arrive during a          *)
(* registration, even from inside its own blocking send, start no other:   *)
(* a new one begins only after the OK of the previous one.                 *)
OnePendingRegistration == regs = oks + (IF awaiting_ack THEN 1 ELSE 0)

(* The recursion fpga_uart_tick -> protocol_on_pattern -> send -> tick     *)
(* deepens only when an OK has been accepted inside it: the C stack holds  *)
(* at most one send more than the OKs ever accepted, beside loop()'s own.  *)
NestingBoundedByOks == Len(stack) <= oks + 2

(* Outside the window that a sending handler opens (it closes with the     *)
(* first EOF read after the handler has returned) the pattern under        *)
(* construction is the one the slave is sending.                           *)
CleanReception == ~tainted => rx = meant

(* A frame that nothing interrupted between two of its bits, however many  *)
(* frames were nested in its preamble or tail, is decoded by the slave as  *)
(* the message it stands for.                                              *)
IntactFrameHeard == closed # NONE => heard = closed

(* The slave decodes a message nobody sent only if an ABORT, the one       *)
(* message longer than two bits, has been cut: fragments of the others     *)
(* are no codewords.                                                       *)
ForgeryNeedsCutAbort == heard # NONE /\ heard # closed => abort_cut

(* fpga_uart_link.cpp:163.  However sends are nested in one another, the   *)
(* slave hears a frame as what it stands for, or the rest of a cut ABORT.  *)
FramesHeard == IntactFrameHeard /\ ForgeryNeedsCutAbort

(* fpga_uart_link.h:12-14: between two EOFs the pattern is collected and   *)
(* handed to the protocol, so no message is handled that was not sent.     *)
NoPhantomMessage == ~phantom

(* fpga_uart_link.h:15, "EOF + bit alternati + EOF": what the slave        *)
(* decodes is the message of a frame sent whole.                           *)
NoForgedMessage == heard # NONE => heard = closed
=============================================================================
