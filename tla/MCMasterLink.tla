---------------------------- MODULE MCMasterLink ----------------------------
(***************************************************************************)
(* MasterLink for TLC.  What the slave sends, and when it is silent, has   *)
(* no bound.  One budget, MaxEvents, is shared by what makes the master    *)
(* begin a send or change its settings: registrations, commands, expiries  *)
(* of the SET timer; and by the delimiters of diagnostic lines.            *)
(***************************************************************************)
EXTENDS MasterLink

CONSTANTS MaxEvents, TriesChoice

VARIABLE events
mcVars == <<events>>

(* Reached from Init by a command and a REQ: the SET of a registration is  *)
(* about to be sent from inside an ABORT that has one bit on the air.  One *)
(* more event nests a third send.                                          *)
Nested ==
  LET bit == [first |-> 0, len |-> 1, last |-> 0]
  IN  /\ last_sym = Eof /\ rx = [first |-> 0, len |-> 3, last |-> 0] /\ dbg_mode = FALSE
      /\ awaiting_ack = TRUE /\ slave_known = FALSE /\ regs = 1 /\ oks = 0
      /\ awaiting_presence = FALSE /\ presence_tries = 0 /\ last_present = -1
      /\ presence_max_tries = DefaultTries /\ auto_presence = FALSE
      /\ stack = <<[msg |-> "ABORT", handler |-> FALSE, sent |-> 2 + EofBurst, cut |-> TRUE],
                   [msg |-> "SET", handler |-> TRUE, sent |-> 0, cut |-> FALSE]>>
      /\ air = bit /\ owed = NONE /\ closed = NONE /\ heard = NONE /\ abort_cut = TRUE
      /\ meant = EmptyPattern /\ tainted = TRUE /\ phantom = FALSE
      /\ busy = TRUE /\ overdue = FALSE

MCInit == \/ Init /\ events = 0
          \/ Nested /\ events = MaxEvents - 1

Counted(A) == events < MaxEvents /\ A /\ events' = events + 1
Free(A) == A /\ UNCHANGED mcVars

MCSettings == \E n \in TriesChoice, auto \in BOOLEAN : SetSettings(n, auto)

MCEmit == Free(EmitSymbol)
MCExpires == Free(WaitExpires)
MCReturn == Free(SendReturns)
MCPresenceTimer == Free(PresenceTimer)

MCNext ==
  \/ MCEmit \/ MCExpires \/ MCReturn \/ MCPresenceTimer
  \/ Free(AutoPresence) \/ Free(ChannelQuiet) \/ Free(FrameTimeout)
  \/ Free(RxRepeat) \/ \E b \in Bit : Free(RxBit(b))
  \/ Free(OnOk) \/ Free(OnPresence) \/ Free(OnIgnored)
  \/ Counted(OnReq) \/ Counted(RetrySet) \/ Counted(MCSettings)
  \/ Counted(protocol_request_presence) \/ Counted(protocol_send_abort)
  \/ Counted(DebugLine)

(* loop() never stops, and the clock runs: a symbol that may be written is *)
(* written, a wait expires, a finished send returns.  Nothing is asked of  *)
(* the slave, which need never be silent.  protocol_tick looks at the      *)
(* presence timer on every call, after its possible SET, so other sends    *)
(* cannot starve it: strong fairness.                                      *)
Fairness == /\ WF_<<vars, mcVars>>(MCEmit)
            /\ WF_<<vars, mcVars>>(MCExpires)
            /\ WF_<<vars, mcVars>>(MCReturn)
            /\ SF_<<vars, mcVars>>(MCPresenceTimer)

MCSpec == MCInit /\ [][MCNext]_<<vars, mcVars>> /\ Fairness

(* A presence request never stays open: it is answered or given up after   *)
(* presence_max_tries transmissions, also when the limit is lowered below  *)
(* the tries already spent (protocol.cpp:185-199).                         *)
PresenceResolved == awaiting_presence ~> ~awaiting_presence

(* A slave, or an echo, that never lets the channel fall silent cannot     *)
(* hold up loop(): every send returns (fpga_uart_link.cpp:160-168), with   *)
(* all those nested in it, unless registrations are begun inside for ever. *)
SendsReturn == (<>[][regs' = regs]_vars) => (~Idle ~> Idle)

=============================================================================
