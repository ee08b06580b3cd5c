------------------------------ MODULE MCNorLog ------------------------------
(***************************************************************************)
(* NorLog for TLC: a budget of appends, and one of everything else that is *)
(* not progress: a save or clear, a fault of the chip or of the line, a    *)
(* restart of the FPGA or of the ESP32.                                    *)
(***************************************************************************)
EXTENDS NorLog

CONSTANTS MaxAppends, MaxExtras

VARIABLE used   \* [append, extra]: extra counts everything that is no append
Budget == [append |-> MaxAppends, extra |-> MaxExtras]

Spend(k, A) == /\ used[k] < Budget[k]
               /\ A
               /\ used' = [used EXCEPT ![k] = @ + 1]

MCFirmware == Firmware /\ UNCHANGED used
MCClient   == Client /\ UNCHANGED used

MCNext ==
  \/ MCFirmware \/ MCClient
  \/ Spend("append", flash_log_append)
  \/ Spend("extra", flash_log_clear)
  \/ \E b \in Blobs : Spend("extra", flash_set_settings(b))
  \/ Spend("extra", Erase(FALSE)) \/ Spend("extra", ProgramBadly)
  \/ Spend("extra", LoseReply) \/ Spend("extra", LateTimeout)
  \/ Spend("extra", Reboot)
  \/ Spend("extra", MasterReboot)

MCInit == Init /\ used = [append |-> 0, extra |-> 0]

(* main()'s loop polls the UART on every turn and the client's call blocks *)
(* until an answer or its timeout: both go on.                             *)
Fairness == WF_<<vars, used>>(MCFirmware) /\ WF_<<vars, used>>(MCClient)

MCSpec == MCInit /\ [][MCNext]_<<vars, used>> /\ Fairness
=============================================================================
