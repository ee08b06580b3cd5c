------------------------------ MODULE MCAuspNet ------------------------------
(***************************************************************************)
(* AuspNet for TLC: one budget, MaxUpsets, is shared by the texts lost or  *)
(* cut by noise, the boards stopped and the user's commands.  Texts that   *)
(* collide, that are not listened to until their end, or that are on the   *)
(* master's channel, are lost or cut without counting.                     *)
(***************************************************************************)
EXTENDS AuspNet

CONSTANT MaxUpsets

Within(A) == A /\ faults' + commands' <= MaxUpsets

MCSpec == Init /\ [][Within(Next)]_vars /\ WF_vars(Within(Boards))

=============================================================================
