-------------------------- MODULE MCDisplayManager --------------------------
(* The instance for TLC: the default shows every view it can, the other    *)
(* settings have the views that the default hides, or leave a zone out.    *)
EXTENDS DisplayManager

MCDefault ==
  [colours |-> "dark", views |-> {"health", "tx", "wave", "peaks", "logs", "rx", "irq"}]

MCStored == <<-1, -2>>

MCSettings == {
  MCDefault,
  [colours |-> "light", views |-> {"tx", "peaks", "irq"}],
  [colours |-> "light", views |-> {"health", "logs"}]}
=============================================================================
