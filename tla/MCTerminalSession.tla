-------------------------- MODULE MCTerminalSession --------------------------
(***************************************************************************)
(* TerminalSession on small instances.  Every connection comes from one    *)
(* device.  OneWindow lets its panes compete.                             *)
(***************************************************************************)
EXTENDS TerminalSession, TLC

CONSTANTS Device, Window

OneWindow == [t \in Targets |-> Window]

SameDevice == [c \in Sockets |-> Device]

Symmetry == Permutations(Sockets)
=============================================================================
