-------------------------- MODULE MCCommandScheduler --------------------------
(* CommandScheduler with two clients, a device that is read and the same     *)
(* device written to: as bus addresses, 0x88 and 0x08, and 0x8b for the PC.  *)
EXTENDS CommandScheduler

CONSTANTS c1, c2

MCAddr == {\h88, \h08, \h8b}
MCWriteAddr == {\h08}
MCPC == \h8b
MCMessage == {[client |-> c1, dest |-> \h88], [client |-> c1, dest |-> \h08],
              [client |-> c2, dest |-> \h88]}
=============================================================================
