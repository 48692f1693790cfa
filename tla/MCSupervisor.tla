---------------------------- MODULE MCSupervisor ----------------------------
(* A finite instance of Supervisor for TLC. *)
EXTENDS Supervisor

UartAndShell == <<"uart-drv", "rost-shell">>
ThreePids == 1 .. 3
FourPids  == 1 .. 4

=============================================================================
