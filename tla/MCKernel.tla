------------------------------ MODULE MCKernel ------------------------------
(* Finite instances of Kernel for TLC. *)
EXTENDS Kernel, TLC

\* The clock of an instance stops at MaxTick; nothing more need happen then.
ClockStopped == tick = MaxTick /\ UNCHANGED vars

MCNext == Next \/ ClockStopped
MCSpec == Init /\ [][MCNext]_vars

\* Boot priorities: init 32, idle 255, servers 64 (scaled down, same order).
BootTwoServers == <<1, 3, 2, 2>>
BootOneServer  == <<1, 3, 2>>

=============================================================================
