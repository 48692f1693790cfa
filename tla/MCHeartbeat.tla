----------------------------- MODULE MCHeartbeat -----------------------------
(* Finite instances of Heartbeat for TLC. *)
EXTENDS Heartbeat

\* Boot priorities, scaled down: init, idle, servers.
BootLevels == <<1, 3, 2, 2>>
BootPeers  == <<1, 2, 1, 1>>
BootPair   == <<1, 3, 1, 2>>

=============================================================================
