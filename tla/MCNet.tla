------------------------------- MODULE MCNet -------------------------------
(* The network server for TLC.                                             *)
EXTENDS Net

Of(c, op, ip) == [op |-> op, sender |-> c, ip |-> ip]

MCResolved == <<"a">>

MCRequests ==
    {Of("shell", "ping", ip) : ip \in Hosts}
    \cup {Of("app", "connect", "a"), Of("app", "udp_send", "b")}
    \cup {Of("app", op, "none") : op \in {"send", "recv", "close", "other"}}

\* Host b asks for our address and pings us.
MCNoise == {Frame("arpreq", "b", 0), Frame("echoreq", "b", 0)}
=============================================================================
