----------------------------- MODULE MCTcpServer -----------------------------
(* Small instances of TcpServer: two or three clients, two slots.           *)
EXTENDS TcpServer, TLC

CONSTANTS k1, k2, k3

MCTwo   == {k1, k2}
MCThree == {k1, k2, k3}

\* Accepted for one client.  Nothing in TcpServer tells the clients apart, so
\* what holds of one holds of every one ("Accept pending connections so new
\* clients can connect while demodulation is skipped", thread_demod.c:75).
ClientAccepted == Accepted(k1)
=============================================================================
