------------------------------ MODULE MCDaemon ------------------------------
(* Instances of Daemon for TLC. *)
EXTENDS Daemon

MCTickets == {"t1", "t2"}
MCLimits == {0, 1, 2}

=============================================================================
