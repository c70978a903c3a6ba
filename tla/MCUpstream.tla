----------------------------- MODULE MCUpstream -----------------------------
(* The instance of Upstream for TLC. *)
EXTENDS Upstream
Pool    == [Keepalive |-> TRUE, MaxConnections |-> 0, MaxRecycle |-> 0, IoTimeout |-> TRUE]
Limited == [Pool EXCEPT !.MaxConnections = 1, !.MaxRecycle = 1]
Unkept  == [Limited EXCEPT !.Keepalive = FALSE]
MCSettings == {Pool, Limited, Unkept}
=============================================================================
