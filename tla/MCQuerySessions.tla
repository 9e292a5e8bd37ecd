--------------------------- MODULE MCQuerySessions ---------------------------
(* One tab, its two sessions, one update and one insert *)
EXTENDS QuerySessions
=============================================================================
