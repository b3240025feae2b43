------------------------------- MODULE MCStore ------------------------------
(* An instance of Store for TLC: two pollers, event_log off, one and two, and *)
(* a database that is empty or holds five events.                            *)
EXTENDS Store

CONSTANTS b1, b2
=============================================================================
