----------------------------- MODULE MCSessions -----------------------------
(* The instance of sessions.cfg needs no definitions of its own.           *)
EXTENDS Sessions
=============================================================================
