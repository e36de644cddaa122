---------------------------- MODULE MCNetSockets ----------------------------
(* Two tasks, a pool of two slots, and a backend with one object more than *)
(* the pool has slots, so that a full pool meets an open object.           *)
EXTENDS NetSockets
=============================================================================
