---------------------------- MODULE MCSignaling ----------------------------
(* Two viewers of one room. *)
EXTENDS Signaling

CONSTANTS v1, v2

\* v2 comes second, stays on its WebSocket and is done gathering at once.
QuietSecond ==
    /\ vpc[v1] = "idle" => vpc[v2] = "idle"
    /\ net[v2] # "http" /\ vpc[v2] \notin {"unheard", "gathered", "gone"}
=============================================================================
