---------------------------- MODULE MCInputPath ----------------------------
(* Two Authorize calls that share one console. *)
EXTENDS InputPath

CONSTANTS c1, c2

\* One thing goes wrong at a time: the connection fails, while one viewer plays, or
\* the host stops. The calls are interchangeable, so c1 is the one that comes first.
OneFailure ==
    /\ faults = 0 \/ (~stopped /\ drain[c2] = "off")
    /\ drain[c1] = "off" => drain[c2] = "off"
=============================================================================
