-------------------------- MODULE MCGrantPipeline --------------------------
(* Three requests of two viewers, one of whom may be the bot's own account. *)
EXTENDS GrantPipeline

CONSTANTS r1, r2, r3, u1, u2, nobody

MCUserOf == r1 :> u1 @@ r2 :> u2 @@ r3 :> u1

MCSetups ==
    {[mode |-> "whisper", bot |-> nobody], [mode |-> "whisper", bot |-> u2],
     [mode |-> "dual", bot |-> nobody], [mode |-> "chat", bot |-> nobody]}

\* One that lets all in, and one with a cooldown and tight limits.
MCPolicies ==
    {[eligible |-> Request, cooldown |-> FALSE, maxPerMinute |-> 2, maxPerStream |-> 2],
     [eligible |-> {r1, r3}, cooldown |-> TRUE, maxPerMinute |-> 1, maxPerStream |-> 1]}
=============================================================================
