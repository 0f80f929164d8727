--------------------------- MODULE SunshineAgent ---------------------------
(***************************************************************************)
(* The sunshine-agent process: a session manager that rejects a second     *)
(* controller, its buffered channel of events, the agent that acts on them *)
(* and the HTTP client it calls Sunshine with.                             *)
(*                                                                         *)
(* Of the session manager only what the events tell matters here; its own  *)
(* steps are in SessionManager. A viewer's token is presented once, on     *)
(* stdin or as a flag. Sunshine itself and the Moonlight clients are the   *)
(* environment; a request may fail before or after it took effect.         *)
(***************************************************************************)
EXTENDS Integers, Sequences, FiniteSets

CONSTANTS
    Player,         \* viewers with a token
    NoPlayer,
    EventBuffer,    \* capacity of Manager.eventsOut
    PairPIN,        \* a PIN is configured
    KickRetries,    \* calls of KickAll for one event
    HttpAttempts,   \* requests for one call
    MaxRefused,     \* answers below 500 that are no success
    MaxErrors       \* network errors and answers from 500 on

ASSUME AgentAssumption ==
    /\ NoPlayer \notin Player /\ PairPIN \in BOOLEAN
    /\ {EventBuffer, KickRetries, HttpAttempts} \subseteq Nat \ {0}
    /\ {MaxRefused, MaxErrors} \subseteq Nat

VARIABLES
    tokens,     \* tokens not yet presented
    holder,     \* the active session
    eventsOut,  \* Manager.eventsOut
    agent,      \* where Agent.Run is
    try,        \* calls of KickAll for the event, including this one
    request,    \* requests of this call, including this one
    refused, errors,    \* what Sunshine has done so far
    streaming   \* players whose Moonlight client is connected

httpVars == <<try, request>>
faultVars == <<refused, errors>>
agentVars == <<tokens, holder, eventsOut, agent, httpVars, faultVars, streaming>>

Event == {"granted", "ended"} \X Player \cup {<<"tick", NoPlayer>>}

AgentInit ==
    /\ tokens = Player /\ holder = NoPlayer /\ eventsOut = <<>>
    /\ agent = "select" /\ try = 0 /\ request = 0
    /\ refused = 0 /\ errors = 0 /\ streaming = {}

-----------------------------------------------------------------------------
(* The session manager, seen from its events. *)

\* Mutated form: the oldest event gives way.
EmitOldestGivesWay(ev) ==
    eventsOut' = Append(IF Len(eventsOut) < EventBuffer THEN eventsOut
                        ELSE Tail(eventsOut), ev)

\* emitEvent: a full channel drops the event.
Emit(ev) ==
    eventsOut' = IF Len(eventsOut) < EventBuffer THEN Append(eventsOut, ev)
                 ELSE eventsOut

\* claimToken: with PolicyReject a claim succeeds only if nobody has control.
ClaimToken(p) ==
    /\ agent # "exited" /\ p \in tokens /\ tokens' = tokens \ {p}
    /\ \/ holder = NoPlayer /\ holder' = p /\ Emit(<<"granted", p>>)
       \/ UNCHANGED <<holder, eventsOut>>
    /\ UNCHANGED <<agent, httpVars, faultVars, streaming>>

\* The session expires or its player is idle.
SessionEnds ==
    /\ agent # "exited" /\ holder # NoPlayer
    /\ holder' = NoPlayer /\ Emit(<<"ended", holder>>)
    /\ UNCHANGED <<tokens, agent, httpVars, faultVars, streaming>>

SessionTick ==
    /\ agent # "exited" /\ holder # NoPlayer
    /\ Emit(<<"tick", NoPlayer>>)
    /\ UNCHANGED <<tokens, holder, agent, httpVars, faultVars, streaming>>

\* A Moonlight client that has paired connects when it likes.
Connect(p) ==
    /\ p \notin tokens /\ p \notin streaming
    /\ streaming' = streaming \cup {p}
    /\ UNCHANGED <<tokens, holder, eventsOut, agent, httpVars, faultVars>>

-----------------------------------------------------------------------------
(* The agent. *)

\* handleEvent: a grant approves the pairing, an end kicks, the rest is logged.
RecvEvent ==
    /\ agent = "select" /\ eventsOut # <<>>
    /\ eventsOut' = Tail(eventsOut)
    /\ LET kind == Head(eventsOut)[1] IN
        \/ /\ kind = "ended" \/ (kind = "granted" /\ PairPIN)
           /\ agent' = IF kind = "ended" THEN "kick" ELSE "pair"
           /\ try' = 1 /\ request' = 1
        \/ /\ kind = "tick" \/ (kind = "granted" /\ ~PairPIN)
           /\ UNCHANGED <<agent, httpVars>>
    /\ UNCHANGED <<tokens, holder, faultVars, streaming>>

\* What KickAll does at Sunshine: the running app is closed, for whoever streams.
TakesEffect == streaming' = IF agent = "kick" THEN {} ELSE streaming

CallOver == agent' = "select" /\ try' = 0 /\ request' = 0

RequestSucceeds ==
    /\ agent \in {"kick", "pair"}
    /\ TakesEffect /\ CallOver
    /\ UNCHANGED <<tokens, holder, eventsOut, faultVars>>

\* The call returns an error: KickAll is called again after a delay, up to
\* KickRetries times; ApprovePair is not.
CallFails ==
    IF agent = "kick" /\ try < KickRetries
    THEN agent' = "kick" /\ try' = try + 1 /\ request' = 1
    ELSE CallOver

\* doRetry: an answer below 500 ends the call ...
RequestRefused ==
    /\ agent \in {"kick", "pair"} /\ refused < MaxRefused
    /\ refused' = refused + 1
    /\ CallFails
    /\ UNCHANGED <<tokens, holder, eventsOut, errors, streaming>>

\* ... any other failure repeats the request after a delay.
RequestFails ==
    /\ agent \in {"kick", "pair"} /\ errors < MaxErrors
    /\ errors' = errors + 1
    /\ TakesEffect \/ UNCHANGED streaming
    /\ IF request < HttpAttempts
       THEN request' = request + 1 /\ UNCHANGED <<agent, try>>
       ELSE CallFails
    /\ UNCHANGED <<tokens, holder, eventsOut, refused>>

\* A signal: main returns, and with the process everything ends where it is.
Exit ==
    /\ agent # "exited" /\ agent' = "exited"
    /\ UNCHANGED <<tokens, holder, eventsOut, httpVars, faultVars, streaming>>

AgentStep == RecvEvent \/ RequestSucceeds \/ RequestRefused \/ RequestFails

AgentNext ==
    \/ \E p \in Player : ClaimToken(p) \/ Connect(p)
    \/ SessionEnds \/ SessionTick \/ AgentStep \/ Exit

AgentSpec == AgentInit /\ [][AgentNext]_agentVars

-----------------------------------------------------------------------------
(* Properties. *)

AgentTypeOK ==
    /\ tokens \subseteq Player /\ holder \in Player \cup {NoPlayer}
    /\ eventsOut \in Seq(Event) /\ Len(eventsOut) <= EventBuffer
    /\ agent \in {"select", "kick", "pair", "exited"}
    /\ try \in 0..KickRetries /\ request \in 0..HttpAttempts
    /\ refused \in 0..MaxRefused /\ errors \in 0..MaxErrors
    /\ streaming \subseteq Player

Ends(q) == Cardinality({i \in DOMAIN q : q[i][1] = "ended"})

\* The end of a session that the channel took is acted on: however full ticks make
\* the channel, it leaves it for KickAll only, and the loop around KickAll is over
\* (unless the process exits) only when nobody streams any more, although Sunshine
\* fails now and then (fewer times than the two levels of retries allow for).
EndedIsKicked ==
    [][/\ Ends(eventsOut') < Ends(eventsOut) => agent = "select" /\ agent' = "kick"
       /\ agent = "kick" /\ agent' = "select" => streaming' = {}]_agentVars
=============================================================================
