----------------------------- MODULE InputPath -----------------------------
(***************************************************************************)
(* From a session's gated channel to the console: the drain loop of        *)
(* internal/host/sink.go, the coalescer and the send loop of               *)
(* internal/input/nxbt (ratelimit.go, target.go), the socket to the        *)
(* daemon, and the buttons the console sees as held.                       *)
(*                                                                         *)
(* A command is the call whose viewer presses something, or Neutral when   *)
(* everything is released; buttons and axes inside a command do not matter *)
(* here. The session manager appears by its guarantee only: a gate         *)
(* forwards while its viewer is the controller, and its channel is closed  *)
(* before the next one takes over (SessionManager).                        *)
(***************************************************************************)
EXTENDS Integers, Sequences

CONSTANTS
    Call,         \* Authorize calls
    Neutral,      \* the all-released core.InputCommand{}
    Nil,          \* no command
    Nobody,       \* no controller
    MaxCmds,      \* bound: commands the viewers send, all together
    BufCap,       \* capacity of a gated channel
    WireCap,      \* commands the socket holds before a write blocks
    RateLimited,  \* coalescer.interval > 0
    LinkFaults,   \* bound: how often the daemon connection may fail
    HostStops     \* the host's context may be cancelled

ASSUME InputAssumption ==
    /\ Neutral \notin Call /\ Nil \notin Call /\ Nil # Neutral /\ Nobody \notin Call
    /\ MaxCmds \in Nat /\ BufCap \in Nat \ {0} /\ WireCap \in Nat \ {0} /\ LinkFaults \in Nat
    /\ RateLimited \in BOOLEAN /\ HostStops \in BOOLEAN

Cmd == Call \cup {Neutral}

VARIABLES
    holder,   \* the controller
    sent,     \* commands the viewers have sent
    open,     \* the gated channel is not closed
    up,       \* the ctx of each Authorize call
    buf,      \* contents of each gated channel
    drain,    \* drainToTarget of each call
    pending,  \* coalescer.pending
    notify,   \* coalescer.notify holds its one signal
    hot,      \* less than interval has passed since coalescer.lastSent
    link,     \* where the send loop is
    timer,    \* flushTimer: stopped, armed, or its signal is in C; runSession's
              \* flag armed says that it is not stopped
    out,      \* the command poll has taken and writeInput has not written
    wire,     \* commands in the socket
    faults,   \* connection failures so far
    stopped,  \* the host's context is cancelled
    console   \* the last command the console applied

gateVars == <<holder, sent, open, buf>>
coalVars == <<pending, notify, hot>>
linkVars == <<link, timer, out>>
wireVars == <<wire, faults, console>>
vars == <<gateVars, coalVars, linkVars, wireVars, up, drain, stopped>>

Init ==
    /\ holder = Nobody
    /\ sent = 0
    /\ open = [c \in Call |-> TRUE]
    /\ up = [c \in Call |-> TRUE]
    /\ buf = [c \in Call |-> <<>>]
    /\ drain = [c \in Call |-> "off"]
    /\ pending = Nil /\ notify = FALSE /\ hot = FALSE
    /\ link = "dial" /\ timer = "stopped" /\ out = Nil
    /\ wire = <<>> /\ faults = 0 /\ console = Neutral
    /\ stopped = FALSE

-----------------------------------------------------------------------------
(* The session manager, by its guarantee. *)

\* Claim and Gate: the call's drain loop starts, its viewer is the controller
\* or waits.
Authorize(c) ==
    /\ drain[c] = "off" /\ ~stopped
    /\ drain' = [drain EXCEPT ![c] = "run"]
    /\ holder' = IF holder = Nobody THEN c ELSE holder
    /\ UNCHANGED <<sent, open, buf, up, coalVars, linkVars, wireVars, stopped>>

\* The controller's session ends, and one that waits is promoted.
HandOver(c) ==
    /\ holder = c
    /\ open' = [open EXCEPT ![c] = FALSE]
    /\ LET next == {d \in Call \ {c} : drain[d] = "run" /\ open[d]}
       IN  holder' \in IF next = {} THEN {Nobody} ELSE next
    /\ UNCHANGED <<sent, buf, up, drain, coalVars, linkVars, wireVars, stopped>>

\* The gate goroutine forwards: a full channel drops the command.
Forward(c, cmd) ==
    /\ holder = c /\ open[c] /\ up[c]
    /\ sent < MaxCmds
    /\ sent' = sent + 1
    /\ buf' = IF Len(buf[c]) < BufCap THEN [buf EXCEPT ![c] = Append(@, cmd)] ELSE buf
    /\ UNCHANGED <<holder, open, up, drain, coalVars, linkVars, wireVars, stopped>>

\* The viewer's connection ends.
Disconnect(c) ==
    /\ drain[c] # "off" /\ up[c]
    /\ up' = [up EXCEPT ![c] = FALSE]
    /\ UNCHANGED <<gateVars, drain, coalVars, linkVars, wireVars, stopped>>

-----------------------------------------------------------------------------
(* drainToTarget. Send is push: the command is stored under mu, the signal   *)
(* is sent after mu is released.                                             *)

Push(cmd) == pending' = cmd

\* A command is received and pushed.
DrainRecv(c) ==
    /\ drain[c] = "run"
    /\ buf[c] # <<>>
    /\ Push(Head(buf[c]))
    /\ buf' = [buf EXCEPT ![c] = Tail(@)]
    /\ drain' = [drain EXCEPT ![c] = "signal"]
    /\ UNCHANGED <<holder, sent, open, up, notify, hot, linkVars, wireVars, stopped>>

\* The channel is closed and empty, or ctx is done while commands may be left.
DrainOver(c) == (~open[c] /\ buf[c] = <<>>) \/ ~up[c]

\* Mutated form: the reset runs on channel close only.
DrainExitCloseOnly(c) ==
    /\ drain[c] = "run"
    /\ DrainOver(c)
    /\ drain' = [drain EXCEPT ![c] = IF up[c] THEN "reset" ELSE "done"]
    /\ UNCHANGED <<gateVars, up, coalVars, linkVars, wireVars, stopped>>

DrainExit(c) ==
    /\ drain[c] = "run"
    /\ DrainOver(c)
    /\ drain' = [drain EXCEPT ![c] = "reset"]
    /\ UNCHANGED <<gateVars, up, coalVars, linkVars, wireVars, stopped>>

\* The deferred neutral command.
DrainReset(c) ==
    /\ drain[c] = "reset"
    /\ Push(Neutral)
    /\ drain' = [drain EXCEPT ![c] = "resetSignal"]
    /\ UNCHANGED <<gateVars, up, notify, hot, linkVars, wireVars, stopped>>

\* The second half of push: a non-blocking send to a channel of capacity one.
DrainSignal(c) ==
    /\ drain[c] \in {"signal", "resetSignal"}
    /\ notify' = TRUE
    /\ drain' = [drain EXCEPT ![c] = IF @ = "signal" THEN "run" ELSE "done"]
    /\ UNCHANGED <<gateVars, up, pending, hot, linkVars, wireVars, stopped>>

-----------------------------------------------------------------------------
(* Target.Run and runSession. *)

\* dial succeeds (a failure only waits and dials again); a new runSession starts
\* with a stopped timer and a flush.
Dial ==
    /\ link = "dial" /\ ~stopped
    /\ link' = "flush" /\ timer' = "stopped"
    /\ UNCHANGED <<out, gateVars, up, drain, coalVars, wireVars, stopped>>

\* flush: poll takes the pending command.
Poll ==
    /\ link = "flush"
    /\ pending # Nil /\ ~hot
    /\ out' = pending /\ pending' = Nil /\ hot' = RateLimited
    /\ link' = "write"
    /\ UNCHANGED <<timer, notify, gateVars, up, drain, wireVars, stopped>>

\* flush: poll has nothing to give.
PollNone ==
    /\ link = "flush"
    /\ pending = Nil \/ hot
    /\ link' = "ready"
    /\ UNCHANGED <<timer, out, coalVars, gateVars, up, drain, wireVars, stopped>>

\* Mutated form: a rate-limited command does not arm the timer.
UntilReadyNoRearm ==
    /\ link = "ready"
    /\ link' = IF pending # Nil /\ ~hot THEN "flush" ELSE "select"
    /\ UNCHANGED <<out, timer, coalVars, gateVars, up, drain, wireVars, stopped>>

\* flush: untilReady, in a critical section of its own, then rearm if limited.
UntilReady ==
    /\ link = "ready"
    /\ \/ /\ pending = Nil
          /\ link' = "select" /\ UNCHANGED timer
       \/ /\ pending # Nil /\ ~hot
          /\ link' = "flush" /\ UNCHANGED timer
       \/ /\ pending # Nil /\ hot
          /\ link' = "select" /\ timer' = "armed"
    /\ UNCHANGED <<out, coalVars, gateVars, up, drain, wireVars, stopped>>

\* writeInput succeeds.
Write ==
    /\ link = "write" /\ Len(wire) < WireCap
    /\ wire' = Append(wire, out) /\ out' = Nil
    /\ link' = "flush"
    /\ UNCHANGED <<timer, faults, console, coalVars, gateVars, up, drain, stopped>>

\* select: <-notifyC()
Notified ==
    /\ link = "select" /\ notify
    /\ notify' = FALSE /\ link' = "flush"
    /\ UNCHANGED <<timer, out, pending, hot, gateVars, up, drain, wireVars, stopped>>

\* select: <-flushTimer.C
TimerFired ==
    /\ link = "select" /\ timer = "fired"
    /\ timer' = "stopped" /\ link' = "flush"
    /\ UNCHANGED <<out, coalVars, gateVars, up, drain, wireVars, stopped>>

\* The interval since the last poll has elapsed.
Cool ==
    /\ hot /\ hot' = FALSE
    /\ UNCHANGED <<pending, notify, linkVars, gateVars, up, drain, wireVars, stopped>>

\* flushTimer, armed for what was left of the interval, expires.
TimerExpires ==
    /\ timer = "armed" /\ ~hot
    /\ timer' = "fired"
    /\ UNCHANGED <<link, out, coalVars, gateVars, up, drain, wireVars, stopped>>

\* The write fails, or the daemon closes the connection: the command poll took
\* is gone, what is in the socket may be. The loop backs off and dials again.
LinkLost ==
    /\ link \in {"write", "select"}
    /\ faults < LinkFaults
    /\ faults' = faults + 1
    /\ out' = Nil /\ link' = "dial"
    /\ wire' \in {wire, <<>>}
    /\ UNCHANGED <<timer, console, coalVars, gateVars, up, drain, stopped>>

\* The daemon applies a command.
Apply ==
    /\ wire # <<>>
    /\ console' = Head(wire) /\ wire' = Tail(wire)
    /\ UNCHANGED <<faults, linkVars, coalVars, gateVars, up, drain, stopped>>

\* The host's context is cancelled: every connection's context with it.
Stop ==
    /\ HostStops /\ ~stopped
    /\ stopped' = TRUE
    /\ up' = [c \in Call |-> FALSE]
    /\ UNCHANGED <<gateVars, drain, coalVars, linkVars, wireVars>>

\* The send loop sees that the context is done, before a dial or in its select.
LinkStop ==
    /\ stopped /\ link \in {"dial", "select"}
    /\ link' = "stopped"
    /\ UNCHANGED <<timer, out, coalVars, gateVars, up, drain, wireVars, stopped>>

-----------------------------------------------------------------------------
SendLoop ==
    Dial \/ Poll \/ PollNone \/ UntilReady \/ Write \/ Notified \/ TimerFired

Next ==
    \/ \E c \in Call :
        \/ Authorize(c) \/ HandOver(c) \/ Disconnect(c)
        \/ \E cmd \in {c, Neutral} : Forward(c, cmd)
        \/ DrainRecv(c) \/ DrainExit(c) \/ DrainReset(c) \/ DrainSignal(c)
    \/ SendLoop \/ Cool \/ TimerExpires \/ LinkLost \/ Apply \/ Stop \/ LinkStop

Spec == Init /\ [][Next]_vars

\* The send loop, the clock and the daemon make progress; nothing is assumed
\* of viewers or of the session manager.
SendFairness == WF_vars(SendLoop) /\ WF_vars(Cool) /\ WF_vars(TimerExpires) /\ WF_vars(Apply)

FairSpec == Spec /\ SendFairness

-----------------------------------------------------------------------------
(* Properties. *)

\* Type correctness.
TypeOK ==
    /\ holder \in Call \cup {Nobody}
    /\ sent \in 0..MaxCmds
    /\ open \in [Call -> BOOLEAN] /\ up \in [Call -> BOOLEAN]
    /\ buf \in [Call -> Seq(Cmd)]
    /\ drain \in [Call -> {"off", "run", "signal", "reset", "resetSignal", "done"}]
    /\ pending \in Cmd \cup {Nil} /\ notify \in BOOLEAN /\ hot \in BOOLEAN
    /\ link \in {"dial", "flush", "ready", "write", "select", "stopped"}
    /\ timer \in {"stopped", "armed", "fired"}
    /\ out \in Cmd \cup {Nil}
    /\ wire \in Seq(Cmd) /\ console \in Cmd
    /\ faults \in 0..LinkFaults /\ stopped \in BOOLEAN

NobodyDrains == \A c \in Call : drain[c] \in {"off", "done"}

\* The newest command on its way to the console, or the one it holds.
Newest ==
    IF pending # Nil THEN pending
    ELSE IF out # Nil THEN out
    ELSE IF wire # <<>> THEN wire[Len(wire)] ELSE console

\* Whenever no viewer's commands are being drained, nothing on the way to the
\* console, and nothing it holds, presses a button: the deferred neutral of
\* drainToTarget wins over coalescing, over the rate limit and over the other
\* viewers' drains. (While the daemon connection holds.)
NeutralAfterDrains == faults = 0 /\ NobodyDrains => Newest = Neutral

\* No lost wakeup: a send loop asleep in its select with a command pending has
\* a signal, a timer or a pusher about to signal to wake it.
NoLostWakeup ==
    link = "select" /\ pending # Nil =>
        \/ notify
        \/ timer # "stopped"
        \/ \E c \in Call : drain[c] \in {"signal", "resetSignal"}

\* Once the last viewer is gone the console is left with everything released.
\* (Unless the daemon connection fails or the host stops: see below.)
ConsoleReleased ==
    (\A c \in Call : drain[c] = "done") ~> (console = Neutral \/ faults > 0 \/ stopped)

\* sink.go, drainToTarget: "a button held at the moment control is lost does not
\* stick down on the Switch", on any exit, shutdown included.
ButtonsDoNotStick ==
    /\ NobodyDrains /\ out = Nil /\ wire = <<>>
    /\ (link = "select" /\ pending = Nil) \/ link = "stopped"
    => console = Neutral

=============================================================================
