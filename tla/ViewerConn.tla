----------------------------- MODULE ViewerConn -----------------------------
(***************************************************************************)
(* One viewer's connection in the host: connManager.runViewer with its     *)
(* deferred clean-up, the rtc.Peer with its callbacks, the routers that    *)
(* write to it, the authorizations that read its commands and the          *)
(* forwarder of session events. Connections share nothing but the routers' *)
(* sets of sinks, so one is enough.                                        *)
(*                                                                         *)
(* Pion, the browser and the session manager are the environment: the      *)
(* connection changes state, input frames are lost or reordered, claims    *)
(* are refused and sessions end when they please. A frame is its sequence  *)
(* number; the codec (fixed size, version byte, axes) turns one into a     *)
(* command or rejects it, which loses it. Packets are alike: that a track  *)
(* begins with a keyframe is a flag of WriteSample and is left out.        *)
(***************************************************************************)
EXTENDS Integers, Sequences, FiniteSets

CONSTANTS
    MaxSeq,         \* the last frame the viewer sends
    MaxAuth,        \* Authorize goroutines at a time
    CommandBuffer,  \* capacity of Peer.commands
    StateBuffer,    \* capacity of Peer.connState
    LateStates      \* bound: handlers of one state that wait at a time

ASSUME PeerAssumption ==
    /\ {MaxSeq, MaxAuth} \subseteq Nat
    /\ CommandBuffer \in Nat \ {0}
    /\ LateStates \in Nat \ {0}
    /\ StateBuffer \in Nat /\ StateBuffer >= LateStates + 3

VARIABLES
    conn,           \* where runViewer is
    cancelled,      \* its context is done
    sink,           \* the peer is in the routers' maps
    routing,        \* a router is about to write a packet to the peer
    pcState,        \* Pion's connection state
    callbacks,      \* for each state, how many of wireConnState's handlers wait
    connState,      \* Peer.connState
    closed,         \* Peer.closed
    chansClosed,    \* commands and connState are closed
    lastInputSeq,   \* the newest frame accepted, 0 before the first
    commands,       \* Peer.commands
    authorizing,    \* wireInput's flag
    reader,         \* every Authorize goroutine
    hand,           \* the command it has taken and not yet passed on
    played,         \* the newest command that reached the input target
    forwarder       \* forwardEvents

streamVars == <<sink, routing>>
stateVars == <<pcState, callbacks, connState>>
closeVars == <<closed, chansClosed>>
frameVars == <<lastInputSeq, commands>>
authVars == <<authorizing, reader, hand, played>>
peerVars == <<conn, cancelled, streamVars, stateVars, closeVars, frameVars,
              authVars, forwarder>>

Terminal == {"disconnected", "failed", "closed"}
ConnState == {"new", "connecting", "connected"} \cup Terminal
Auth == 1..MaxAuth

PeerInit ==
    /\ conn = "new" /\ cancelled = FALSE
    /\ sink = FALSE /\ routing = FALSE
    /\ pcState = "new" /\ connState = <<>>
    /\ callbacks = [s \in ConnState |-> 0]
    /\ closed = FALSE /\ chansClosed = FALSE
    /\ lastInputSeq = 0 /\ commands = <<>>
    /\ authorizing = FALSE /\ reader = [a \in Auth |-> "off"]
    /\ hand = [a \in Auth |-> 0] /\ played = 0
    /\ forwarder = "new"

-----------------------------------------------------------------------------
(* runViewer. *)

\* The host stops, or the feed loop's context is done.
CancelParent ==
    /\ ~cancelled /\ cancelled' = TRUE
    /\ UNCHANGED <<conn, streamVars, stateVars, closeVars, frameVars, authVars,
                   forwarder>>

\* Both routers.
AddSink == sink' = TRUE

\* NewPeer, AddSink and wireInput; a failing NewPeer leaves nothing to close.
StartViewer ==
    /\ conn = "new"
    /\ \/ conn' = "offering" /\ AddSink /\ forwarder' = "on"
       \/ conn' = "forget" /\ UNCHANGED <<sink, forwarder>>
    /\ UNCHANGED <<cancelled, routing, stateVars, closeVars, frameVars,
                   authVars>>

\* CreateOffer gathers and PostMessage posts, or one of them fails.
PostOffer ==
    /\ conn = "offering"
    /\ \/ conn' = "await" /\ ~cancelled
       \/ conn' = "leave"
    /\ UNCHANGED <<cancelled, streamVars, stateVars, closeVars, frameVars,
                   authVars, forwarder>>

\* awaitDisconnect: any state that is not terminal is ignored.
AwaitDisconnect ==
    /\ conn = "await"
    /\ \/ cancelled /\ conn' = "leave" /\ UNCHANGED connState
       \/ /\ connState # <<>> /\ connState' = Tail(connState)
          /\ conn' = IF Head(connState) \in Terminal THEN "leave" ELSE "await"
    /\ UNCHANGED <<cancelled, streamVars, pcState, callbacks, closeVars,
                   frameVars, authVars, forwarder>>

\* The deferred calls, last one first: RemoveSink of both routers, ... (Nobody reads
\* connState any more.)
RemoveSink ==
    /\ conn = "leave" /\ conn' = "close"
    /\ sink' = FALSE /\ connState' = <<>>
    /\ UNCHANGED <<cancelled, routing, pcState, callbacks, closeVars, frameVars,
                   authVars, forwarder>>

\* ... peer.Close: the Pion connection, whose last state change has a callback,
ClosePC ==
    /\ conn = "close" /\ conn' = "mark"
    /\ pcState' = "closed" /\ callbacks' = [callbacks EXCEPT !["closed"] = @ + 1]
    /\ UNCHANGED <<cancelled, streamVars, connState, closeVars, frameVars,
                   authVars, forwarder>>

\* Mutated form: the channels are closed before closed is set.
MarkClosedLate ==
    /\ \/ /\ conn = "mark" /\ conn' = "channels"
          /\ chansClosed' = TRUE /\ UNCHANGED closed
       \/ /\ conn = "channels" /\ conn' = "forget"
          /\ closed' = TRUE /\ UNCHANGED chansClosed
    /\ UNCHANGED <<cancelled, streamVars, stateVars, frameVars, authVars,
                   forwarder>>

\* the flag, under mu, and then the channels,
MarkClosed ==
    /\ \/ /\ conn = "mark" /\ conn' = "channels"
          /\ closed' = TRUE /\ UNCHANGED chansClosed
       \/ /\ conn = "channels" /\ conn' = "forget"
          /\ chansClosed' = TRUE /\ UNCHANGED closed
    /\ UNCHANGED <<cancelled, streamVars, stateVars, frameVars, authVars,
                   forwarder>>

\* ... the entry in sessions, and cancel.
Forget ==
    /\ conn = "forget" /\ conn' = "gone"
    /\ cancelled' = TRUE
    /\ UNCHANGED <<streamVars, stateVars, closeVars, frameVars, authVars,
                   forwarder>>

-----------------------------------------------------------------------------
(* The connection's state, and the callbacks Pion runs for it. *)

NextState ==
    [new |-> {"connecting"}, connecting |-> {"connected", "failed"},
     connected |-> {"disconnected"}, disconnected |-> {"connected", "failed"},
     failed |-> {}, closed |-> {}]

\* Once the offer has left, ICE and DTLS change the state. Pion starts a goroutine
\* for the handler of each change: they run in any order.
ChangeState(s) ==
    /\ conn \in {"offering", "await", "leave", "close"}
    /\ s \in NextState[pcState] /\ callbacks[s] < LateStates
    /\ pcState' = s /\ callbacks' = [callbacks EXCEPT ![s] = @ + 1]
    /\ UNCHANGED <<conn, cancelled, streamVars, connState, closeVars, frameVars,
                   authVars, forwarder>>

\* Mutated form: the channel has no buffer, a state nobody waits for is dropped.
OnConnectionStateUnbuffered ==
    /\ \E s \in ConnState :
        /\ callbacks[s] > 0 /\ callbacks' = [callbacks EXCEPT ![s] = @ - 1]
        /\ connState' = IF closed \/ conn # "await" \/ connState # <<>>
                        THEN connState ELSE Append(connState, s)
    /\ UNCHANGED <<conn, cancelled, streamVars, pcState, closeVars, frameVars,
                   authVars, forwarder>>

\* Under mu: nothing is sent after Close, and a full channel drops the state.
OnConnectionState ==
    /\ \E s \in ConnState :
        /\ callbacks[s] > 0 /\ callbacks' = [callbacks EXCEPT ![s] = @ - 1]
        /\ connState' = IF closed \/ Len(connState) = StateBuffer
                        THEN connState ELSE Append(connState, s)
    /\ UNCHANGED <<conn, cancelled, streamVars, pcState, closeVars, frameVars,
                   authVars, forwarder>>

-----------------------------------------------------------------------------
(* Input frames. *)

\* The frames that DecodeInputCommand accepts, by their Seq; the page numbers them
\* from 1. (A Seq of 0, from a legacy sender, is not gated and is left out.)
Frame == 1..MaxSeq

\* A full buffer loses its oldest command.
PushCommand(f) ==
    commands' = Append(IF Len(commands) < CommandBuffer THEN commands
                       ELSE Tail(commands), f)

\* Mutated form: only a repeated frame is stale.
OnInputUnordered(f) ==
    /\ pcState # "new"
    /\ ~closed /\ f # lastInputSeq
    /\ lastInputSeq' = f /\ PushCommand(f)
    /\ UNCHANGED <<conn, cancelled, streamVars, stateVars, closeVars, authVars,
                   forwarder>>

\* The handler of the input channel, under mu. The channel is neither ordered nor
\* reliable: any frame may come next, a stale one or one after Close is dropped.
OnInput(f) ==
    /\ pcState # "new"
    /\ ~closed /\ f > lastInputSeq
    /\ lastInputSeq' = f /\ PushCommand(f)
    /\ UNCHANGED <<conn, cancelled, streamVars, stateVars, closeVars, authVars,
                   forwarder>>

-----------------------------------------------------------------------------
(* Authorization and the event forwarder. *)

\* The control channel is open and hands its messages, but for pings, to the
\* registered handler.
ControlOpen == pcState = "connected"

\* The goroutine a new authorization runs in.
Idle(a) == reader[a] = "off" /\ \A b \in 1..(a - 1) : reader[b] # "off"

\* A token on the control channel starts an authorization unless one runs.
OnAuth(a) ==
    /\ ControlOpen /\ Idle(a) /\ ~authorizing
    /\ authorizing' = TRUE /\ reader' = [reader EXCEPT ![a] = "claim"]
    /\ UNCHANGED <<conn, cancelled, streamVars, stateVars, closeVars, frameVars,
                   hand, played, forwarder>>

\* Authorize: Claim refuses the token, or Gate begins to read the commands.
Claims(a) ==
    /\ reader[a] = "claim"
    /\ \/ reader' = [reader EXCEPT ![a] = "drain"] /\ UNCHANGED authorizing
       \/ reader' = [reader EXCEPT ![a] = "off"] /\ authorizing' = FALSE
    /\ UNCHANGED <<conn, cancelled, streamVars, stateVars, closeVars, frameVars,
                   hand, played, forwarder>>

TakeCommand(a) ==
    /\ reader[a] = "drain" /\ hand[a] = 0 /\ commands # <<>>
    /\ commands' = Tail(commands) /\ hand' = [hand EXCEPT ![a] = Head(commands)]
    /\ UNCHANGED <<conn, cancelled, streamVars, stateVars, closeVars,
                   lastInputSeq, authorizing, reader, played, forwarder>>

\* The gate passes the command on to the target, or drops it: the viewer waits.
PassOn(a) ==
    /\ hand[a] # 0
    /\ played' \in {played, hand[a]} /\ hand' = [hand EXCEPT ![a] = 0]
    /\ UNCHANGED <<conn, cancelled, streamVars, stateVars, closeVars, frameVars,
                   authorizing, reader, forwarder>>

\* The session is over, the context done or the stream closed: Authorize returns
\* and the next token is heeded.
AuthorizeEnds(a) ==
    /\ reader[a] = "drain"
    /\ reader' = [reader EXCEPT ![a] = "off"] /\ hand' = [hand EXCEPT ![a] = 0]
    /\ authorizing' = FALSE
    /\ UNCHANGED <<conn, cancelled, streamVars, stateVars, closeVars, frameVars,
                   played, forwarder>>

\* forwardEvents unsubscribes.
ForwarderEnds ==
    /\ forwarder = "on" /\ cancelled /\ forwarder' = "ended"
    /\ UNCHANGED <<conn, cancelled, streamVars, stateVars, closeVars, frameVars,
                   authVars>>

-----------------------------------------------------------------------------
(* The routers. *)

\* Mutated form: a sink stays in the map that is copied.
ForwardAlways ==
    /\ conn # "new" /\ ~routing /\ routing' = TRUE
    /\ UNCHANGED <<conn, cancelled, sink, stateVars, closeVars, frameVars,
                   authVars, forwarder>>

\* forward, and the audio router's loop: the set of sinks is copied under mu ...
Forward ==
    /\ sink /\ ~routing /\ routing' = TRUE
    /\ UNCHANGED <<conn, cancelled, sink, stateVars, closeVars, frameVars,
                   authVars, forwarder>>

\* ... and written to after it; a write to a closed track is an error that is
\* logged.
WriteSample ==
    /\ routing /\ routing' = FALSE
    /\ UNCHANGED <<conn, cancelled, sink, stateVars, closeVars, frameVars,
                   authVars, forwarder>>

-----------------------------------------------------------------------------
ViewerStep ==
    \/ PostOffer \/ AwaitDisconnect
    \/ RemoveSink \/ ClosePC \/ MarkClosed \/ Forget
AuthStep(a) == Claims(a) \/ TakeCommand(a) \/ PassOn(a)

PeerNext ==
    \/ CancelParent \/ StartViewer \/ ViewerStep \/ OnConnectionState
    \/ ForwarderEnds \/ Forward \/ WriteSample
    \/ \E s \in ConnState : ChangeState(s)
    \/ \E f \in Frame : OnInput(f)
    \/ \E a \in Auth : OnAuth(a) \/ AuthStep(a) \/ AuthorizeEnds(a)

PeerSpec == PeerInit /\ [][PeerNext]_peerVars

\* runViewer and the goroutines run, Pion runs its callbacks, CreateOffer and the
\* post return (gathering ends, the HTTP client has a timeout), and an
\* authorization whose context is done or whose stream is closed ends.
PeerFairness ==
    /\ WF_peerVars(ViewerStep)
    /\ WF_peerVars(OnConnectionState)
    /\ WF_peerVars(WriteSample)
    /\ WF_peerVars(ForwarderEnds)
    /\ \A a \in Auth :
        /\ WF_peerVars(AuthStep(a))
        /\ WF_peerVars((cancelled \/ chansClosed) /\ AuthorizeEnds(a))

-----------------------------------------------------------------------------
(* Properties. *)

PeerTypeOK ==
    /\ conn \in {"new", "offering", "await", "leave", "close", "mark", "channels", "forget",
                 "gone"}
    /\ {cancelled, sink, routing, closed, chansClosed, authorizing} \subseteq BOOLEAN
    /\ pcState \in ConnState /\ callbacks \in [ConnState -> Nat]
    /\ connState \in Seq(ConnState) /\ Len(connState) <= StateBuffer
    /\ {lastInputSeq, played} \subseteq 0..MaxSeq
    /\ commands \in Seq(Frame) /\ Len(commands) <= CommandBuffer
    /\ reader \in [Auth -> {"off", "claim", "drain"}]
    /\ hand \in [Auth -> 0..MaxSeq]
    /\ forwarder \in {"new", "on", "ended"}

\* Pion's callbacks race with Close: none of them sends on a channel that Close has
\* closed, which would panic.
NoSendAfterClose ==
    [][chansClosed => /\ Len(commands') <= Len(commands)
                      /\ Len(connState') <= Len(connState)]_peerVars

\* Input reaches the target in the order in which it was given, whatever the
\* channel reorders, the buffer drops and the viewer authorizes again: the
\* sequence gate and the one authorization at a time together.
InputInOrder == [][played' >= played]_peerVars

\* A connection that is lost is noticed, however early and however often its state
\* changes and in whatever order the handlers run: a state that ends awaitDisconnect
\* is on its way to it although a full connState drops what comes.
DisconnectNoticed ==
    conn \in {"offering", "await"} /\ pcState \in Terminal =>
        \E s \in Terminal :
            callbacks[s] > 0 \/ \E i \in DOMAIN connState : connState[i] = s

\* Whatever way runViewer ends, the goroutines of the connection end too and the
\* routers write to it no more.
ViewerLeavesNothing ==
    (conn = "gone") ~>
        [](/\ forwarder # "on" /\ ~authorizing /\ ~routing
           /\ \A a \in Auth : reader[a] = "off")
=============================================================================
