----------------------------- MODULE Signaling -----------------------------
(***************************************************************************)
(* How a viewer gets connected: the room's message queues and long-polls   *)
(* (playgate-signaling roomState.ts, roomDO.ts), the host's feed reader    *)
(* and viewer sessions (internal/host/connect.go) and the browser's        *)
(* signaling and offer handling (playgate-web signaling.ts, webrtc.ts).    *)
(*                                                                         *)
(* A request the Durable Object serves is one step: its input gate holds   *)
(* other events back while a storage operation is awaited. A queue is the  *)
(* set of its messages; they are stored in the order of seq, so that the   *)
(* last message is the one with the largest. An offer and the answer to it *)
(* carry the number of the host's peer they belong to, gen.                *)
(***************************************************************************)
EXTENDS Integers, Sequences, FiniteSets, SequencesExt

CONSTANTS
    Viewer,     \* viewerId values: one SignalingClient each
    MaxQueue,   \* MAX_QUEUE_LENGTH
    MaxFaults   \* bound: failures of any kind

ASSUME SignalingAssumption == MaxQueue \in Nat \ {0, 1} /\ MaxFaults \in Nat

VARIABLES
    hostQ,     \* queue:host, offers
    viewerQ,   \* queue:viewer, hellos, candidates and answers
    wiped,     \* viewers that were there when the room was wiped
    feed,      \* runFeed: between transports, on the WebSocket, long-polling
    in,        \* messages sent to the host and not yet handled
    since,     \* runFeedLongPoll's since
    parked,    \* the host's long-poll waits in the Durable Object
    sess,      \* connManager.sessions
    gen,       \* sessions started for each viewer
    answered,  \* viewerSession.answered: the gen of the answer applied, or 0
    net,       \* SignalingClient: connecting, WebSocket open, HTTP fallback
    vin,       \* messages sent to each viewer and not yet delivered
    seen,      \* maxSeqSeen, with which since of the fallback agrees
    vpc,       \* ViewerConnection
    applied,   \* the gen of the offer applied last, or 0
    pend,      \* offers handleOffer has applied and not yet answered
    faults,    \* failures so far
    trouble    \* a queue was cut, a post failed after its offer was stored

roomVars == <<hostQ, viewerQ, wiped>>
feedVars == <<feed, in, since, parked>>
sessVars == <<sess, gen, answered>>
tabVars  == <<net, vin, seen, vpc, applied, pend>>
vars == <<roomVars, feedVars, sessVars, tabVars, faults, trouble>>

Init ==
    /\ hostQ = {} /\ viewerQ = {} /\ wiped = {}
    /\ feed = "down" /\ in = <<>> /\ since = -1 /\ parked = FALSE
    /\ sess = [v \in Viewer |-> "none"]
    /\ gen = [v \in Viewer |-> 0] /\ answered = [v \in Viewer |-> 0]
    /\ net = [v \in Viewer |-> "off"]
    /\ vin = [v \in Viewer |-> <<>>] /\ seen = [v \in Viewer |-> -1]
    /\ vpc = [v \in Viewer |-> "idle"]
    /\ applied = [v \in Viewer |-> 0] /\ pend = [v \in Viewer |-> {}]
    /\ faults = 0 /\ trouble = {}

Fault == faults < MaxFaults /\ faults' = faults + 1

-----------------------------------------------------------------------------
(* RoomState.append and RoomDO.notify. *)

\* Mutated form: numbers by the length of the queue.
NextSeqByLength(q) == Cardinality(q)

\* The seq after the last message's, 0 in an empty queue.
NextSeq(q) == IF q = {} THEN 0 ELSE 1 + CHOOSE n \in {m.seq : m \in q} : \A m \in q : m.seq <= n

\* A full queue loses its oldest message.
Truncate(q) == IF Cardinality(q) < MaxQueue THEN q ELSE {m \in q : \E k \in q : k.seq < m.seq}

Cut(q) == IF Truncate(q) = q THEN {} ELSE {"cut"}

\* The messages of a queue, as a list by seq.
InOrder(q) == {s \in SetToSeqs(q) : \A i, j \in 1..Len(s) : i < j => s[i].seq <= s[j].seq}

After(q, s) == {m \in q : m.seq > s}

LastSeq(q, s) == IF q = {} THEN s ELSE NextSeq(q) - 1

\* A viewer's message is stored and goes to the host's WebSocket, or resolves
\* its long-poll if its seq is larger than the since waited with.
AppendViewer(v, kind, g) ==
    LET q == Truncate(viewerQ)
        m == [seq |-> NextSeq(q), kind |-> kind, from |-> v, gen |-> g]
        wakes == parked /\ m.seq > since
    IN  /\ viewerQ' = q \cup {m}
        /\ in' = IF feed = "ws" \/ wakes THEN Append(in, m) ELSE in
        /\ since' = IF wakes THEN m.seq ELSE since
        /\ parked' = (parked /\ ~wakes)
        /\ trouble' = trouble \cup Cut(viewerQ)
        /\ UNCHANGED <<hostQ, wiped, feed>>

\* Mutated forms: an offer leaves the viewer queue alone, or empties it.
PurgeNothing(v) == viewerQ
PurgeAll(v) == {}

\* What a targeted offer leaves of the viewer queue.
Purge(v) == {m \in viewerQ : m.from # v}

\* A targeted offer replaces v's offers and drops what v had sent; it goes to
\* every viewer's WebSocket.
AppendOffer(v) ==
    LET q == Truncate(hostQ)
        m == [seq |-> NextSeq(q), to |-> v, gen |-> gen[v]]
    IN  /\ hostQ' = {k \in q : k.to # v} \cup {m}
        /\ viewerQ' = Purge(v) /\ wiped' = wiped
        /\ vin' = [u \in Viewer |-> IF net[u] = "ws" THEN Append(vin[u], m) ELSE vin[u]]

-----------------------------------------------------------------------------
(* The host's feed: runFeedWS, then runFeedLongPoll. *)

\* Mutated form: the backlog is not replayed.
DialWSNoBacklog ==
    /\ feed = "down"
    /\ feed' = "ws" /\ in' = <<>>
    /\ UNCHANGED <<since, parked, roomVars, sessVars, tabVars, faults, trouble>>

\* The socket is accepted and the backlog replayed.
DialWS ==
    /\ feed = "down"
    /\ feed' = "ws" /\ in' \in InOrder(viewerQ)
    /\ UNCHANGED <<since, parked, roomVars, sessVars, tabVars, faults, trouble>>

\* The dial fails or the socket is lost, with the frames not yet received.
WSLost ==
    /\ feed \in {"down", "ws"}
    /\ feed' = "poll" /\ in' = <<>> /\ since' = -1 /\ parked' = FALSE
    /\ Fault
    /\ UNCHANGED <<roomVars, sessVars, tabVars, trouble>>

\* A long-poll that finds messages returns them, one that does not is parked.
PollWait ==
    /\ feed = "poll" /\ ~parked /\ in = <<>>
    /\ in' \in InOrder(After(viewerQ, since))
    /\ since' = LastSeq(After(viewerQ, since), since)
    /\ parked' = (After(viewerQ, since) = {})
    /\ UNCHANGED <<feed, roomVars, sessVars, tabVars, faults, trouble>>

PollTimeout ==
    /\ parked /\ parked' = FALSE
    /\ UNCHANGED <<feed, in, since, roomVars, sessVars, tabVars, faults, trouble>>

\* The poll returns an error: loop starts over with a WebSocket.
PollFails ==
    /\ feed = "poll" /\ in = <<>>
    /\ feed' = "down" /\ parked' = FALSE
    /\ Fault
    /\ UNCHANGED <<in, since, roomVars, sessVars, tabVars, trouble>>

-----------------------------------------------------------------------------
(* handleFeedMessage and runViewer. *)

\* A hello of an unknown viewer starts a session.
FeedHello(m) ==
    /\ sess[m.from] = "none" /\ m.kind = "hello"
    /\ sess' = [sess EXCEPT ![m.from] = "new"]
    /\ gen' = [gen EXCEPT ![m.from] = @ + 1]
    /\ UNCHANGED answered

\* applyAnswer: the first answer is set on the session's peer.
FeedAnswer(m) ==
    /\ sess[m.from] \in {"peer", "posted"} /\ m.kind = "answer"
    /\ answered[m.from] = 0
    /\ answered' = [answered EXCEPT ![m.from] = m.gen]
    /\ UNCHANGED <<sess, gen>>

\* Everything else is ignored.
FeedIgnored(m) ==
    /\ CASE sess[m.from] = "none" -> m.kind # "hello"
         [] sess[m.from] = "new"  -> TRUE
         [] OTHER -> m.kind # "answer" \/ answered[m.from] # 0
    /\ UNCHANGED sessVars

HandleFeedMessage ==
    /\ in # <<>>
    /\ in' = Tail(in)
    /\ FeedHello(Head(in)) \/ FeedAnswer(Head(in)) \/ FeedIgnored(Head(in))
    /\ UNCHANGED <<feed, since, parked, roomVars, tabVars, faults, trouble>>

\* NewPeer, setPeer
SetPeer(v) ==
    /\ sess[v] = "new"
    /\ sess' = [sess EXCEPT ![v] = "peer"]
    /\ UNCHANGED <<gen, answered, roomVars, feedVars, tabVars, faults, trouble>>

\* CreateOffer, PostMessage
PostOffer(v) ==
    /\ sess[v] = "peer"
    /\ AppendOffer(v)
    /\ sess' = [sess EXCEPT ![v] = "posted"]
    /\ trouble' = trouble \cup Cut(hostQ)
    /\ UNCHANGED <<gen, answered, feedVars, net, seen, vpc, applied, pend, faults>>

Forget(v) ==
    /\ sess' = [sess EXCEPT ![v] = "none"]
    /\ answered' = [answered EXCEPT ![v] = 0]
    /\ UNCHANGED gen

\* NewPeer, CreateOffer or PostMessage fails and nothing was stored.
SessionFails(v) ==
    /\ sess[v] \in {"new", "peer"}
    /\ Forget(v)
    /\ Fault
    /\ UNCHANGED <<roomVars, feedVars, tabVars, trouble>>

\* PostMessage fails after the offer was stored: its response is lost.
PostAmbiguous(v) ==
    /\ sess[v] = "peer"
    /\ AppendOffer(v)
    /\ Forget(v)
    /\ Fault
    /\ trouble' = trouble \cup {"ambiguous"} \cup Cut(hostQ)
    /\ UNCHANGED <<feedVars, net, seen, vpc, applied, pend>>

\* awaitDisconnect: an answered peer fails or its viewer goes away.
SessionEnds(v) ==
    /\ sess[v] = "posted" /\ answered[v] # 0
    /\ Forget(v)
    /\ UNCHANGED <<roomVars, feedVars, tabVars, faults, trouble>>

HostRestart ==
    /\ Fault
    /\ feed' = "down" /\ in' = <<>> /\ since' = -1 /\ parked' = FALSE
    /\ sess' = [v \in Viewer |-> "none"] /\ answered' = [v \in Viewer |-> 0]
    /\ UNCHANGED <<gen, roomVars, tabVars, trouble>>

-----------------------------------------------------------------------------
(* The browser. *)

\* start: the socket is being opened and hello is pushed by HTTP.
Hello(v) ==
    /\ vpc[v] = "idle"
    /\ vpc' = [vpc EXCEPT ![v] = "hello"] /\ net' = [net EXCEPT ![v] = "dial"]
    /\ AppendViewer(v, "hello", 0)
    /\ UNCHANGED <<sessVars, vin, seen, applied, pend, faults>>

\* The hello cannot be pushed, which is only logged.
HelloFails(v) ==
    /\ vpc[v] = "idle"
    /\ vpc' = [vpc EXCEPT ![v] = "unheard"] /\ net' = [net EXCEPT ![v] = "dial"]
    /\ Fault
    /\ UNCHANGED <<roomVars, feedVars, sessVars, vin, seen, applied, pend, trouble>>

\* onopen; the room replays the host's backlog.
TabOpens(v) ==
    /\ net[v] \in {"dial", "http"}
    /\ net' = [net EXCEPT ![v] = "ws"]
    /\ \E backlog \in InOrder(hostQ) : vin' = [vin EXCEPT ![v] = backlog]
    /\ UNCHANGED <<roomVars, feedVars, sessVars, seen, vpc, applied, pend, faults, trouble>>

\* onclose: fallback to HTTP polling.
TabLost(v) ==
    /\ net[v] \in {"dial", "ws"}
    /\ net' = [net EXCEPT ![v] = "http"] /\ vin' = [vin EXCEPT ![v] = <<>>]
    /\ Fault
    /\ UNCHANGED <<roomVars, feedVars, sessVars, seen, vpc, applied, pend, trouble>>

TabPolls(v) ==
    /\ net[v] = "http" /\ vin[v] = <<>> /\ After(hostQ, seen[v]) # {}
    /\ \E news \in InOrder(After(hostQ, seen[v])) : vin' = [vin EXCEPT ![v] = news]
    /\ UNCHANGED <<roomVars, feedVars, sessVars, net, seen, vpc, applied, pend, faults, trouble>>

\* deliverFrame, handleSignal and handleOffer up to its answer: an offer to v
\* that is newer than the one applied is applied, on a new peer if need be.
DeliverFrame(v) ==
    /\ vin[v] # <<>>
    /\ vin' = [vin EXCEPT ![v] = Tail(@)]
    /\ LET m == Head(vin[v])
           fresh == m.seq > seen[v]
           mine == fresh /\ m.to = v /\ m.gen > applied[v]
       IN  /\ seen' = IF fresh THEN [seen EXCEPT ![v] = m.seq] ELSE seen
           /\ applied' = IF mine THEN [applied EXCEPT ![v] = m.gen] ELSE applied
           /\ pend' = IF mine THEN [pend EXCEPT ![v] = @ \cup {m.gen}] ELSE pend
           /\ vpc' = IF mine THEN [vpc EXCEPT ![v] = "offered"] ELSE vpc
    /\ UNCHANGED <<roomVars, feedVars, sessVars, net, faults, trouble>>

\* onicecandidate, while ICE is gathered; the host ignores candidates.
PushCandidate(v) ==
    /\ vpc[v] = "offered"
    /\ vpc' = [vpc EXCEPT ![v] = "gathered"]
    /\ AppendViewer(v, "candidate", applied[v])
    /\ UNCHANGED <<sessVars, net, vin, seen, applied, pend, faults>>

\* handleOffer, its end: gathering is over, or has timed out, and the answer is
\* pushed.
PushAnswer(v, g) ==
    /\ g \in pend[v]
    /\ pend' = [pend EXCEPT ![v] = @ \ {g}]
    /\ vpc' = [vpc EXCEPT ![v] = "answered"]
    /\ AppendViewer(v, "answer", g)
    /\ UNCHANGED <<sessVars, net, vin, seen, applied, faults>>

\* The push fails, which is only logged, or handleOffer throws.
AnswerLost(v, g) ==
    /\ g \in pend[v]
    /\ pend' = [pend EXCEPT ![v] = @ \ {g}]
    /\ Fault
    /\ UNCHANGED <<roomVars, feedVars, sessVars, net, vin, seen, vpc, applied, trouble>>

\* close: the page is left.
Leave(v) ==
    /\ vpc[v] \notin {"idle", "gone"}
    /\ vpc' = [vpc EXCEPT ![v] = "gone"] /\ net' = [net EXCEPT ![v] = "off"]
    /\ vin' = [vin EXCEPT ![v] = <<>>] /\ pend' = [pend EXCEPT ![v] = {}]
    /\ UNCHANGED <<roomVars, feedVars, sessVars, seen, applied, faults, trouble>>

-----------------------------------------------------------------------------
\* Neither the host nor a viewer is there.
Deserted == feed = "down" /\ in = <<>> /\ \A v \in Viewer : net[v] = "off"

\* alarm: a room without sockets is wiped ten minutes after the last request. Who is
\* there and was not heard for so long is cut off, asleep, or a page that cannot
\* construct its WebSocket and does not poll: a failure.
Alarm ==
    /\ feed # "ws" /\ ~parked /\ \A v \in Viewer : net[v] # "ws"
    /\ (Deserted /\ faults' = faults) \/ (~Deserted /\ Fault)
    /\ hostQ' = {} /\ viewerQ' = {}
    /\ wiped' = wiped \cup {v \in Viewer : net[v] # "off"}
    /\ UNCHANGED <<feedVars, sessVars, tabVars, trouble>>

Push(v) == Hello(v) \/ PushCandidate(v) \/ \E g \in pend[v] : PushAnswer(v, g)
Feed == DialWS \/ PollWait
RunViewer(v) == SetPeer(v) \/ PostOffer(v)

Next ==
    \/ Feed \/ WSLost \/ PollTimeout \/ PollFails \/ HandleFeedMessage \/ HostRestart
    \/ \E v \in Viewer :
        \/ RunViewer(v) \/ SessionFails(v) \/ PostAmbiguous(v) \/ SessionEnds(v)
        \/ Push(v) \/ HelloFails(v) \/ TabOpens(v) \/ TabLost(v) \/ TabPolls(v)
        \/ DeliverFrame(v) \/ Leave(v) \/ \E g \in pend[v] : AnswerLost(v, g)
    \/ Alarm

Spec == Init /\ [][Next]_vars

\* The host's goroutines and the browser's callbacks run; nothing says in which
\* order.
Fairness ==
    /\ WF_vars(Feed \/ HandleFeedMessage \/ \E v \in Viewer : RunViewer(v))
    /\ \A v \in Viewer :
        WF_vars(TabOpens(v) \/ TabPolls(v) \/ DeliverFrame(v) \/ \E g \in pend[v] : PushAnswer(v, g))

FairSpec == Spec /\ Fairness

-----------------------------------------------------------------------------
(* Properties. *)

HostMsg == [seq : Nat, to : Viewer, gen : Nat]
ViewerMsg == [seq : Nat, kind : {"hello", "candidate", "answer"}, from : Viewer, gen : Nat]

\* Type correctness.
TypeOK ==
    /\ hostQ \subseteq HostMsg /\ viewerQ \subseteq ViewerMsg
    /\ IsFiniteSet(hostQ) /\ IsFiniteSet(viewerQ)
    /\ feed \in {"down", "ws", "poll"} /\ in \in Seq(ViewerMsg)
    /\ since \in Int /\ parked \in BOOLEAN
    /\ sess \in [Viewer -> {"none", "new", "peer", "posted"}]
    /\ gen \in [Viewer -> Nat] /\ answered \in [Viewer -> Nat]
    /\ net \in [Viewer -> {"off", "dial", "ws", "http"}]
    /\ vin \in [Viewer -> Seq(HostMsg)] /\ seen \in [Viewer -> Int]
    /\ vpc \in [Viewer -> {"idle", "hello", "unheard", "offered", "gathered", "answered", "gone"}]
    /\ applied \in [Viewer -> Nat] /\ pend \in [Viewer -> SUBSET Nat]
    /\ faults \in 0..MaxFaults
    /\ trouble \subseteq {"ambiguous", "cut"} /\ wiped \subseteq Viewer

\* An answer set on a peer answers the offer of that very peer, through replays
\* of the backlog, failed starts, host restarts and transport changes: the
\* purge of the viewer queue and the guards of handleFeedMessage and
\* applyAnswer keep a dead peer's answer away. (Unless a post that reported an
\* error had stored its offer.)
AnswerMatchesPeer ==
    \A v \in Viewer : answered[v] # 0 /\ "ambiguous" \notin trouble => answered[v] = gen[v]

\* A hello is not lost: it stays in the room, for a host that crashes, fails or
\* reconnects to find, until an offer to its viewer is there. (Unless the queue
\* overflowed, or the idle clean-up wiped the room while the viewer waited and
\* neither it nor the host was heard for ten minutes: the page says hello once.)
HelloNotLost ==
    \A v \in Viewer \ wiped :
        vpc[v] = "hello" /\ "cut" \notin trouble =>
            \/ \E m \in viewerQ : m.kind = "hello" /\ m.from = v
            \/ \E m \in hostQ : m.to = v

\* An offer a viewer has not been delivered is never hidden behind the seq up to
\* which it has seen: seq is continuous in the host queue although each offer
\* takes the viewer's former offers out. (A wiped room numbers from 0 again: a
\* viewer that was there is excepted.)
OfferNotHidden ==
    \A v \in Viewer \ wiped : \A m \in hostQ :
        m.to = v /\ net[v] # "off" /\ m.gen > applied[v] => m.seq > seen[v]

\* A viewer that says hello is connected, if it stays and nothing fails.
Connects ==
    \A v \in Viewer :
        vpc[v] = "hello" ~> answered[v] # 0 \/ vpc[v] = "gone" \/ faults > 0 \/ "cut" \in trouble

\* playgate-signaling README, wait: "When a new message arrives within that
\* window the request returns immediately".
LongPollWakes == [][\A v \in Viewer : parked /\ Push(v) => ~parked']_vars

=============================================================================
