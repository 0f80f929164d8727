-------------------------- MODULE ViewerConnProofs --------------------------
(***************************************************************************)
(* Safety of a viewer's connection, for buffers of any capacity (for       *)
(* connState, three more than the handlers of a state that may be late),   *)
(* any number of frames and of goroutines.                                 *)
(***************************************************************************)
EXTENDS ViewerConn, TLAPS

\* The steps of the next-state relation one by one.
LEMMA PeerCases ==
    ASSUME PeerNext
    PROVE  \/ CancelParent \/ StartViewer \/ PostOffer \/ AwaitDisconnect
           \/ RemoveSink \/ ClosePC \/ MarkClosed \/ Forget
           \/ OnConnectionState \/ ForwarderEnds \/ Forward \/ WriteSample
           \/ \E s \in ConnState : ChangeState(s)
           \/ \E f \in Frame : OnInput(f)
           \/ \E a \in Auth : \/ OnAuth(a) \/ Claims(a) \/ TakeCommand(a)
                              \/ PassOn(a) \/ AuthorizeEnds(a)
BY DEF PeerNext, ViewerStep, AuthStep

\* A channel before and after a send or a receive.
LEMMA Queues ==
    ASSUME NEW S, NEW q \in Seq(S)
    PROVE  /\ \A x \in S : Append(q, x) \in Seq(S)
           /\ q # <<>> => Tail(q) \in Seq(S)
OBVIOUS

-----------------------------------------------------------------------------
(* The channels of the peer. *)

ChannelTypeOK ==
    /\ commands \in Seq(Frame) /\ lastInputSeq \in 0..MaxSeq
    /\ connState \in Seq(ConnState) /\ callbacks \in [ConnState -> Nat]
    /\ pcState \in ConnState

\* The channels hold what they are declared to hold.
LEMMA ChannelTypes == PeerSpec => []ChannelTypeOK
<1>1. PeerInit => ChannelTypeOK
    BY PeerAssumption DEF PeerInit, ChannelTypeOK, ConnState
<1>2. ChannelTypeOK /\ [PeerNext]_peerVars => ChannelTypeOK'
    <2> SUFFICES ASSUME ChannelTypeOK, [PeerNext]_peerVars
                 PROVE  ChannelTypeOK'
        OBVIOUS
    <2> USE DEF ChannelTypeOK
    <2>1. CASE UNCHANGED peerVars
        BY <2>1 DEF peerVars, frameVars, stateVars
    <2>2. CASE CancelParent \/ StartViewer \/ PostOffer \/ MarkClosed \/ Forget
        BY <2>2 DEF CancelParent, StartViewer, PostOffer, MarkClosed, Forget, frameVars, stateVars
    <2>3. CASE AwaitDisconnect
        <3>1. connState' = connState \/ (connState # <<>> /\ connState' = Tail(connState))
            BY <2>3 DEF AwaitDisconnect
        <3>2. connState' \in Seq(ConnState)
            BY <3>1, Queues
        <3> QED BY <2>3, <3>2 DEF AwaitDisconnect, frameVars
    <2>4. CASE RemoveSink
        BY <2>4 DEF RemoveSink, frameVars
    <2>11. CASE ClosePC
        <3>1. "closed" \in ConnState
            BY DEF ConnState, Terminal
        <3>2. callbacks' \in [ConnState -> Nat] /\ pcState' \in ConnState
            BY <2>11, <3>1 DEF ClosePC
        <3> QED BY <2>11, <3>2 DEF ClosePC, frameVars
    <2>5. CASE OnConnectionState
        <3>1. PICK s \in ConnState :
                /\ callbacks[s] > 0 /\ callbacks' = [callbacks EXCEPT ![s] = @ - 1]
                /\ connState' = connState \/ connState' = Append(connState, s)
            BY <2>5 DEF OnConnectionState
        <3>2. connState' \in Seq(ConnState)
            BY <3>1, Queues
        <3>3. callbacks[s] - 1 \in Nat
            BY <3>1
        <3>4. callbacks' \in [ConnState -> Nat]
            BY <3>1, <3>3
        <3> QED BY <2>5, <3>2, <3>4 DEF OnConnectionState, frameVars
    <2>6. CASE ForwarderEnds \/ Forward \/ WriteSample
        BY <2>6 DEF ForwarderEnds, Forward, WriteSample, frameVars, stateVars
    <2>7. ASSUME NEW s \in ConnState, ChangeState(s)
          PROVE  ChannelTypeOK'
        <3>1. callbacks' \in [ConnState -> Nat]
            BY <2>7 DEF ChangeState
        <3> QED BY <2>7, <3>1 DEF ChangeState, frameVars
    <2>8. ASSUME NEW f \in Frame, OnInput(f)
          PROVE  ChannelTypeOK'
        <3>1. Tail(commands) \in Seq(Frame) \/ Len(commands) < CommandBuffer
            BY PeerAssumption
        <3>2. commands' \in Seq(Frame)
            BY <2>8, <3>1 DEF OnInput, PushCommand
        <3>3. lastInputSeq' \in 0..MaxSeq
            BY <2>8, PeerAssumption DEF OnInput, Frame
        <3> QED BY <2>8, <3>2, <3>3 DEF OnInput, stateVars
    <2>9. ASSUME NEW a \in Auth,
                 OnAuth(a) \/ Claims(a) \/ PassOn(a) \/ AuthorizeEnds(a)
          PROVE  ChannelTypeOK'
        BY <2>9 DEF OnAuth, Claims, PassOn, AuthorizeEnds, frameVars, stateVars
    <2>10. ASSUME NEW a \in Auth, TakeCommand(a)
           PROVE  ChannelTypeOK'
        BY <2>10 DEF TakeCommand, stateVars
    <2> QED BY <2>1, <2>2, <2>3, <2>4, <2>5, <2>6, <2>7, <2>8, <2>9, <2>10,
            <2>11, PeerCases
<1> QED BY <1>1, <1>2, PTL DEF PeerSpec

-----------------------------------------------------------------------------
(* NoSendAfterClose: the flag is set before the channels are closed, and   *)
(* stays set.                                                              *)

FlagFirst == chansClosed \/ conn = "channels" => closed

\* The channels are closed by a peer that is marked closed.
LEMMA FlagIsFirst == PeerSpec => []FlagFirst
<1>1. PeerInit => FlagFirst
    BY DEF PeerInit, FlagFirst
<1>2. FlagFirst /\ [PeerNext]_peerVars => FlagFirst'
    <2> SUFFICES ASSUME FlagFirst, [PeerNext]_peerVars
                 PROVE  FlagFirst'
        OBVIOUS
    <2> USE DEF FlagFirst
    <2>1. CASE UNCHANGED peerVars
        BY <2>1 DEF peerVars, closeVars
    <2>2. CASE CancelParent \/ StartViewer \/ PostOffer \/ AwaitDisconnect
        BY <2>2 DEF CancelParent, StartViewer, PostOffer, AwaitDisconnect, closeVars
    <2>3. CASE RemoveSink \/ ClosePC \/ Forget
        BY <2>3 DEF RemoveSink, ClosePC, Forget, closeVars
    <2>4. CASE MarkClosed
        BY <2>4 DEF MarkClosed
    <2>5. CASE OnConnectionState \/ ForwarderEnds \/ Forward \/ WriteSample
        BY <2>5 DEF OnConnectionState, ForwarderEnds, Forward, WriteSample, closeVars
    <2>6. CASE \E s \in ConnState : ChangeState(s)
        BY <2>6 DEF ChangeState, closeVars
    <2>7. CASE \E f \in Frame : OnInput(f)
        BY <2>7 DEF OnInput, closeVars
    <2>8. ASSUME NEW a \in Auth,
                 OnAuth(a) \/ Claims(a) \/ TakeCommand(a) \/ PassOn(a) \/ AuthorizeEnds(a)
          PROVE  FlagFirst'
        BY <2>8 DEF OnAuth, Claims, TakeCommand, PassOn, AuthorizeEnds, closeVars
    <2> QED BY <2>1, <2>2, <2>3, <2>4, <2>5, <2>6, <2>7, <2>8, PeerCases
<1> QED BY <1>1, <1>2, PTL DEF PeerSpec

\* No callback of Pion, however late, sends on commands or connState once Close has
\* closed them.
THEOREM ClosesSafely == PeerSpec => NoSendAfterClose
<1>1. ChannelTypeOK /\ FlagFirst /\ [PeerNext]_peerVars =>
        [chansClosed => /\ Len(commands') <= Len(commands)
                        /\ Len(connState') <= Len(connState)]_peerVars
    <2> SUFFICES ASSUME ChannelTypeOK, closed, PeerNext
                 PROVE  /\ Len(commands') <= Len(commands)
                        /\ Len(connState') <= Len(connState)
        BY DEF FlagFirst
    <2>0. /\ Len(commands) \in Nat /\ Len(connState) \in Nat
          /\ commands # <<>> => Len(Tail(commands)) <= Len(commands)
          /\ connState # <<>> => Len(Tail(connState)) <= Len(connState)
        BY DEF ChannelTypeOK
    <2>1. CASE CancelParent \/ StartViewer \/ PostOffer \/ MarkClosed \/ Forget
        <3>1. commands' = commands /\ connState' = connState
            BY <2>1 DEF CancelParent, StartViewer, PostOffer, MarkClosed, Forget,
                frameVars, stateVars
        <3> QED BY <2>0, <3>1
    <2>2. CASE AwaitDisconnect \/ RemoveSink \/ ClosePC
        BY <2>0, <2>2 DEF AwaitDisconnect, RemoveSink, ClosePC, frameVars
    <2>3. CASE OnConnectionState \/ ForwarderEnds \/ Forward \/ WriteSample
        BY <2>0, <2>3 DEF OnConnectionState, ForwarderEnds, Forward, WriteSample,
            frameVars, stateVars
    <2>4. CASE \E s \in ConnState : ChangeState(s)
        BY <2>0, <2>4 DEF ChangeState, frameVars
    <2>5. CASE \E f \in Frame : OnInput(f)
        BY <2>5 DEF OnInput
    <2>6. ASSUME NEW a \in Auth,
                 OnAuth(a) \/ Claims(a) \/ TakeCommand(a) \/ PassOn(a) \/ AuthorizeEnds(a)
          PROVE  /\ Len(commands') <= Len(commands)
                 /\ Len(connState') <= Len(connState)
        BY <2>0, <2>6 DEF OnAuth, Claims, TakeCommand, PassOn, AuthorizeEnds,
            frameVars, stateVars
    <2> QED BY <2>1, <2>2, <2>3, <2>4, <2>5, <2>6, PeerCases
<1> QED BY <1>1, ChannelTypes, FlagIsFirst, PTL DEF PeerSpec, NoSendAfterClose

-----------------------------------------------------------------------------
(* InputInOrder: what was played, the command in a goroutine's hand, the   *)
(* channel and the newest frame are in this order, and one goroutine reads *)
(* at a time.                                                              *)

AuthTypeOK ==
    /\ played \in 0..MaxSeq
    /\ hand \in [Auth -> 0..MaxSeq]
    /\ reader \in [Auth -> {"off", "claim", "drain"}]

OneReader ==
    \A a \in Auth : reader[a] # "off" =>
        authorizing /\ \A b \in Auth : reader[b] # "off" => a = b

Queued ==
    /\ \A i \in DOMAIN commands : played <= commands[i] /\ commands[i] <= lastInputSeq
    /\ \A i, j \in DOMAIN commands : i < j => commands[i] <= commands[j]

InHand ==
    \A a \in Auth : hand[a] # 0 =>
        /\ reader[a] = "drain" /\ played <= hand[a] /\ hand[a] <= lastInputSeq
        /\ \A i \in DOMAIN commands : hand[a] <= commands[i]

OrderInv ==
    ChannelTypeOK /\ AuthTypeOK /\ OneReader /\ Queued /\ InHand /\ played <= lastInputSeq

\* The variables OrderInv is about, but for the states ChannelTypes has dealt with.
orderVars == <<frameVars, authVars>>

\* A frame that passes the gate is newer than anything on its way.
LEMMA OnInputOrdered ==
    ASSUME OrderInv, ChannelTypeOK', NEW f \in Frame, OnInput(f)
    PROVE  OrderInv'
<1>1. f \in Nat /\ lastInputSeq \in Nat /\ played \in Nat /\ f > lastInputSeq
      /\ lastInputSeq' = f /\ UNCHANGED authVars
    BY PeerAssumption DEF OrderInv, ChannelTypeOK, AuthTypeOK, OnInput, Frame
<1>2. AuthTypeOK' /\ OneReader'
    BY <1>1 DEF OrderInv, AuthTypeOK, OneReader, authVars
<1> DEFINE kept == IF Len(commands) < CommandBuffer THEN commands ELSE Tail(commands)
<1>3. commands \in Seq(Frame) /\ commands' = Append(kept, f)
    BY DEF OrderInv, ChannelTypeOK, OnInput, PushCommand
<1>4. kept \in Seq(Frame)
    BY <1>3, PeerAssumption
<1>5. \A i \in DOMAIN kept : \E k \in DOMAIN commands :
            /\ kept[i] = commands[k]
            /\ \A j \in DOMAIN kept : i < j => \E l \in DOMAIN commands :
                    k < l /\ kept[j] = commands[l]
    <2>1. CASE Len(commands) < CommandBuffer
        BY <1>3, <2>1
    <2>2. CASE ~(Len(commands) < CommandBuffer)
        <3>1. kept = Tail(commands) /\ commands # <<>>
            BY <1>3, <2>2, PeerAssumption
        <3>2. Len(kept) = Len(commands) - 1 /\ \A i \in 1..Len(kept) : kept[i] = commands[i + 1]
            BY <1>3, <3>1
        <3>3. ASSUME NEW i \in DOMAIN kept
              PROVE  /\ i \in 1..Len(kept) /\ i + 1 \in DOMAIN commands
                     /\ kept[i] = commands[i + 1]
            BY <1>3, <1>4, <3>2
        <3> HIDE DEF kept
        <3>4. \A i \in DOMAIN kept : i \in Nat
            BY <1>4
        <3> QED BY <3>3, <3>4
    <2> QED BY <2>1, <2>2
<1>6. \A i \in DOMAIN commands : commands[i] \in Nat
    BY <1>3, PeerAssumption DEF Frame
<1>7. \A i \in DOMAIN kept : kept[i] \in Nat /\ played <= kept[i] /\ kept[i] <= lastInputSeq
    BY <1>5, <1>6 DEF OrderInv, Queued
<1>8. \A i, j \in DOMAIN kept : i < j => kept[i] <= kept[j]
    BY <1>5 DEF OrderInv, Queued
<1> HIDE DEF kept
<1>9. /\ DOMAIN commands' = 1..(Len(kept) + 1) /\ DOMAIN kept = 1..Len(kept)
      /\ Len(kept) \in Nat
      /\ \A i \in 1..Len(kept) : commands'[i] = kept[i]
      /\ commands'[Len(kept) + 1] = f
    BY <1>3, <1>4
<1>10. Queued'
    <2>1. \A i \in DOMAIN commands' : played' <= commands'[i] /\ commands'[i] <= lastInputSeq'
        BY <1>1, <1>7, <1>9 DEF OrderInv, authVars
    <2>2. \A i, j \in DOMAIN commands' : i < j => commands'[i] <= commands'[j]
        BY <1>1, <1>7, <1>8, <1>9
    <2> QED BY <2>1, <2>2 DEF Queued
<1>11. InHand'
    <2> SUFFICES ASSUME NEW a \in Auth, hand[a] # 0
                 PROVE  /\ reader[a] = "drain" /\ played <= hand[a] /\ hand[a] <= f
                        /\ \A i \in DOMAIN commands' : hand[a] <= commands'[i]
        BY <1>1 DEF InHand, authVars
    <2>1. hand[a] \in Nat /\ hand[a] <= lastInputSeq /\ reader[a] = "drain" /\ played <= hand[a]
        BY PeerAssumption DEF OrderInv, InHand, AuthTypeOK
    <2>2. \A i \in DOMAIN kept : hand[a] <= kept[i]
        BY <1>5 DEF OrderInv, InHand
    <2> QED BY <1>1, <1>9, <2>1, <2>2
<1> QED BY <1>1, <1>2, <1>10, <1>11 DEF OrderInv, authVars

\* The oldest command is next.
LEMMA TakeOrdered ==
    ASSUME OrderInv, ChannelTypeOK', NEW a \in Auth, TakeCommand(a)
    PROVE  OrderInv'
<1>1. /\ reader[a] = "drain" /\ hand[a] = 0 /\ commands # <<>>
      /\ commands' = Tail(commands) /\ hand' = [hand EXCEPT ![a] = Head(commands)]
      /\ UNCHANGED <<lastInputSeq, authorizing, reader, played>>
      /\ commands \in Seq(Frame) /\ hand \in [Auth -> 0..MaxSeq]
    BY DEF TakeCommand, OrderInv, ChannelTypeOK, AuthTypeOK
<1>2. /\ Head(commands) = commands[1] /\ 1 \in DOMAIN commands
      /\ Head(commands) \in 0..MaxSeq
    BY <1>1, PeerAssumption DEF Frame
<1>3. \A i \in DOMAIN commands' : /\ i + 1 \in DOMAIN commands /\ 1 < i + 1
                                  /\ commands'[i] = commands[i + 1]
    BY <1>1
<1>4. \A i, j \in DOMAIN commands' : i < j => i + 1 < j + 1
    BY <1>1
<1>5. Queued'
    BY <1>1, <1>3, <1>4 DEF OrderInv, Queued
<1>6. InHand'
    <2> SUFFICES ASSUME NEW b \in Auth, hand'[b] # 0
                 PROVE  /\ reader[b] = "drain" /\ played <= hand'[b] /\ hand'[b] <= lastInputSeq
                        /\ \A i \in DOMAIN commands' : hand'[b] <= commands'[i]
        BY <1>1 DEF InHand
    <2>1. CASE b = a
        <3>1. hand'[b] = commands[1]
            BY <1>1, <1>2, <2>1
        <3> QED BY <1>1, <1>2, <1>3, <2>1, <3>1 DEF OrderInv, Queued
    <2>2. CASE b # a
        <3>1. hand'[b] = hand[b]
            BY <1>1, <2>2
        <3> QED BY <1>3, <3>1 DEF OrderInv, InHand
    <2> QED BY <2>1, <2>2
<1>7. AuthTypeOK' /\ OneReader' /\ played' <= lastInputSeq'
    BY <1>1, <1>2 DEF OrderInv, AuthTypeOK, OneReader
<1> QED BY <1>5, <1>6, <1>7 DEF OrderInv

\* The goroutine that has a command in hand is the only one.
LEMMA PassOrdered ==
    ASSUME OrderInv, ChannelTypeOK', NEW a \in Auth, PassOn(a)
    PROVE  OrderInv' /\ played' >= played
<1>1. /\ hand[a] # 0 /\ played' \in {played, hand[a]} /\ hand' = [hand EXCEPT ![a] = 0]
      /\ UNCHANGED <<commands, lastInputSeq, authorizing, reader>>
      /\ hand \in [Auth -> 0..MaxSeq] /\ played \in Nat /\ hand[a] \in Nat
      /\ reader[a] = "drain" /\ played <= hand[a] /\ hand[a] <= lastInputSeq
    BY PeerAssumption DEF PassOn, OrderInv, AuthTypeOK, InHand, frameVars
<1>2. \A b \in Auth : hand'[b] = 0
    <2> SUFFICES ASSUME NEW b \in Auth, b # a
                 PROVE  hand[b] = 0
        BY <1>1
    <2> QED BY <1>1 DEF OrderInv, InHand, OneReader
<1>3. InHand'
    BY <1>2 DEF InHand
<1>4. Queued' /\ played' <= lastInputSeq'
    BY <1>1 DEF OrderInv, Queued, InHand
<1>5. AuthTypeOK' /\ OneReader'
    BY <1>1, PeerAssumption DEF OrderInv, AuthTypeOK, OneReader
<1>6. played' >= played
    BY <1>1
<1> QED BY <1>3, <1>4, <1>5, <1>6 DEF OrderInv

\* An authorization begins when there is none, and ends the only one.
LEMMA AuthOrdered ==
    ASSUME OrderInv, ChannelTypeOK', NEW a \in Auth,
           OnAuth(a) \/ Claims(a) \/ AuthorizeEnds(a)
    PROVE  OrderInv'
<1>1. /\ hand \in [Auth -> 0..MaxSeq] /\ reader \in [Auth -> {"off", "claim", "drain"}]
      /\ UNCHANGED <<commands, lastInputSeq, played>>
    BY DEF OrderInv, AuthTypeOK, OnAuth, Claims, AuthorizeEnds, frameVars
<1>2. Queued' /\ played' <= lastInputSeq'
    BY <1>1 DEF OrderInv, Queued
<1>3. CASE OnAuth(a)
    <2>1. \A b \in Auth : reader[b] = "off" /\ hand[b] = 0
        BY <1>3 DEF OnAuth, OrderInv, OneReader, InHand
    <2>2. reader' = [reader EXCEPT ![a] = "claim"] /\ authorizing' = TRUE /\ hand' = hand
        BY <1>3 DEF OnAuth
    <2>3. AuthTypeOK' /\ OneReader'
        BY <1>1, <2>1, <2>2 DEF OrderInv, AuthTypeOK, OneReader
    <2>4. InHand'
        BY <2>1, <2>2 DEF InHand
    <2> QED BY <1>2, <2>3, <2>4 DEF OrderInv
<1>4. CASE Claims(a) \/ AuthorizeEnds(a)
    <2>1. reader[a] # "off"
        BY <1>4 DEF Claims, AuthorizeEnds
    <2>2. \A b \in Auth : b # a => reader[b] = "off" /\ hand[b] = 0
        BY <2>1 DEF OrderInv, OneReader, InHand
    <2>3. CASE Claims(a) /\ reader' = [reader EXCEPT ![a] = "drain"]
        <3>1. hand[a] = 0 /\ hand' = hand
            BY <1>4, <2>3 DEF Claims, OrderInv, InHand
        <3>2. authorizing' = authorizing \/ authorizing' = FALSE
            BY <2>3 DEF Claims
        <3>3. authorizing
            BY <2>1 DEF OrderInv, OneReader
        <3>4. authorizing'
            BY <1>1, <2>3, <3>3 DEF Claims
        <3>5. AuthTypeOK' /\ OneReader'
            BY <1>1, <2>2, <2>3, <3>1, <3>4 DEF OrderInv, AuthTypeOK, OneReader
        <3>6. InHand'
            BY <2>2, <3>1 DEF InHand
        <3> QED BY <1>2, <3>5, <3>6 DEF OrderInv
    <2>4. CASE reader' = [reader EXCEPT ![a] = "off"]
        <3>1. \A b \in Auth : reader'[b] = "off"
            BY <1>1, <2>2, <2>4
        <3>2. hand' = hand \/ hand' = [hand EXCEPT ![a] = 0]
            BY <1>4 DEF Claims, AuthorizeEnds
        <3>3. \A b \in Auth : hand'[b] = 0
            <4>1. Claims(a) => hand[a] = 0 /\ hand' = hand
                BY DEF Claims, OrderInv, InHand
            <4>2. AuthorizeEnds(a) => hand' = [hand EXCEPT ![a] = 0]
                BY DEF AuthorizeEnds
            <4> QED BY <1>1, <1>4, <2>2, <4>1, <4>2
        <3>4. AuthTypeOK' /\ OneReader'
            BY <1>1, <2>4, <3>1, <3>2, PeerAssumption DEF OrderInv, AuthTypeOK, OneReader
        <3>5. InHand'
            BY <3>3 DEF InHand
        <3> QED BY <1>2, <3>4, <3>5 DEF OrderInv
    <2> QED BY <1>4, <2>3, <2>4 DEF Claims, AuthorizeEnds
<1> QED BY <1>3, <1>4

\* No other step is about commands, their numbers or their readers.
LEMMA OthersOrdered ==
    ASSUME PeerNext,
           ~\E f \in Frame : OnInput(f),
           ~\E a \in Auth : \/ OnAuth(a) \/ Claims(a) \/ TakeCommand(a)
                            \/ PassOn(a) \/ AuthorizeEnds(a)
    PROVE  UNCHANGED orderVars
<1>1. CASE CancelParent \/ StartViewer \/ PostOffer \/ AwaitDisconnect \/ RemoveSink
    BY <1>1 DEF CancelParent, StartViewer, PostOffer, AwaitDisconnect, RemoveSink, orderVars
<1>2. CASE ClosePC \/ MarkClosed \/ Forget \/ OnConnectionState \/ ForwarderEnds
    BY <1>2 DEF ClosePC, MarkClosed, Forget, OnConnectionState, ForwarderEnds, orderVars
<1>3. CASE Forward \/ WriteSample \/ \E s \in ConnState : ChangeState(s)
    BY <1>3 DEF Forward, WriteSample, ChangeState, orderVars
<1> QED BY <1>1, <1>2, <1>3, PeerCases

\* Frames are played in their order, whatever the channel does with them and however
\* often the viewer authorizes.
THEOREM PlaysInOrder == PeerSpec => InputInOrder
<1>1. PeerInit => OrderInv
    <2> SUFFICES ASSUME PeerInit
                 PROVE  OrderInv
        OBVIOUS
    <2>1. ChannelTypeOK
        BY PeerAssumption DEF PeerInit, ChannelTypeOK, ConnState
    <2>2. AuthTypeOK /\ OneReader /\ InHand /\ played <= lastInputSeq
        BY PeerAssumption DEF PeerInit, AuthTypeOK, OneReader, InHand
    <2>3. DOMAIN commands = {}
        BY DEF PeerInit
    <2>4. Queued
        BY <2>3 DEF Queued
    <2> QED BY <2>1, <2>2, <2>4 DEF OrderInv
<1>2. OrderInv /\ ChannelTypeOK' /\ [PeerNext]_peerVars =>
        OrderInv' /\ [played' >= played]_peerVars
    <2> SUFFICES ASSUME OrderInv, ChannelTypeOK', [PeerNext]_peerVars
                 PROVE  OrderInv' /\ played' >= played
        OBVIOUS
    <2>0. played \in Int
        BY DEF OrderInv, AuthTypeOK
    <2>1. CASE UNCHANGED orderVars
        <3>1. UNCHANGED <<commands, lastInputSeq, authorizing, reader, hand, played>>
            BY <2>1 DEF orderVars, frameVars, authVars
        <3>2. AuthTypeOK' /\ OneReader' /\ Queued' /\ InHand' /\ played' <= lastInputSeq'
            BY <3>1 DEF OrderInv, AuthTypeOK, OneReader, Queued, InHand
        <3> QED BY <2>0, <3>1, <3>2 DEF OrderInv
    <2>2. ASSUME NEW f \in Frame, OnInput(f)
          PROVE  OrderInv' /\ played' >= played
        <3>1. played' = played
            BY <2>2 DEF OnInput, authVars
        <3> QED BY <2>0, <2>2, <3>1, OnInputOrdered
    <2>3. ASSUME NEW a \in Auth, OnAuth(a) \/ Claims(a) \/ AuthorizeEnds(a)
          PROVE  OrderInv' /\ played' >= played
        <3>1. played' = played
            BY <2>3 DEF OnAuth, Claims, AuthorizeEnds
        <3> QED BY <2>0, <2>3, <3>1, AuthOrdered
    <2>4. ASSUME NEW a \in Auth, TakeCommand(a)
          PROVE  OrderInv' /\ played' >= played
        <3>1. played' = played
            BY <2>4 DEF TakeCommand
        <3> QED BY <2>0, <2>4, <3>1, TakeOrdered
    <2>5. ASSUME NEW a \in Auth, PassOn(a)
          PROVE  OrderInv' /\ played' >= played
        BY <2>5, PassOrdered
    <2>6. CASE UNCHANGED peerVars
        BY <2>1, <2>6 DEF peerVars, orderVars
    <2> QED BY <2>1, <2>2, <2>3, <2>4, <2>5, <2>6, OthersOrdered
<1> QED BY <1>1, <1>2, ChannelTypes, PTL DEF PeerSpec, InputInOrder

-----------------------------------------------------------------------------
(* DisconnectNoticed: as long as connState has no state that ends          *)
(* awaitDisconnect, the ordinary ones in it and on their way are two at    *)
(* most, and one more for every handler of a loss that is late. So         *)
(* connState is not full when the first of these handlers runs.            *)

None(q) == \A i \in DOMAIN q : q[i] \notin Terminal

Listening == conn \in {"offering", "await"}

Lost == callbacks["disconnected"]
Ordinary == Len(connState) + callbacks["connecting"] + callbacks["connected"]

Fits ==
    /\ pcState = "new" => Ordinary = 0
    /\ pcState = "connecting" => Ordinary <= 1
    /\ pcState = "connected" => Ordinary <= 2 + Lost
    /\ pcState = "disconnected" => Lost > 0 /\ Ordinary <= 1 + Lost
    /\ pcState = "failed" => callbacks["failed"] > 0 /\ Ordinary <= 1 + Lost

StatesInv ==
    /\ conn = "new" =>
        pcState = "new" /\ connState = <<>> /\ \A s \in ConnState : callbacks[s] = 0
    /\ conn = "new" \/ Listening => ~closed
    /\ Listening => /\ pcState # "closed" /\ Lost <= LateStates
                    /\ callbacks["new"] = 0 /\ callbacks["closed"] = 0
    /\ Listening /\ None(connState) => Fits

\* A state at the end of a queue: there is a terminal one iff it is, or was there.
LEMMA NoneAppend ==
    ASSUME NEW q \in Seq(ConnState), NEW s \in ConnState
    PROVE  None(Append(q, s)) <=> None(q) /\ s \notin Terminal
<1>1. /\ DOMAIN Append(q, s) = 1..(Len(q) + 1) /\ DOMAIN q = 1..Len(q) /\ Len(q) \in Nat
      /\ \A i \in 1..Len(q) : Append(q, s)[i] = q[i]
      /\ Append(q, s)[Len(q) + 1] = s
    OBVIOUS
<1>2. 1..(Len(q) + 1) = 1..Len(q) \cup {Len(q) + 1}
    BY <1>1
<1> QED BY <1>1, <1>2 DEF None

\* Taking the first state.
LEMMA NoneTail ==
    ASSUME NEW q \in Seq(ConnState), q # <<>>
    PROVE  None(q) <=> None(Tail(q)) /\ Head(q) \notin Terminal
<1>1. /\ DOMAIN q = 1..Len(q) /\ Len(q) \in Nat \ {0} /\ Head(q) = q[1]
      /\ DOMAIN Tail(q) = 1..(Len(q) - 1)
      /\ \A i \in 1..(Len(q) - 1) : Tail(q)[i] = q[i + 1]
    OBVIOUS
<1>2. None(q) => None(Tail(q)) /\ Head(q) \notin Terminal
    <2>1. \A i \in 1..(Len(q) - 1) : i + 1 \in 1..Len(q)
        BY <1>1
    <2> QED BY <1>1, <2>1 DEF None
<1>3. None(Tail(q)) /\ Head(q) \notin Terminal => None(q)
    <2> SUFFICES ASSUME None(Tail(q)), q[1] \notin Terminal, NEW i \in 1..Len(q)
                 PROVE  q[i] \notin Terminal
        BY <1>1 DEF None
    <2>1. CASE i = 1
        BY <2>1
    <2>2. CASE i # 1
        <3>1. i - 1 \in 1..(Len(q) - 1) /\ (i - 1) + 1 = i
            BY <1>1, <2>2
        <3> QED BY <1>1, <3>1 DEF None
    <2> QED BY <2>1, <2>2
<1> QED BY <1>2, <1>3

\* The counts of handlers are numbers.
LEMMA CountsAreNat ==
    ASSUME ChannelTypeOK
    PROVE  /\ \A s \in ConnState : callbacks[s] \in Nat
           /\ ConnState = {"new", "connecting", "connected", "disconnected", "failed", "closed"}
           /\ Len(connState) \in Nat /\ pcState \in ConnState /\ Lost \in Nat
           /\ Ordinary \in Nat
BY DEF ChannelTypeOK, ConnState, Terminal, Lost, Ordinary

\* How a step changes the number of ordinary states.
LEMMA OrdinaryChanges ==
    ASSUME ChannelTypeOK, NEW a \in Int, NEW b \in Int, NEW c \in Int,
           Len(connState') = Len(connState) + a,
           callbacks'["connecting"] = callbacks["connecting"] + b,
           callbacks'["connected"] = callbacks["connected"] + c
    PROVE  Ordinary' = Ordinary + a + b + c
<1> DEFINE l == Len(connState)
           g == callbacks["connecting"]
           h == callbacks["connected"]
<1>1. l \in Int /\ g \in Int /\ h \in Int
    BY CountsAreNat
<1>2. Ordinary = l + g + h
    BY DEF Ordinary
<1>3. Ordinary' = (l + a) + (g + b) + (h + c)
    BY DEF Ordinary
<1> HIDE DEF l, g, h
<1> QED BY <1>1, <1>2, <1>3

\* The states change while somebody listens, or will.
LEMMA ChangeKeeps ==
    ASSUME StatesInv, ChannelTypeOK, NEW s \in ConnState, ChangeState(s)
    PROVE  StatesInv'
<1>1. /\ conn' = conn /\ conn # "new" /\ pcState' = s /\ s \in NextState[pcState]
      /\ callbacks[s] < LateStates /\ callbacks' = [callbacks EXCEPT ![s] = @ + 1]
      /\ connState' = connState /\ closed' = closed
      /\ callbacks \in [ConnState -> Nat]
    BY DEF ChangeState, ChannelTypeOK, closeVars
<1>2. /\ callbacks'[s] = callbacks[s] + 1
      /\ \A t \in ConnState : t # s => callbacks'[t] = callbacks[t]
    BY <1>1
<1>3. Listening' <=> Listening
    BY <1>1 DEF Listening
<1>4. None(connState') <=> None(connState)
    BY <1>1
<1>5. \/ pcState = "new" /\ s = "connecting"
      \/ pcState = "connecting" /\ s \in {"connected", "failed"}
      \/ pcState = "connected" /\ s = "disconnected"
      \/ pcState = "disconnected" /\ s \in {"connected", "failed"}
    BY <1>1, CountsAreNat DEF NextState
<1>6. Listening => /\ s # "closed" /\ Lost' <= LateStates
                   /\ callbacks'["new"] = 0 /\ callbacks'["closed"] = 0
    BY <1>1, <1>2, <1>5, CountsAreNat, PeerAssumption DEF StatesInv, Lost
<1>7. ASSUME Fits
      PROVE  Fits'
    <2>0. /\ {"connecting", "connected", "disconnected", "failed"} \subseteq ConnState
          /\ callbacks["connecting"] \in Nat /\ callbacks["connected"] \in Nat
          /\ Len(connState) \in Nat /\ callbacks["failed"] \in Nat
        BY CountsAreNat
    <2>1. Len(connState') = Len(connState)
        BY <1>1
    <2>2. CASE s \in {"connecting", "connected"}
        <3>1. Ordinary' = Ordinary + 1
            <4>1. CASE s = "connecting"
                <5>1. Ordinary' = Ordinary + 0 + 1 + 0
                    BY <1>2, <2>0, <2>1, <4>1, OrdinaryChanges
                <5> QED BY <5>1, CountsAreNat
            <4>2. CASE s = "connected"
                <5>1. Ordinary' = Ordinary + 0 + 0 + 1
                    BY <1>2, <2>0, <2>1, <4>2, OrdinaryChanges
                <5> QED BY <5>1, CountsAreNat
            <4> QED BY <2>2, <4>1, <4>2
        <3>2. Lost' = Lost
            BY <1>2, <2>0, <2>2 DEF Lost
        <3> QED BY <1>1, <1>5, <1>7, <2>2, <3>1, <3>2, CountsAreNat DEF Fits
    <2>3. CASE s = "disconnected"
        <3>1. Ordinary' = Ordinary /\ Lost' = Lost + 1
            BY <1>2, <2>0, <2>1, <2>3 DEF Ordinary, Lost
        <3> QED BY <1>1, <1>5, <1>7, <2>3, <3>1, CountsAreNat DEF Fits
    <2>4. CASE s = "failed"
        <3>1. Ordinary' = Ordinary /\ Lost' = Lost /\ callbacks'["failed"] > 0
            BY <1>2, <2>0, <2>1, <2>4 DEF Ordinary, Lost
        <3> QED BY <1>1, <1>5, <1>7, <2>4, <3>1, CountsAreNat DEF Fits
    <2> QED BY <1>5, <2>2, <2>3, <2>4
<1> QED BY <1>1, <1>3, <1>4, <1>6, <1>7 DEF StatesInv

\* A handler that finds connState full finds a terminal state in it.
LEMMA CallbackKeeps ==
    ASSUME StatesInv, ChannelTypeOK, OnConnectionState, ~closed
    PROVE  StatesInv'
<1>1. PICK s \in ConnState :
        /\ callbacks[s] > 0 /\ callbacks' = [callbacks EXCEPT ![s] = @ - 1]
        /\ connState' = IF Len(connState) = StateBuffer THEN connState
                        ELSE Append(connState, s)
    BY DEF OnConnectionState
<1>2. /\ conn' = conn /\ pcState' = pcState /\ closed' = closed
      /\ connState \in Seq(ConnState) /\ callbacks \in [ConnState -> Nat]
    BY DEF OnConnectionState, ChannelTypeOK, closeVars
<1>3. /\ callbacks'[s] = callbacks[s] - 1
      /\ \A t \in ConnState : t # s => callbacks'[t] = callbacks[t]
    BY <1>1, <1>2
<1>4. conn # "new" /\ (Listening' <=> Listening)
    BY <1>1, <1>2, CountsAreNat DEF StatesInv, Listening
<1>5. Listening => /\ pcState # "closed" /\ Lost' <= LateStates
                   /\ callbacks'["new"] = 0 /\ callbacks'["closed"] = 0
                   /\ s \in {"connecting", "connected", "disconnected", "failed"}
    BY <1>1, <1>3, CountsAreNat, PeerAssumption DEF StatesInv, Lost
<1>6. ASSUME Listening, None(connState')
      PROVE  Fits'
    <2>0. /\ {"connecting", "connected", "disconnected", "failed"} \subseteq ConnState
          /\ callbacks["connecting"] \in Nat /\ callbacks["connected"] \in Nat
          /\ Len(connState) \in Nat /\ callbacks["failed"] \in Nat
        BY CountsAreNat
    <2>1. None(connState) => Fits
        BY <1>6 DEF StatesInv
    <2>2. None(connState) => Len(connState) <= 2 + LateStates
        BY <1>6, <2>1, CountsAreNat, PeerAssumption DEF StatesInv, Fits, Ordinary
    <2>3. Len(connState) # StateBuffer
        <3> SUFFICES ASSUME Len(connState) = StateBuffer
                     PROVE  FALSE
            OBVIOUS
        <3>1. None(connState)
            BY <1>1, <1>6
        <3> QED BY <2>2, <3>1, CountsAreNat, PeerAssumption
    <2>4. connState' = Append(connState, s) /\ Len(connState') = Len(connState) + 1
        BY <1>1, <1>2, <2>3
    <2>5. None(connState) /\ s \notin Terminal
        BY <1>2, <1>6, <2>4, NoneAppend
    <2>6. s \in {"connecting", "connected"}
        BY <1>5, <1>6, <2>5 DEF Terminal
    <2>7. Ordinary' = Ordinary
        <3>1. CASE s = "connecting"
            <4>1. Ordinary' = Ordinary + 1 + (-1) + 0
                BY <1>3, <2>0, <2>4, <3>1, OrdinaryChanges
            <4> QED BY <4>1, CountsAreNat
        <3>2. CASE s = "connected"
            <4>1. Ordinary' = Ordinary + 1 + 0 + (-1)
                BY <1>3, <2>0, <2>4, <3>2, OrdinaryChanges
            <4> QED BY <4>1, CountsAreNat
        <3> QED BY <2>6, <3>1, <3>2
    <2>8. Lost' = Lost /\ callbacks'["failed"] = callbacks["failed"]
        BY <1>3, <2>0, <2>6 DEF Lost
    <2> QED BY <1>2, <2>1, <2>5, <2>7, <2>8 DEF Fits
<1> QED BY <1>2, <1>4, <1>5, <1>6 DEF StatesInv

\* awaitDisconnect takes states up to the first terminal one.
LEMMA AwaitKeeps ==
    ASSUME StatesInv, ChannelTypeOK, AwaitDisconnect
    PROVE  StatesInv'
<1>1. /\ conn = "await" /\ UNCHANGED <<pcState, callbacks, closed>>
      /\ connState \in Seq(ConnState)
    BY DEF AwaitDisconnect, ChannelTypeOK, closeVars
<1>2. CASE conn' = "leave"
    BY <1>2 DEF StatesInv, Listening
<1>3. CASE conn' # "leave"
    <2>1. /\ connState # <<>> /\ connState' = Tail(connState) /\ conn' = "await"
          /\ Head(connState) \notin Terminal
        BY <1>3 DEF AwaitDisconnect
    <2>2. None(connState') <=> None(connState)
        BY <1>1, <2>1, NoneTail
    <2>3. Len(connState') \in Nat /\ Len(connState') = Len(connState) - 1
        BY <1>1, <2>1
    <2>0. /\ {"connecting", "connected", "disconnected", "failed"} \subseteq ConnState
          /\ callbacks["connecting"] \in Nat /\ callbacks["connected"] \in Nat
          /\ Len(connState) \in Nat /\ callbacks["failed"] \in Nat
        BY CountsAreNat
    <2>4. Ordinary' = Ordinary - 1 /\ Lost' = Lost
        <3>1. Ordinary' = Ordinary + (-1) + 0 + 0
            BY <1>1, <2>0, <2>3, OrdinaryChanges
        <3> QED BY <1>1, <3>1, CountsAreNat DEF Lost
    <2>5. Len(connState) > 0
        BY <2>0, <2>3
    <2>6. Ordinary > 0
        BY <2>0, <2>5 DEF Ordinary
    <2>7. Fits => Fits'
        BY <1>1, <2>4, <2>6, CountsAreNat DEF Fits
    <2> QED BY <1>1, <2>1, <2>2, <2>4, <2>7 DEF StatesInv, Listening
<1> QED BY <1>2, <1>3

\* A viewer's connection begins with nothing in its channels.
LEMMA StartKeeps ==
    ASSUME StatesInv, ChannelTypeOK, StartViewer
    PROVE  StatesInv'
<1>1. /\ conn = "new" /\ conn' # "new" /\ UNCHANGED <<pcState, callbacks, connState, closed>>
      /\ pcState = "new" /\ connState = <<>> /\ ~closed
      /\ \A s \in ConnState : callbacks[s] = 0
    BY DEF StartViewer, StatesInv, stateVars, closeVars
<1>2. Lost' = 0 /\ Ordinary' = 0
    BY <1>1, CountsAreNat DEF Lost, Ordinary
<1>3. Fits'
    BY <1>1, <1>2 DEF Fits
<1> QED BY <1>1, <1>2, <1>3, CountsAreNat, PeerAssumption DEF StatesInv

\* A connection that is lost is noticed by awaitDisconnect, in whatever order the
\* handlers of its states run, for any buffer that holds three states more than the
\* handlers of one state that may be late.
THEOREM LossesAreNoticed == PeerSpec => []DisconnectNoticed
<1>1. PeerInit => StatesInv
    BY DEF PeerInit, StatesInv, Listening
<1>2. StatesInv /\ ChannelTypeOK /\ [PeerNext]_peerVars => StatesInv'
    <2> SUFFICES ASSUME StatesInv, ChannelTypeOK, [PeerNext]_peerVars
                 PROVE  StatesInv'
        OBVIOUS
    <2>1. ASSUME UNCHANGED <<pcState, callbacks, connState, closed>>,
                 conn' = "new" => conn = "new",
                 conn' \in {"offering", "await"} => conn \in {"offering", "await"}
          PROVE  StatesInv'
        BY <2>1 DEF StatesInv, Listening, Fits, Lost, Ordinary
    <2>2. CASE UNCHANGED peerVars
        BY <2>1, <2>2 DEF peerVars, stateVars, closeVars
    <2>3. CASE StartViewer
        BY <2>3, StartKeeps
    <2>4. CASE CancelParent \/ PostOffer \/ Forget
        BY <2>1, <2>4 DEF CancelParent, PostOffer, Forget, stateVars, closeVars
    <2>5. CASE AwaitDisconnect
        BY <2>5, AwaitKeeps
    <2>6. CASE RemoveSink \/ ClosePC \/ MarkClosed
        <3>1. conn' \notin {"new", "offering", "await"}
            BY <2>6 DEF RemoveSink, ClosePC, MarkClosed
        <3> QED BY <3>1 DEF StatesInv, Listening
    <2>7. CASE OnConnectionState /\ ~closed
        BY <2>7, CallbackKeeps
    <2>8. CASE OnConnectionState /\ closed
        <3>1. conn' \notin {"new", "offering", "await"}
            BY <2>8 DEF OnConnectionState, StatesInv, Listening
        <3> QED BY <3>1 DEF StatesInv, Listening
    <2>9. CASE ForwarderEnds \/ Forward \/ WriteSample
        BY <2>1, <2>9 DEF ForwarderEnds, Forward, WriteSample, stateVars, closeVars
    <2>10. CASE \E s \in ConnState : ChangeState(s)
        BY <2>10, ChangeKeeps
    <2>11. CASE \E f \in Frame : OnInput(f)
        BY <2>1, <2>11 DEF OnInput, stateVars, closeVars
    <2>12. ASSUME NEW a \in Auth,
                  OnAuth(a) \/ Claims(a) \/ TakeCommand(a) \/ PassOn(a) \/ AuthorizeEnds(a)
           PROVE  StatesInv'
        BY <2>1, <2>12 DEF OnAuth, Claims, TakeCommand, PassOn, AuthorizeEnds,
            stateVars, closeVars
    <2> QED BY <2>2, <2>3, <2>4, <2>5, <2>6, <2>7, <2>8, <2>9, <2>10, <2>11, <2>12, PeerCases
<1>3. StatesInv => DisconnectNoticed
    <2> SUFFICES ASSUME StatesInv, Listening, pcState \in Terminal
                 PROVE  \E s \in Terminal :
                            callbacks[s] > 0 \/ \E i \in DOMAIN connState : connState[i] = s
        BY DEF DisconnectNoticed, Listening
    <2>1. ~None(connState) \/ \E s \in Terminal : callbacks[s] > 0
        BY DEF StatesInv, Fits, Lost, Terminal
    <2> QED BY <2>1 DEF None
<1> QED BY <1>1, <1>2, <1>3, ChannelTypes, PTL DEF PeerSpec
-----------------------------------------------------------------------------
(* PeerTypeOK. *)

FlagTypeOK ==
    /\ conn \in {"new", "offering", "await", "leave", "close", "mark", "channels", "forget",
                 "gone"}
    /\ cancelled \in BOOLEAN /\ sink \in BOOLEAN /\ routing \in BOOLEAN
    /\ closed \in BOOLEAN /\ chansClosed \in BOOLEAN /\ authorizing \in BOOLEAN
    /\ forwarder \in {"new", "on", "ended"}

\* The channels hold no more than they were made for.
WithinCaps == Len(connState) <= StateBuffer /\ Len(commands) <= CommandBuffer

LEMMA FlagTypes ==
    ASSUME FlagTypeOK, [PeerNext]_peerVars
    PROVE  FlagTypeOK'
<1> USE DEF FlagTypeOK, streamVars, closeVars, authVars
<1>1. CASE UNCHANGED peerVars
  BY <1>1 DEF peerVars
<1>2. CASE CancelParent \/ StartViewer \/ PostOffer
  BY <1>2 DEF CancelParent, StartViewer, PostOffer, AddSink
<1>3. CASE AwaitDisconnect
  <2>1. conn' \in {"leave", "await"}
    BY <1>3 DEF AwaitDisconnect
  <2> QED
    BY <1>3, <2>1 DEF AwaitDisconnect
<1>4. CASE RemoveSink \/ ClosePC \/ Forget
  BY <1>4 DEF RemoveSink, ClosePC, Forget
<1>5. CASE MarkClosed
  BY <1>5 DEF MarkClosed
<1>6. CASE OnConnectionState \/ ForwarderEnds \/ Forward \/ WriteSample
  BY <1>6 DEF OnConnectionState, ForwarderEnds, Forward, WriteSample
<1>7. CASE \E s \in ConnState : ChangeState(s)
  BY <1>7 DEF ChangeState
<1>8. CASE \E f \in Frame : OnInput(f)
  BY <1>8 DEF OnInput
<1>9. ASSUME NEW a \in Auth, OnAuth(a) \/ Claims(a) \/ AuthorizeEnds(a)
      PROVE  FlagTypeOK'
  <2>1. authorizing' \in {TRUE, FALSE, authorizing}
    BY <1>9 DEF OnAuth, Claims, AuthorizeEnds
  <2>2. authorizing' \in BOOLEAN
    BY <2>1
  <2>3. UNCHANGED <<conn, cancelled, sink, routing, closed, chansClosed, forwarder>>
    BY <1>9, Zenon DEF OnAuth, Claims, AuthorizeEnds
  <2> QED
    BY <2>2, <2>3
<1>10. ASSUME NEW a \in Auth, TakeCommand(a) \/ PassOn(a)
       PROVE  FlagTypeOK'
  BY <1>10 DEF TakeCommand, PassOn
<1> QED
  BY <1>1, <1>2, <1>3, <1>4, <1>5, <1>6, <1>7, <1>8, <1>9, <1>10, PeerCases

LEMMA AuthTypes ==
    ASSUME ChannelTypeOK, AuthTypeOK, [PeerNext]_peerVars
    PROVE  AuthTypeOK'
<1> USE DEF AuthTypeOK, authVars
<1>1. CASE UNCHANGED peerVars
  BY <1>1 DEF peerVars
<1>2. CASE \/ CancelParent \/ StartViewer \/ PostOffer \/ AwaitDisconnect
           \/ RemoveSink \/ ClosePC \/ MarkClosed \/ Forget
  BY <1>2 DEF CancelParent, StartViewer, PostOffer, AwaitDisconnect, RemoveSink, ClosePC,
     MarkClosed, Forget
<1>3. CASE OnConnectionState \/ ForwarderEnds \/ Forward \/ WriteSample
  BY <1>3 DEF OnConnectionState, ForwarderEnds, Forward, WriteSample
<1>4. CASE \E s \in ConnState : ChangeState(s)
  BY <1>4 DEF ChangeState
<1>5. CASE \E f \in Frame : OnInput(f)
  BY <1>5 DEF OnInput
<1>6. 0 \in 0..MaxSeq
  BY PeerAssumption
<1>7. ASSUME NEW a \in Auth, OnAuth(a) \/ Claims(a) PROVE AuthTypeOK'
  BY <1>7 DEF OnAuth, Claims
<1>8. ASSUME NEW a \in Auth, TakeCommand(a) PROVE AuthTypeOK'
  <2>1. Head(commands) \in Frame
    BY <1>8 DEF TakeCommand, ChannelTypeOK
  <2>2. Head(commands) \in 0..MaxSeq
    BY <2>1, PeerAssumption DEF Frame
  <2> QED
    BY <1>8, <2>2 DEF TakeCommand
<1>9. ASSUME NEW a \in Auth, PassOn(a) \/ AuthorizeEnds(a) PROVE AuthTypeOK'
  BY <1>6, <1>9 DEF PassOn, AuthorizeEnds
<1> QED
  BY <1>1, <1>2, <1>3, <1>4, <1>5, <1>7, <1>8, <1>9, PeerCases

LEMMA StaysWithinCaps ==
    ASSUME ChannelTypeOK, WithinCaps, [PeerNext]_peerVars
    PROVE  WithinCaps'
<1>0. /\ commands \in Seq(Frame) /\ connState \in Seq(ConnState)
      /\ Len(commands) \in Nat /\ Len(connState) \in Nat
      /\ CommandBuffer \in Nat \ {0} /\ StateBuffer \in Nat
      /\ Len(connState) <= StateBuffer /\ Len(commands) <= CommandBuffer
  BY PeerAssumption DEF ChannelTypeOK, WithinCaps
<1>1. CASE UNCHANGED <<commands, connState>>
  BY <1>0, <1>1 DEF WithinCaps
<1>2. CASE AwaitDisconnect
  <2>1. commands' = commands
    BY <1>2 DEF AwaitDisconnect, frameVars
  <2>2. connState' = connState \/ (connState # <<>> /\ connState' = Tail(connState))
    BY <1>2 DEF AwaitDisconnect
  <2>3. Len(connState') <= StateBuffer
    BY <1>0, <2>2
  <2> QED
    BY <1>0, <2>1, <2>3 DEF WithinCaps
<1>3. CASE RemoveSink
  <2>1. commands' = commands /\ connState' = <<>>
    BY <1>3 DEF RemoveSink, frameVars
  <2> QED
    BY <1>0, <2>1 DEF WithinCaps
<1>4. CASE OnConnectionState
  <2>1. commands' = commands
    BY <1>4 DEF OnConnectionState, frameVars
  <2>2. PICK s \in ConnState :
            \/ connState' = connState
            \/ Len(connState) # StateBuffer /\ connState' = Append(connState, s)
    BY <1>4 DEF OnConnectionState
  <2>4. Len(connState') <= StateBuffer
    BY <1>0, <2>2
  <2> QED
    BY <1>0, <2>1, <2>4 DEF WithinCaps
<1>5. ASSUME NEW f \in Frame, OnInput(f) PROVE WithinCaps'
  <2> DEFINE q == IF Len(commands) < CommandBuffer THEN commands ELSE Tail(commands)
  <2>1. connState' = connState /\ commands' = Append(q, f)
    BY <1>5 DEF OnInput, PushCommand, stateVars
  <2>2. q \in Seq(Frame) /\ Len(q) + 1 <= CommandBuffer
    <3>1. CASE Len(commands) < CommandBuffer
      BY <1>0, <3>1
    <3>2. CASE ~(Len(commands) < CommandBuffer)
      <4>1. Len(commands) = CommandBuffer /\ commands # <<>>
        BY <1>0, <3>2
      <4>2. Tail(commands) \in Seq(Frame) /\ Len(Tail(commands)) = Len(commands) - 1
        BY <1>0, <4>1
      <4> QED
        BY <1>0, <3>2, <4>1, <4>2
    <3> QED
      BY <3>1, <3>2
  <2> HIDE DEF q
  <2>3. Len(Append(q, f)) = Len(q) + 1
    BY <2>2
  <2> QED
    BY <1>0, <2>1, <2>2, <2>3 DEF WithinCaps
<1>6. ASSUME NEW a \in Auth, TakeCommand(a) PROVE WithinCaps'
  <2>1. connState' = connState /\ commands # <<>> /\ commands' = Tail(commands)
    BY <1>6 DEF TakeCommand, stateVars
  <2>2. Len(commands') <= CommandBuffer
    BY <1>0, <2>1
  <2> QED
    BY <1>0, <2>1, <2>2 DEF WithinCaps
<1>7. CASE UNCHANGED peerVars
  BY <1>1, <1>7 DEF peerVars, frameVars, stateVars
<1>8. CASE CancelParent \/ StartViewer \/ PostOffer \/ ClosePC \/ MarkClosed \/ Forget
  BY <1>1, <1>8 DEF CancelParent, StartViewer, PostOffer, ClosePC, MarkClosed, Forget,
     frameVars, stateVars
<1>9. CASE ForwarderEnds \/ Forward \/ WriteSample
  BY <1>1, <1>9 DEF ForwarderEnds, Forward, WriteSample, frameVars, stateVars
<1>10. CASE \E s \in ConnState : ChangeState(s)
  BY <1>1, <1>10 DEF ChangeState, frameVars
<1>11. ASSUME NEW a \in Auth, OnAuth(a) \/ Claims(a) \/ PassOn(a) \/ AuthorizeEnds(a)
       PROVE  WithinCaps'
  BY <1>1, <1>11 DEF OnAuth, Claims, PassOn, AuthorizeEnds, frameVars, stateVars
<1> QED
  BY <1>2, <1>3, <1>4, <1>5, <1>6, <1>7, <1>8, <1>9, <1>10, <1>11, PeerCases

\* The variables of the connection keep their types; in particular the channels of
\* commands and of states never hold more than they were made for.
THEOREM PeerTypes == PeerSpec => []PeerTypeOK
<1> DEFINE Parts == FlagTypeOK /\ AuthTypeOK /\ WithinCaps
<1>1. PeerInit => Parts
  <2> SUFFICES ASSUME PeerInit PROVE Parts
    OBVIOUS
  <2>1. FlagTypeOK
    BY DEF PeerInit, FlagTypeOK
  <2>2. 0 \in 0..MaxSeq /\ Len(connState) = 0 /\ Len(commands) = 0
    BY PeerAssumption DEF PeerInit
  <2>3. AuthTypeOK
    BY <2>2 DEF PeerInit, AuthTypeOK
  <2>4. WithinCaps
    BY <2>2, PeerAssumption DEF WithinCaps
  <2> QED
    BY <2>1, <2>3, <2>4
<1>2. ChannelTypeOK /\ Parts /\ [PeerNext]_peerVars => Parts'
  BY FlagTypes, AuthTypes, StaysWithinCaps
<1>3. ChannelTypeOK /\ Parts => PeerTypeOK
  BY DEF ChannelTypeOK, FlagTypeOK, AuthTypeOK, WithinCaps, PeerTypeOK
<1> HIDE DEF Parts
<1> QED
  BY <1>1, <1>2, <1>3, ChannelTypes, PTL DEF PeerSpec

=============================================================================
