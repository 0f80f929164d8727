---------------------------- MODULE MCHostParts ----------------------------
(***************************************************************************)
(* Small instances of the parts of the host that share no state, and of    *)
(* the REST server its heartbeat talks to: in every behaviour one of them  *)
(* runs and the others stay as they began, so their state spaces add up    *)
(* instead of multiplying.                                                 *)
(***************************************************************************)
EXTENDS VideoPath, ViewerConn, SunshineAgent, AdaptiveBitrate, AnnexB, OggDemux,
        CaptureDevice, MCTokenServer

CONSTANTS p1, p2

\* A stream for the parts that have none to split, and one for those without audio.
OneStream == <<Sps, Nal("idr", TRUE)>>
NoneFull == [s \in 1..Segments |-> FALSE]

VARIABLE part

hostVars == <<part, videoVars, peerVars, agentVars, abrVars, splitVars, oggVars,
              deviceVars, vars>>

HostInit ==
    /\ part \in {"video", "peer", "agent", "abr", "splitter", "audio", "device",
                "server"}
    /\ VideoInit /\ PeerInit /\ AgentInit /\ AbrInit /\ DeviceInit /\ Init
    /\ SplitInit /\ (part # "splitter" => nals = OneStream)
    /\ OggInit /\ (part # "audio" => full = NoneFull)

HostNext ==
    /\ UNCHANGED part
    /\ \/ /\ part = "video" /\ VideoNext
          /\ UNCHANGED <<peerVars, agentVars, abrVars, splitVars,
                         oggVars, deviceVars, vars>>
       \/ /\ part = "peer" /\ PeerNext
          /\ UNCHANGED <<videoVars, agentVars, abrVars, splitVars,
                         oggVars, deviceVars, vars>>
       \/ /\ part = "agent" /\ AgentNext
          /\ UNCHANGED <<videoVars, peerVars, abrVars, splitVars,
                         oggVars, deviceVars, vars>>
       \/ /\ part = "abr" /\ AbrNext
          /\ UNCHANGED <<videoVars, peerVars, agentVars, splitVars,
                         oggVars, deviceVars, vars>>
       \/ /\ part = "splitter" /\ SplitNext
          /\ UNCHANGED <<videoVars, peerVars, agentVars, abrVars,
                         oggVars, deviceVars, vars>>
       \/ /\ part = "audio" /\ OggNext
          /\ UNCHANGED <<videoVars, peerVars, agentVars, abrVars,
                         splitVars, deviceVars, vars>>
       \/ /\ part = "device" /\ DeviceNext
          /\ UNCHANGED <<videoVars, peerVars, agentVars, abrVars,
                         splitVars, oggVars, vars>>
       \/ /\ part = "server" /\ Next
          /\ UNCHANGED <<videoVars, peerVars, agentVars, abrVars,
                         splitVars, oggVars, deviceVars>>

\* No fairness is about a step the initial state allows: the parts that do not run
\* satisfy theirs.
HostSpec == HostInit /\ [][HostNext]_hostVars /\ VideoFairness /\ PeerFairness

\* Two handlers of connection states wait at a time, so that one may overtake the
\* other, and connState fills up, only while no input is on its way.
TwoLate ==
    LET late == Cardinality({s \in ConnState : callbacks[s] > 0})
    IN  \/ lastInputSeq = 0 /\ ~authorizing /\ late <= 2
        \/ late <= 1 /\ Len(connState) <= 2

\* What is explored of the connection and of the server.
FewLate == TwoLate /\ OneKind

\* Type correctness of every part of the host (that of the server is TypeOK).
HostTypeOK ==
    /\ VideoTypeOK /\ PeerTypeOK /\ AgentTypeOK /\ AbrTypeOK
    /\ SplitTypeOK /\ OggTypeOK /\ DeviceTypeOK
=============================================================================
