-------------------------- MODULE HostPartsProofs --------------------------
(***************************************************************************)
(* Proofs about parts of the host that share no state, as they are checked *)
(* together in MCHostParts: the video path and the ring of mapped buffers  *)
(* with channels and rings of any size, the bitrate controller for every   *)
(* configuration normalise can return, and the Sunshine agent; and about   *)
(* MCHostParts itself, with the viewer's connection and the demultiplexers *)
(* whose proofs are in modules of their own.                               *)
(***************************************************************************)
EXTENDS MCHostParts, ViewerConnProofs, DemuxProofs, FiniteSetTheorems, TLAPS

-----------------------------------------------------------------------------
(* Channels: how many elements of a kind they hold. *)

Places(q, K) == {i \in 1..Len(q) : q[i] \in K}
Count(q, K) == Cardinality(Places(q, K))

LEMMA CountType ==
    ASSUME NEW S, NEW q \in Seq(S), NEW K
    PROVE  IsFiniteSet(Places(q, K)) /\ Count(q, K) \in Nat
<1>1. Len(q) \in Nat
  OBVIOUS
<1>2. IsFiniteSet(1..Len(q)) /\ Places(q, K) \subseteq 1..Len(q)
  BY <1>1, FS_Interval DEF Places
<1> QED
  BY <1>2, FS_Subset, FS_CardinalityType DEF Count

LEMMA CountAppend ==
    ASSUME NEW S, NEW q \in Seq(S), NEW x \in S, NEW K
    PROVE  /\ x \in K => Count(Append(q, x), K) = Count(q, K) + 1
           /\ x \notin K => Count(Append(q, x), K) = Count(q, K)
<1>1. /\ Len(q) \in Nat /\ Len(Append(q, x)) = Len(q) + 1 /\ Append(q, x)[Len(q) + 1] = x
      /\ \A i \in 1..Len(q) : Append(q, x)[i] = q[i]
  OBVIOUS
<1>2. IsFiniteSet(Places(q, K)) /\ Count(q, K) \in Nat
  BY CountType
<1>3. CASE x \in K
  <2>1. Places(Append(q, x), K) = Places(q, K) \cup {Len(q) + 1}
    BY <1>1, <1>3 DEF Places
  <2>2. Len(q) + 1 \notin Places(q, K)
    BY <1>1 DEF Places
  <2> QED
    BY <1>2, <1>3, <2>1, <2>2, FS_AddElement DEF Count
<1>4. CASE x \notin K
  <2>1. Places(Append(q, x), K) = Places(q, K)
    BY <1>1, <1>4 DEF Places
  <2> QED
    BY <1>4, <2>1 DEF Count
<1> QED
  BY <1>3, <1>4

LEMMA CountTail ==
    ASSUME NEW S, NEW q \in Seq(S), q # <<>>, NEW K
    PROVE  /\ Head(q) \in K => Count(q, K) = Count(Tail(q), K) + 1
           /\ Head(q) \notin K => Count(q, K) = Count(Tail(q), K)
<1>1. /\ Len(q) \in Nat \ {0} /\ Head(q) = q[1] /\ Tail(q) \in Seq(S) /\ Len(Tail(q)) = Len(q) - 1
      /\ \A i \in 1..Len(Tail(q)) : Tail(q)[i] = q[i + 1]
  OBVIOUS
<1>2. /\ IsFiniteSet(Places(q, K)) /\ Count(q, K) \in Nat
      /\ IsFiniteSet(Places(Tail(q), K)) /\ Count(Tail(q), K) \in Nat
  BY <1>1, CountType
\* The other elements move one place forward.
<1>3. Cardinality(Places(q, K) \ {1}) = Count(Tail(q), K)
  <2> DEFINE A == Places(Tail(q), K)
             B == Places(q, K) \ {1}
             f == [i \in A |-> i + 1]
  <2>1. \A i \in A : i \in Int /\ i + 1 \in B
    BY <1>1 DEF Places
  <2>2. \A j \in B : j - 1 \in A /\ (j - 1) + 1 = j
    BY <1>1 DEF Places
  <2> HIDE DEF A, B
  <2>3. f \in [A -> B] /\ \A i, j \in A : f[i] = f[j] => i = j
    BY <2>1
  <2>4. \A j \in B : \E i \in A : f[i] = j
    BY <2>2
  <2> HIDE DEF f
  <2>5. f \in Bijection(A, B)
    <3>1. f \in Injection(A, B)
      BY <2>3 DEF Injection, IsInjective
    <3>2. f \in Surjection(A, B)
      BY <2>3, <2>4 DEF Surjection
    <3> QED
      BY <3>1, <3>2 DEF Bijection
  <2> QED
    BY <1>2, <2>5, FS_Bijection DEF ExistsBijection, Count, A, B
<1>4. Cardinality(Places(q, K) \ {1}) = IF 1 \in Places(q, K) THEN Count(q, K) - 1 ELSE Count(q, K)
  BY <1>2, FS_RemoveElement DEF Count
<1>5. 1 \in Places(q, K) <=> Head(q) \in K
  BY <1>1 DEF Places
<1> QED
  BY <1>2, <1>3, <1>4, <1>5

-----------------------------------------------------------------------------
(* VideoPath. *)

\* The steps of the next-state relation one by one, as the proofs below go through them.
LEMMA VideoCases ==
    ASSUME VideoNext
    PROVE  \/ StopHost \/ StartCapture \/ CaptureFrame \/ CaptureEnd
           \/ TapRecv \/ TapEnd
           \/ SetBitrate \/ ForceKeyframe \/ RequestRestart
           \/ BuildArgs \/ StartFFmpeg \/ StartFails \/ TornDown
           \/ \E case \in {"stop", "restart", "exit"} : Supervise(case)
           \/ \E cause \in {"killed", "eof", "failed"} : FFmpegExits(cause)
           \/ FeedFrame \/ FeedEnd \/ WriterTake \/ WriterFails \/ WriterEnd
           \/ \E pkt \in Packet : EncodeFrame(pkt) \/ ReaderFlush(pkt)
           \/ ReaderEnd \/ WrapForward \/ WrapStop \/ WrapEnd
BY DEF VideoNext, TapStep, EncoderStep, FeedStep, WriterStep, ReaderStep, WrapStep

-----------------------------------------------------------------------------
(* OneSubprocess: the process and its goroutines are up only while the     *)
(* encoder is in its select or tears them down, and nothing but            *)
(* StartFFmpeg brings one of them up.                                      *)

Quiet == ff = "off" /\ feed = "off" /\ writer = "off" /\ packetReader = "off"

Between2Runs == enc \in {"launch", "start", "ended"} => Quiet

\* A quiet process and its goroutines stay so in every step but StartFFmpeg.
LEMMA QuietStays ==
    ASSUME Quiet, VideoNext, ~StartFFmpeg
    PROVE  Quiet'
<1>1. CASE StopHost \/ StartCapture \/ CaptureFrame \/ CaptureEnd \/ TapRecv \/ TapEnd
    BY <1>1 DEF Quiet, StopHost, StartCapture, CaptureFrame, CaptureEnd, TapRecv, TapEnd,
        procVars, feedVars
<1>2. CASE SetBitrate \/ ForceKeyframe \/ RequestRestart
    BY <1>2 DEF Quiet, SetBitrate, ForceKeyframe, RequestRestart, procVars, feedVars
<1>3. CASE BuildArgs \/ StartFails \/ TornDown
    BY <1>3 DEF Quiet, BuildArgs, StartFails, TornDown, feedVars
<1>4. CASE \E case \in {"stop", "restart", "exit"} : Supervise(case)
    BY <1>4 DEF Quiet, Supervise, feedVars
<1>5. CASE \E cause \in {"killed", "eof", "failed"} : FFmpegExits(cause)
    BY <1>5 DEF Quiet, FFmpegExits
<1>6. CASE FeedFrame \/ FeedEnd \/ WriterTake \/ WriterFails \/ WriterEnd
    BY <1>6 DEF Quiet, FeedFrame, FeedEnd, WriterTake, WriterFails, WriterEnd
<1>7. CASE (\E pkt \in Packet : EncodeFrame(pkt) \/ ReaderFlush(pkt)) \/ ReaderEnd
    BY <1>7 DEF Quiet, EncodeFrame, ReaderFlush, ReaderEnd
<1>8. CASE WrapForward \/ WrapStop \/ WrapEnd
    BY <1>8 DEF Quiet, WrapForward, WrapStop, WrapEnd, procVars, feedVars
<1> QED BY <1>1, <1>2, <1>3, <1>4, <1>5, <1>6, <1>7, <1>8, VideoCases

\* The encoder gets between two runs from there, or by tearing a run down.
LEMMA EncoderMoves ==
    ASSUME VideoNext, enc' \in {"launch", "start", "ended"}
    PROVE  enc \in {"launch", "start", "ended"} \/ TornDown
<1>1. CASE StopHost \/ StartCapture \/ CaptureFrame \/ CaptureEnd \/ TapRecv \/ TapEnd
    BY <1>1 DEF StopHost, StartCapture, CaptureFrame, CaptureEnd, TapRecv, TapEnd, procVars
<1>2. CASE SetBitrate \/ ForceKeyframe \/ RequestRestart
    BY <1>2 DEF SetBitrate, ForceKeyframe, RequestRestart, procVars
<1>3. CASE BuildArgs \/ StartFFmpeg \/ StartFails \/ TornDown
    BY <1>3 DEF BuildArgs, StartFFmpeg, StartFails
<1>4. CASE \E case \in {"stop", "restart", "exit"} : Supervise(case)
    BY <1>4 DEF Supervise
<1>5. CASE \E cause \in {"killed", "eof", "failed"} : FFmpegExits(cause)
    BY <1>5 DEF FFmpegExits
<1>6. CASE FeedFrame \/ FeedEnd \/ WriterTake \/ WriterFails \/ WriterEnd
    BY <1>6 DEF FeedFrame, FeedEnd, WriterTake, WriterFails, WriterEnd, procVars
<1>7. CASE (\E pkt \in Packet : EncodeFrame(pkt) \/ ReaderFlush(pkt)) \/ ReaderEnd
    BY <1>7 DEF EncodeFrame, ReaderFlush, ReaderEnd, procVars
<1>8. CASE WrapForward \/ WrapStop \/ WrapEnd
    BY <1>8 DEF WrapForward, WrapStop, WrapEnd, procVars
<1> QED BY <1>1, <1>2, <1>3, <1>4, <1>5, <1>6, <1>7, <1>8, VideoCases

\* Encoder.Run never has two ffmpegs or a goroutine of an earlier one: neither a
\* restart nor its return overlaps with what runSubprocess started.
THEOREM EncoderExclusive == VideoSpec => []OneSubprocess
<1>1. VideoInit => Between2Runs
    BY DEF VideoInit, Between2Runs, Quiet
<1>2. Between2Runs /\ [VideoNext]_videoVars => Between2Runs'
    <2> SUFFICES ASSUME Between2Runs, [VideoNext]_videoVars,
                        enc' \in {"launch", "start", "ended"}
                 PROVE  Quiet'
        BY DEF Between2Runs
    <2>1. CASE UNCHANGED videoVars
        BY <2>1 DEF Between2Runs, Quiet, videoVars, procVars, feedVars
    <2>2. CASE TornDown
        BY <2>2 DEF TornDown, Helpers, Quiet, feedVars
    <2>3. CASE VideoNext /\ ~TornDown
        <3>1. Quiet
            BY <2>3, EncoderMoves DEF Between2Runs
        <3>2. ~StartFFmpeg
            BY DEF StartFFmpeg
        <3> QED BY <2>3, <3>1, <3>2, QuietStays
    <2> QED BY <2>1, <2>2, <2>3
<1>3. Between2Runs => OneSubprocess
    BY DEF Between2Runs, Quiet, OneSubprocess, Helpers
<1> QED BY <1>1, <1>2, <1>3, PTL DEF VideoSpec

-----------------------------------------------------------------------------
(* RequestApplied is inductive: a request sets asked and caller together,  *)
(* and the token outlives the launch it was too late for.                  *)

\* No request for another ffmpeg is lost, however it falls between the arguments, the
\* launch and the select of runSubprocess.
THEOREM RequestsAreApplied == VideoSpec => []RequestApplied
<1>1. VideoInit => RequestApplied
    BY DEF VideoInit, RequestApplied
<1>2. RequestApplied /\ [VideoNext]_videoVars => RequestApplied'
    <2> SUFFICES ASSUME RequestApplied, [VideoNext]_videoVars
                 PROVE  RequestApplied'
        OBVIOUS
    <2> USE DEF RequestApplied
    <2>1. CASE UNCHANGED videoVars
        BY <2>1 DEF videoVars, procVars, rateVars
    <2>2. CASE StopHost \/ StartCapture \/ CaptureFrame \/ CaptureEnd \/ TapRecv \/ TapEnd
        BY <2>2 DEF StopHost, StartCapture, CaptureFrame, CaptureEnd, TapRecv, TapEnd,
            procVars, rateVars
    <2>3. CASE SetBitrate \/ ForceKeyframe \/ RequestRestart
        BY <2>3 DEF SetBitrate, ForceKeyframe, RequestRestart
    <2>4. CASE BuildArgs \/ StartFFmpeg \/ StartFails \/ TornDown
        BY <2>4 DEF BuildArgs, StartFFmpeg, StartFails, TornDown, rateVars
    <2>5. CASE \E case \in {"stop", "restart", "exit"} : Supervise(case)
        BY <2>5 DEF Supervise
    <2>6. CASE \E cause \in {"killed", "eof", "failed"} : FFmpegExits(cause)
        BY <2>6 DEF FFmpegExits, rateVars
    <2>7. CASE FeedFrame \/ FeedEnd \/ WriterTake \/ WriterFails \/ WriterEnd
        BY <2>7 DEF FeedFrame, FeedEnd, WriterTake, WriterFails, WriterEnd, procVars, rateVars
    <2>8. CASE (\E pkt \in Packet : EncodeFrame(pkt) \/ ReaderFlush(pkt)) \/ ReaderEnd
        BY <2>8 DEF EncodeFrame, ReaderFlush, ReaderEnd, procVars, rateVars
    <2>9. CASE WrapForward \/ WrapStop \/ WrapEnd
        BY <2>9 DEF WrapForward, WrapStop, WrapEnd, procVars, rateVars
    <2> QED BY <2>1, <2>2, <2>3, <2>4, <2>5, <2>6, <2>7, <2>8, <2>9, VideoCases
<1> QED BY <1>1, <1>2, PTL DEF VideoSpec

-----------------------------------------------------------------------------
(* Types, with the bounds of the channels. *)

LEMMA EmitTypes ==
    ASSUME VideoTypeOK, NEW pkt \in Packet, EmitPacket(pkt)
    PROVE  packets' \in Seq(Packet) /\ Len(packets') <= PacketCap
<1>1. packets \in Seq(Packet) /\ Len(packets) \in Nat /\ Len(packets) <= PacketCap /\ PacketCap \in Nat
  BY VideoAssumption DEF VideoTypeOK
<1>2. ASSUME NEW q \in Seq(Packet), NEW x \in Packet
      PROVE  Append(q, x) \in Seq(Packet) /\ Len(Append(q, x)) = Len(q) + 1
  OBVIOUS
<1>3. CASE Len(packets) < PacketCap /\ packets' = Append(packets, pkt)
  BY <1>1, <1>2, <1>3
<1>4. CASE MakeRoom(pkt)
  <2>1. CASE packets = <<>>
    BY <1>1, <1>4, <2>1 DEF MakeRoom
  <2>2. CASE packets # <<>>
    <3>1. Tail(packets) \in Seq(Packet) /\ Len(Tail(packets)) = Len(packets) - 1
      BY <1>1, <2>2
    <3>2. packets' = Tail(packets) \/ \E x \in Packet : packets' = Append(Tail(packets), x)
      BY <1>4, <2>2 DEF MakeRoom, Packet
    <3> QED
      BY <1>1, <1>2, <3>1, <3>2
  <2> QED
    BY <2>1, <2>2
<1> QED
  BY <1>3, <1>4 DEF EmitPacket

LEMMA DropOldestBounds ==
    ASSUME NEW n \in 0..FrameCap
    PROVE  DropOldest(n) \in 0..FrameCap
  BY VideoAssumption DEF DropOldest

LEMMA VideoTypeStep == VideoTypeOK /\ [VideoNext]_videoVars => VideoTypeOK'
<1> SUFFICES ASSUME VideoTypeOK, [VideoNext]_videoVars PROVE VideoTypeOK'
  OBVIOUS
<1>1. CASE UNCHANGED videoVars
  BY <1>1 DEF VideoTypeOK, videoVars, sourceVars, procVars, feedVars, rateVars
<1>2. CASE StopHost \/ StartCapture \/ CaptureEnd \/ TapEnd
  BY <1>2 DEF VideoTypeOK, StopHost, StartCapture, CaptureEnd, TapEnd, sourceVars, procVars, feedVars, rateVars
<1>3. CASE CaptureFrame
  <2>1. frames' \in 0..FrameCap
    BY <1>3, DropOldestBounds DEF CaptureFrame, VideoTypeOK
  <2> QED
    BY <1>3, <2>1 DEF VideoTypeOK, CaptureFrame, procVars, feedVars, rateVars
<1>4. CASE TapRecv
  <2>1. frames' \in 0..FrameCap
    BY <1>4, VideoAssumption DEF TapRecv, VideoTypeOK
  <2> QED
    BY <1>4, <2>1 DEF VideoTypeOK, TapRecv, procVars, feedVars, rateVars
<1>5. CASE SetBitrate \/ ForceKeyframe \/ RequestRestart
  BY <1>5 DEF VideoTypeOK, SetBitrate, ForceKeyframe, RequestRestart, sourceVars, procVars, feedVars
<1>6. CASE BuildArgs \/ StartFails \/ TornDown
  <2>1. enc' \in {"launch", "start", "ended"} /\ asked' \in BOOLEAN
    BY <1>6 DEF VideoTypeOK, BuildArgs, StartFails, TornDown, rateVars
  <2>2. UNCHANGED <<ff, stopping, sourceVars, feedVars, packetReader, packets, caller, restart, wrap>>
    BY <1>6 DEF BuildArgs, StartFails, TornDown, rateVars
  <2> QED
    BY <2>1, <2>2 DEF VideoTypeOK, sourceVars, feedVars
<1>7. CASE StartFFmpeg
  <2>1. frameQueue' \in 0..FrameCap
    BY <1>7, VideoAssumption DEF StartFFmpeg
  <2> QED
    BY <1>7, <2>1 DEF VideoTypeOK, StartFFmpeg, sourceVars, rateVars
<1>8. CASE \E case \in {"stop", "restart", "exit"} : Supervise(case)
  <2>1. enc' \in {"restarting", "ending"} /\ restart' \in BOOLEAN
    BY <1>8 DEF VideoTypeOK, Supervise
  <2>2. UNCHANGED <<ff, stopping, sourceVars, feedVars, packetReader, packets, asked, caller, wrap>>
    BY <1>8 DEF Supervise
  <2> QED
    BY <2>1, <2>2 DEF VideoTypeOK, sourceVars, feedVars
<1>9. CASE \E cause \in {"killed", "eof", "failed"} : FFmpegExits(cause)
  BY <1>9 DEF VideoTypeOK, FFmpegExits, sourceVars, feedVars, rateVars
<1>10. CASE FeedFrame \/ FeedEnd \/ WriterTake \/ WriterFails \/ WriterEnd
  <2>1. frameQueue' \in 0..FrameCap
    <3>1. frameQueue \in 0..FrameCap /\ FrameCap \in Nat
      BY VideoAssumption DEF VideoTypeOK
    <3>2. CASE FeedFrame
      BY <3>1, <3>2, DropOldestBounds DEF FeedFrame
    <3>3. CASE FeedEnd \/ WriterFails \/ WriterEnd
      BY <3>1, <3>3 DEF FeedEnd, WriterFails, WriterEnd
    <3>4. CASE WriterTake
      BY <3>1, <3>4 DEF WriterTake
    <3> QED
      BY <1>10, <3>2, <3>3, <3>4
  <2>2. /\ feed' \in {"on", "closing", "off"} /\ writer' \in {"on", "write", "off"}
        /\ tap' \in {"recv", "send", "ended"}
    BY <1>10 DEF VideoTypeOK, FeedFrame, FeedEnd, WriterTake, WriterFails, WriterEnd, sourceVars
  <2>3. UNCHANGED <<stopping, capture, frames, procVars, packetReader, packets, rateVars, wrap>>
    BY <1>10 DEF FeedFrame, FeedEnd, WriterTake, WriterFails, WriterEnd, sourceVars
  <2> QED
    BY <2>1, <2>2, <2>3 DEF VideoTypeOK, procVars, rateVars
<1>11. ASSUME NEW pkt \in Packet, EncodeFrame(pkt) \/ ReaderFlush(pkt) PROVE VideoTypeOK'
  <2>1. packets' \in Seq(Packet) /\ Len(packets') <= PacketCap
    BY <1>11, EmitTypes DEF EncodeFrame, ReaderFlush
  <2> QED
    BY <1>11, <2>1 DEF VideoTypeOK, EncodeFrame, ReaderFlush, sourceVars, procVars, feedVars, rateVars
<1>12. CASE ReaderEnd \/ WrapEnd
  BY <1>12 DEF VideoTypeOK, ReaderEnd, WrapEnd, sourceVars, procVars, feedVars, rateVars
<1>13. CASE WrapForward \/ WrapStop
  <2>1. packets' \in Seq(Packet) /\ Len(packets') <= PacketCap
    <3>1. packets \in Seq(Packet) /\ Len(packets) <= PacketCap /\ PacketCap \in Nat
      BY VideoAssumption DEF VideoTypeOK
    <3>2. CASE WrapForward
      BY <3>1, <3>2 DEF WrapForward
    <3>3. CASE WrapStop
      <4>1. packets' = packets \/ packets' = <<>>
        BY <3>3 DEF WrapStop
      <4>2. <<>> \in Seq(Packet) /\ Len(<<>>) = 0
        OBVIOUS
      <4>3. CASE packets' = packets
        BY <3>1, <4>3
      <4>4. CASE packets' = <<>>
        BY <3>1, <4>2, <4>4
      <4> QED
        BY <4>1, <4>3, <4>4
    <3> QED
      BY <1>13, <3>2, <3>3
  <2> QED
    BY <1>13, <2>1 DEF VideoTypeOK, WrapForward, WrapStop, sourceVars, procVars, feedVars, rateVars
<1> QED
  BY <1>1, <1>2, <1>3, <1>4, <1>5, <1>6, <1>7, <1>8, <1>9, <1>10, <1>11, <1>12, <1>13, VideoCases

\* The channels of frames and of packets never hold more than they were made for,
\* whatever drops, restarts and put-backs happen (forward, writeFrames, emitPacket).
THEOREM VideoTypes == VideoSpec => []VideoTypeOK
<1>1. VideoInit => VideoTypeOK
  <2> SUFFICES ASSUME VideoInit PROVE VideoTypeOK
    OBVIOUS
  <2>1. packets \in Seq(Packet) /\ Len(packets) <= PacketCap
    BY VideoAssumption DEF VideoInit
  <2>2. {frames, frameQueue} \subseteq 0..FrameCap
    BY VideoAssumption DEF VideoInit
  <2> QED
    BY <2>1, <2>2 DEF VideoInit, VideoTypeOK
<1> QED
  BY <1>1, VideoTypeStep, PTL DEF VideoSpec

-----------------------------------------------------------------------------
(* Keyframes in the encoder's channel. *)

LEMMA KeyframesCounted ==
    ASSUME NEW q \in Seq(Packet)
    PROVE  Keyframes(q) = Count(q, {Key}) /\ Keyframes(q) \in Nat
<1>1. {i \in DOMAIN q : q[i] = Key} = Places(q, {Key})
  BY DEF Places
<1>2. Keyframes(q) = Count(q, {Key})
  BY <1>1 DEF Keyframes, Count
<1> QED
  BY <1>2, CountType

LEMMA KeyframesAppend ==
    ASSUME NEW q \in Seq(Packet), NEW x \in Packet
    PROVE  /\ x = Key => Keyframes(Append(q, x)) = Keyframes(q) + 1
           /\ Keyframes(q) <= Keyframes(Append(q, x)) /\ Keyframes(Append(q, x)) \in Nat
<1>1. Append(q, x) \in Seq(Packet)
  OBVIOUS
<1>2. /\ Keyframes(q) = Count(q, {Key}) /\ Keyframes(q) \in Nat
      /\ Keyframes(Append(q, x)) = Count(Append(q, x), {Key})
  BY <1>1, KeyframesCounted
<1>3. CASE x \in {Key}
  <2>1. Count(Append(q, x), {Key}) = Count(q, {Key}) + 1
    BY <1>3, CountAppend
  <2> QED
    BY <1>2, <2>1
<1>4. CASE x \notin {Key}
  <2>1. Count(Append(q, x), {Key}) = Count(q, {Key})
    BY <1>4, CountAppend
  <2> QED
    BY <1>2, <1>4, <2>1
<1> QED
  BY <1>3, <1>4

LEMMA KeyframesTail ==
    ASSUME NEW q \in Seq(Packet), q # <<>>
    PROVE  /\ Head(q) = Key => Keyframes(q) = Keyframes(Tail(q)) + 1
           /\ Head(q) # Key => Keyframes(q) = Keyframes(Tail(q))
<1>1. Tail(q) \in Seq(Packet)
  OBVIOUS
<1>2. Keyframes(q) = Count(q, {Key}) /\ Keyframes(Tail(q)) = Count(Tail(q), {Key})
  BY <1>1, KeyframesCounted
<1>3. /\ Head(q) \in {Key} => Count(q, {Key}) = Count(Tail(q), {Key}) + 1
      /\ Head(q) \notin {Key} => Count(q, {Key}) = Count(Tail(q), {Key})
  BY CountTail
<1> QED
  BY <1>2, <1>3

\* emitPacket never makes room at the cost of a keyframe.
LEMMA EmitKeepsKeyframes ==
    ASSUME VideoTypeOK, NEW pkt \in Packet, EmitPacket(pkt)
    PROVE  ~(Keyframes(packets') < Keyframes(packets))
<1>1. packets \in Seq(Packet)
  BY DEF VideoTypeOK
<1>2. Keyframes(packets) \in Nat
  BY <1>1, KeyframesCounted
<1>3. CASE packets' = Append(packets, pkt)
  <2>1. Keyframes(packets) <= Keyframes(Append(packets, pkt)) /\ Keyframes(Append(packets, pkt)) \in Nat
    BY <1>1, KeyframesAppend
  <2> QED
    BY <1>2, <1>3, <2>1
<1>4. CASE packets' = packets
  BY <1>2, <1>4
<1>5. CASE packets # <<>> /\ MakeRoom(pkt)
  <2>1. PICK t \in Seq(Packet) : t = Tail(packets)
    <3>1. ASSUME NEW q \in Seq(Packet), q # <<>> PROVE Tail(q) \in Seq(Packet)
      BY <3>1
    <3> QED
      BY <1>1, <1>5, <3>1
  <2>2. Keyframes(t) \in Nat
    BY KeyframesCounted
  <2>3. CASE Head(packets) = Key
    <3>1. packets' = Append(t, Key) /\ Key \in Packet
      BY <1>5, <2>1, <2>3 DEF MakeRoom, Packet
    <3>2. Keyframes(packets) = Keyframes(t) + 1
      BY <1>1, <1>5, <2>1, <2>3, KeyframesTail
    <3>3. Keyframes(Append(t, Key)) = Keyframes(t) + 1
      BY <3>1, KeyframesAppend
    <3> QED
      BY <2>2, <3>1, <3>2, <3>3
  <2>4. CASE Head(packets) # Key
    <3>1. packets' = Append(t, pkt) \/ packets' = t
      BY <1>5, <2>1, <2>4 DEF MakeRoom
    <3>2. Keyframes(packets) = Keyframes(t)
      BY <1>1, <1>5, <2>1, <2>4, KeyframesTail
    <3>3. Keyframes(t) <= Keyframes(Append(t, pkt)) /\ Keyframes(Append(t, pkt)) \in Nat
      BY KeyframesAppend
    <3>4. CASE packets' = Append(t, pkt)
      BY <2>2, <3>2, <3>3, <3>4
    <3>5. CASE packets' = t
      BY <2>2, <3>2, <3>5
    <3> QED
      BY <3>1, <3>4, <3>5
  <2> QED
    BY <2>3, <2>4
<1> QED
  BY <1>3, <1>4, <1>5 DEF EmitPacket, MakeRoom

\* A keyframe leaves the encoder's channel for the wrapper only, until the host stops
\* (emitPacket puts one back behind the others and drops the new packet instead).
THEOREM KeyframesKept == VideoSpec => QueuedKeyframeKept
<1>1. VideoTypeOK /\ [VideoNext]_videoVars =>
        [Keyframes(packets') < Keyframes(packets) => stopping \/ WrapForward]_videoVars
  <2> SUFFICES ASSUME VideoTypeOK, VideoNext, Keyframes(packets') < Keyframes(packets), ~stopping
               PROVE  WrapForward
    OBVIOUS
  <2>1. packets' # packets
    <3>1. packets \in Seq(Packet)
      BY DEF VideoTypeOK
    <3>2. Keyframes(packets) \in Nat
      BY <3>1, KeyframesCounted
    <3> QED
      BY <3>2
  <2>2. \A pkt \in Packet : ~EncodeFrame(pkt) /\ ~ReaderFlush(pkt)
    BY EmitKeepsKeyframes DEF EncodeFrame, ReaderFlush
  <2>3. ~(StopHost \/ StartCapture \/ CaptureFrame \/ CaptureEnd \/ TapRecv \/ TapEnd
          \/ SetBitrate \/ ForceKeyframe \/ RequestRestart
          \/ BuildArgs \/ StartFFmpeg \/ StartFails \/ TornDown)
    BY <2>1 DEF StopHost, StartCapture, CaptureFrame, CaptureEnd, TapRecv, TapEnd, SetBitrate,
        ForceKeyframe, RequestRestart, BuildArgs, StartFFmpeg, StartFails, TornDown
  <2>4. ~(FeedFrame \/ FeedEnd \/ WriterTake \/ WriterFails \/ WriterEnd \/ ReaderEnd \/ WrapEnd \/ WrapStop)
    BY <2>1 DEF FeedFrame, FeedEnd, WriterTake, WriterFails, WriterEnd, ReaderEnd, WrapEnd, WrapStop
  <2>5. /\ \A case \in {"stop", "restart", "exit"} : ~Supervise(case)
        /\ \A cause \in {"killed", "eof", "failed"} : ~FFmpegExits(cause)
    BY <2>1 DEF Supervise, FFmpegExits
  <2> QED
    BY <2>2, <2>3, <2>4, <2>5, VideoCases
<1> QED
  BY <1>1, VideoTypes, PTL DEF VideoSpec, QueuedKeyframeKept

-----------------------------------------------------------------------------
(* CaptureDevice. *)

Starting == source \in {"new", "format", "buffers"}
Streaming == source \in {"run", "copy"}

\* What the goroutines hold, and when.
HoldersInv ==
    /\ Starting => dq = "off"
    /\ dq = "offer" <=> offered # 0
    /\ source = "copy" <=> copying # 0

\* What has been acquired: nothing, the first buffers one after the other, all.
AcquiredInv ==
    /\ source = "new" => ~fd
    /\ source \in {"new", "format"} => mapped = {} /\ atDriver = {}
    /\ source = "buffers" =>
        mapped \subseteq 1..granted /\ \E k \in 0..granted : atDriver = 1..k
    /\ Streaming => mapped = 1..granted

DeviceInv == DeviceTypeOK /\ HoldersInv /\ AcquiredInv /\ BuffersAccounted

\* The interval InitBuffer has queued so far.
LEMMA QueuedSoFar ==
    ASSUME NEW k \in Nat
    PROVE  Cardinality(1..k) = k
BY FS_Interval

\* Whatever was acquired is given back when Start fails.
LEMMA FailedIsClean ==
    ASSUME DeviceInv, StartFailed, Starting, UNCHANGED <<dq, offered, copying>>
    PROVE  DeviceInv'
<1>1. /\ source' = "over" /\ fd' = FALSE /\ mapped' = {} /\ atDriver' = {}
      /\ granted' = granted /\ copying' = copying /\ offered' = offered /\ dq' = dq
    BY DEF StartFailed, CloseDevice
<1>2. copying = 0
    BY DEF DeviceInv, HoldersInv, Starting
<1> QED BY <1>1, <1>2 DEF DeviceInv, DeviceTypeOK, HoldersInv, AcquiredInv,
        BuffersAccounted, Starting, Streaming

\* The invariant is inductive.
LEMMA DeviceSteps == DeviceInv /\ [DeviceNext]_deviceVars => DeviceInv'
<1> SUFFICES ASSUME DeviceInv, [DeviceNext]_deviceVars
             PROVE  DeviceInv'
    OBVIOUS
<1> USE DEF Starting, Streaming
<1>0. /\ DeviceTypeOK /\ HoldersInv /\ AcquiredInv /\ BuffersAccounted
      /\ FrameBuffers \in Nat /\ granted \in Nat /\ granted <= FrameBuffers
    BY DeviceAssumption DEF DeviceInv, DeviceTypeOK
<1>1. CASE UNCHANGED deviceVars
    BY <1>1 DEF DeviceInv, DeviceTypeOK, HoldersInv, AcquiredInv, BuffersAccounted,
        deviceVars, driverVars
<1>2. CASE OpenDevice
    <2>1. /\ source = "new" /\ mapped = {} /\ ~fd /\ copying = 0
          /\ UNCHANGED <<granted, mapped, atDriver, dq, offered, copying>>
        BY <1>0, <1>2 DEF OpenDevice, HoldersInv, AcquiredInv
    <2>2. CASE source' = "format" /\ fd' = TRUE
        BY <1>0, <2>1, <2>2 DEF DeviceInv, DeviceTypeOK, HoldersInv, AcquiredInv,
            BuffersAccounted
    <2>3. CASE source' = "over" /\ UNCHANGED fd
        <3>1. ~fd' /\ fd' \in BOOLEAN
            BY <1>0, <2>1, <2>3 DEF DeviceTypeOK
        <3> QED BY <1>0, <2>1, <2>3, <3>1 DEF DeviceInv, DeviceTypeOK, HoldersInv,
            AcquiredInv, BuffersAccounted
    <2> QED BY <1>2, <2>2, <2>3 DEF OpenDevice
<1>3. CASE SetFormat
    <2>1. CASE StartFailed
        BY <1>3, <2>1, FailedIsClean DEF SetFormat
    <2>2. CASE source' = "buffers" /\ granted' \in 1..FrameBuffers
               /\ UNCHANGED <<fd, mapped, atDriver, dq, offered, copying>>
        <3>1. source = "format" /\ mapped = {} /\ atDriver = {} /\ granted' \in Nat
            BY <1>0, <1>3, <2>2 DEF SetFormat, AcquiredInv
        <3>2. 1..0 = {} /\ 0 \in 0..granted'
            BY <3>1
        <3>3. AcquiredInv'
            BY <2>2, <3>1, <3>2 DEF AcquiredInv
        <3> QED BY <1>0, <2>2, <3>1, <3>3 DEF DeviceInv, DeviceTypeOK, HoldersInv,
            BuffersAccounted
    <2> QED BY <1>3, <2>1, <2>2 DEF SetFormat
<1>4. ASSUME NEW b \in 1..FrameBuffers, InitBuffer(b)
      PROVE  DeviceInv'
    <2>1. CASE StartFailed
        BY <1>4, <2>1, FailedIsClean DEF InitBuffer
    <2>2. PICK k \in 0..granted : atDriver = 1..k
        BY <1>0, <1>4 DEF InitBuffer, AcquiredInv
    <2>3. b = k + 1 /\ b \in 1..granted /\ source = "buffers"
        BY <1>0, <1>4, <2>2, QueuedSoFar DEF InitBuffer
    <2>4. CASE b \notin mapped /\ mapped' = mapped \cup {b}
               /\ UNCHANGED <<source, fd, granted, atDriver, dq, offered, copying>>
        BY <1>0, <2>3, <2>4 DEF DeviceInv, DeviceTypeOK, HoldersInv, AcquiredInv,
            BuffersAccounted
    <2>5. CASE b \in mapped /\ atDriver' = atDriver \cup {b}
               /\ UNCHANGED <<source, fd, granted, mapped, dq, offered, copying>>
        <3>1. atDriver' = 1..(k + 1) /\ k + 1 \in 0..granted
            BY <1>0, <2>2, <2>3, <2>5
        <3> QED BY <1>0, <2>3, <2>5, <3>1 DEF DeviceInv, DeviceTypeOK, HoldersInv,
            AcquiredInv, BuffersAccounted
    <2> QED BY <1>4, <2>1, <2>4, <2>5 DEF InitBuffer
<1>5. CASE StreamOn
    <2>1. CASE StartFailed
        BY <1>5, <2>1, FailedIsClean DEF StreamOn, StartFailed
    <2>2. CASE source' = "run" /\ dq' = "ioctl" /\ UNCHANGED <<driverVars, offered, copying>>
        <3>1. PICK k \in 0..granted : atDriver = 1..k
            BY <1>0, <1>5 DEF StreamOn, AcquiredInv
        <3>2. k = granted
            BY <1>0, <1>5, <3>1, QueuedSoFar DEF StreamOn
        <3>3. /\ atDriver = 1..granted /\ mapped = 1..granted
              /\ offered = 0 /\ copying = 0
            BY <1>0, <1>5, <3>1, <3>2 DEF StreamOn, AcquiredInv, HoldersInv, DeviceTypeOK
        <3>4. 0 \notin 1..granted
            OBVIOUS
        <3> QED BY <1>0, <2>2, <3>3, <3>4 DEF DeviceInv, DeviceTypeOK, HoldersInv,
            AcquiredInv, BuffersAccounted, driverVars
    <2> QED BY <1>5, <2>1, <2>2 DEF StreamOn
<1>6. CASE DequeueBuffer
    <2>1. ~Starting /\ offered = 0
        BY <1>0, <1>6 DEF DequeueBuffer, HoldersInv
    <2>2. CASE dq' = "error" /\ UNCHANGED <<offered, atDriver>>
        BY <1>0, <1>6, <2>1, <2>2 DEF DequeueBuffer, DeviceInv, DeviceTypeOK, HoldersInv,
            AcquiredInv, BuffersAccounted
    <2>3. CASE source # "over" /\ dq' = "offer"
               /\ offered' \in atDriver /\ atDriver' = atDriver \ {offered'}
        <3>1. /\ Streaming /\ atDriver \cup ({copying} \ {0}) = 1..granted
              /\ copying \notin atDriver /\ offered' \in 1..granted
            BY <1>0, <2>1, <2>3 DEF DeviceTypeOK, BuffersAccounted
        <3>2. offered' # 0 /\ offered' # copying /\ offered' \in 0..FrameBuffers
            BY <1>0, <2>3, <3>1
        <3>3. BuffersAccounted'
            BY <1>6, <2>3, <3>1, <3>2 DEF DequeueBuffer, BuffersAccounted
        <3> QED BY <1>0, <1>6, <2>1, <2>3, <3>1, <3>2, <3>3 DEF DequeueBuffer, DeviceInv,
            DeviceTypeOK, HoldersInv, AcquiredInv
    <2> QED BY <1>6, <2>2, <2>3 DEF DequeueBuffer
<1>7. CASE TakeBuffer
    <2>1. /\ source = "run" /\ source' = "copy" /\ copying = 0 /\ offered # 0
          /\ copying' = offered /\ offered' = 0 /\ dq' = "ioctl"
          /\ UNCHANGED <<fd, granted, mapped, atDriver>>
        BY <1>0, <1>7 DEF TakeBuffer, HoldersInv, driverVars
    <2> QED BY <1>0, <2>1 DEF DeviceInv, DeviceTypeOK, HoldersInv, AcquiredInv,
        BuffersAccounted
<1>8. CASE Requeue
    <2>1. CASE source' = "run" /\ atDriver' = atDriver \cup {copying}
               /\ UNCHANGED <<fd, granted, mapped>>
        <3>1. copying \in mapped
            BY <1>0, <1>8 DEF Requeue, HoldersInv, BuffersAccounted, AcquiredInv
        <3>2. BuffersAccounted'
            BY <1>0, <1>8, <2>1 DEF Requeue, HoldersInv, BuffersAccounted, DeviceTypeOK
        <3> QED BY <1>0, <1>8, <2>1, <3>1, <3>2 DEF Requeue, DeviceInv, DeviceTypeOK,
            HoldersInv, AcquiredInv
    <2>2. CASE source' = "over" /\ CloseDevice
        <3>1. /\ fd' = FALSE /\ mapped' = {} /\ atDriver' = {} /\ copying' = 0
              /\ UNCHANGED <<granted, dq, offered>>
            BY <1>8, <2>2 DEF Requeue, CloseDevice
        <3>2. offered' \in 0..FrameBuffers /\ granted' \in 0..FrameBuffers
            BY <1>0, <3>1 DEF DeviceTypeOK
        <3>3. copying' \in 0..FrameBuffers
            BY <1>0, <3>1
        <3>4. fd' \in BOOLEAN
            BY <3>1
        <3>5. DeviceTypeOK'
            BY <1>0, <2>2, <3>1, <3>2, <3>3, <3>4 DEF DeviceTypeOK
        <3>6. HoldersInv'
            BY <1>0, <2>2, <3>1 DEF HoldersInv
        <3>7. AcquiredInv' /\ BuffersAccounted'
            BY <2>2, <3>1 DEF AcquiredInv, BuffersAccounted
        <3> QED BY <3>5, <3>6, <3>7 DEF DeviceInv
    <2> QED BY <1>8, <2>1, <2>2 DEF Requeue
<1>9. CASE RunOver
    <2>1. /\ source = "run" /\ source' = "over" /\ fd' = FALSE /\ mapped' = {}
          /\ atDriver' = {} /\ UNCHANGED <<granted, offered, copying>>
          /\ copying = 0
        BY <1>0, <1>9 DEF RunOver, CloseDevice, HoldersInv
    <2>2. dq' = dq \/ (dq = "error" /\ dq' = "ended")
        BY <1>9 DEF RunOver
    <2> QED BY <1>0, <2>1, <2>2 DEF DeviceInv, DeviceTypeOK, HoldersInv, AcquiredInv,
        BuffersAccounted
<1>10. CASE DequeuerEnds
    BY <1>0, <1>10 DEF DequeuerEnds, driverVars, DeviceInv, DeviceTypeOK, HoldersInv,
        AcquiredInv, BuffersAccounted
<1> QED BY <1>1, <1>2, <1>3, <1>4, <1>5, <1>6, <1>7, <1>8, <1>9, <1>10 DEF DeviceNext

\* A device that has not been opened.
LEMMA DeviceStarts == DeviceInit => DeviceInv
<1> SUFFICES ASSUME DeviceInit
             PROVE  DeviceInv
    OBVIOUS
<1>1. 0 \in 0..FrameBuffers
    BY DeviceAssumption
<1>2. DeviceTypeOK
    BY <1>1 DEF DeviceInit, DeviceTypeOK
<1>3. HoldersInv
    BY DEF DeviceInit, HoldersInv, Starting
<1>4. AcquiredInv /\ BuffersAccounted
    BY DEF DeviceInit, AcquiredInv, BuffersAccounted, Streaming
<1> QED BY <1>2, <1>3, <1>4 DEF DeviceInv

\* Every buffer is in one place while the source runs, and nothing is left open or
\* mapped after it or after a failed Start, for any number of buffers and wherever an
\* ioctl fails.
THEOREM NoBufferLost == DeviceSpec => []BuffersAccounted
<1>1. DeviceInv => BuffersAccounted
    BY DEF DeviceInv
<1> QED BY <1>1, DeviceStarts, DeviceSteps, PTL DEF DeviceSpec

-----------------------------------------------------------------------------
(* AdaptiveBitrate. *)

\* A clean stretch is never taken for longer than the link has been quiet.
AbrInv == AbrTypeOK /\ clean <= quiet

\* A clamped number is between the bounds.
LEMMA ClampBounds ==
    ASSUME NEW v \in Int
    PROVE  Clamp(v) \in Lo..Hi
BY AbrAssumption DEF Clamp, Normalised

\* An age grows up to its limit.
LEMMA OlderBounds ==
    ASSUME NEW limit \in Nat, NEW age \in 0..limit
    PROVE  Older(age, limit) \in 0..limit /\ age <= Older(age, limit)
BY DEF Older

\* What Observe may change the target to.
LEMMA CandidateBounds ==
    ASSUME AbrTypeOK, NEW s \in Report
    PROVE  Candidate(s) \in Lo..Hi
<1>1. target \in Int /\ Factor \in Int /\ Base \in Nat \ {0} /\ Step \in Int
    BY AbrAssumption DEF AbrTypeOK, Normalised
<1>2. (target * Factor) \in Int
    BY <1>1
<1>3. ((target * Factor) \div Base) \in Int
    BY <1>1, <1>2
<1> QED BY <1>1, <1>3, ClampBounds DEF Candidate

\* The controller's start.
LEMMA AbrStarts == AbrInit => AbrInv
<1> SUFFICES ASSUME AbrInit
             PROVE  AbrInv
    OBVIOUS
<1>1. target \in Lo..Hi
    BY ClampBounds, AbrAssumption DEF AbrInit, Normalised
<1> QED BY <1>1, AbrAssumption DEF AbrInit, AbrInv, AbrTypeOK, Normalised

\* The clean stretch after a sample is within its range and no longer than quiet.
LEMMA CleanAgeBounds ==
    ASSUME AbrInv, NEW s \in Report
    PROVE  /\ CleanAge(s) \in -1..CleanWindow
           /\ s = "lossy" => CleanAge(s) = -1
           /\ CleanAge(s) <= Older(quiet, CleanWindow)
<1>1. CleanWindow \in Nat /\ clean \in -1..CleanWindow /\ quiet \in 0..CleanWindow
      /\ clean <= quiet /\ CleanWindow > 0
    BY AbrAssumption DEF AbrInv, AbrTypeOK, Normalised
<1>2. CASE s = "lossy"
    BY <1>1, <1>2 DEF CleanAge, Older
<1>3. CASE s = "clean" /\ clean = -1
    BY <1>1, <1>3 DEF CleanAge, Older
<1>4. CASE s = "clean" /\ clean # -1
    BY <1>1, <1>4 DEF CleanAge, Older
<1> QED BY <1>2, <1>3, <1>4 DEF Report

\* The invariant is inductive.
LEMMA AbrSteps == AbrInv /\ [AbrNext]_abrVars => AbrInv'
<1> SUFFICES ASSUME AbrInv, [AbrNext]_abrVars
             PROVE  AbrInv'
    OBVIOUS
<1>0. /\ CleanWindow \in Nat /\ Cooldown \in Nat /\ target \in Lo..Hi
      /\ clean \in -1..CleanWindow /\ quiet \in 0..CleanWindow /\ cooled \in 0..Cooldown
      /\ sample \in Report \cup {"none"} /\ clean <= quiet
    BY AbrAssumption DEF AbrInv, AbrTypeOK, Normalised
<1>1. CASE UNCHANGED abrVars
    BY <1>1 DEF AbrInv, AbrTypeOK, abrVars
<1>2. CASE NoStats
    <2>1. target' \in Lo..Hi /\ sample' \in Report \cup {"none"} /\ cooled' \in 0..Cooldown
        BY <1>0, <1>2, OlderBounds DEF NoStats
    <2>2. quiet' \in 0..CleanWindow
        BY <1>0, <1>2, OlderBounds DEF NoStats
    <2>3. clean' \in -1..CleanWindow /\ clean' <= quiet'
        BY <1>0, <1>2 DEF NoStats, Older
    <2> QED BY <2>1, <2>2, <2>3 DEF AbrInv, AbrTypeOK
<1>3. ASSUME NEW s \in Report, Observe(s)
      PROVE  AbrInv'
    <2>1. sample' \in Report \cup {"none"}
        BY <1>3 DEF Observe
    <2>2. quiet' \in 0..CleanWindow
          /\ quiet' = IF s = "lossy" THEN 0 ELSE Older(quiet, CleanWindow)
        BY <1>0, <1>3, OlderBounds DEF Observe
    <2>3. CASE Due(s)
        <3>1. target' \in Lo..Hi /\ cooled' \in 0..Cooldown
            BY <1>0, <1>3, <2>3, CandidateBounds DEF Observe, AbrInv
        <3>2. clean' \in -1..CleanWindow /\ clean' <= quiet'
            BY <1>0, <1>3, <2>2, <2>3 DEF Observe
        <3> QED BY <2>1, <2>2, <3>1, <3>2 DEF AbrInv, AbrTypeOK
    <2>4. CASE ~Due(s)
        <3>1. target' \in Lo..Hi /\ cooled' \in 0..Cooldown
            BY <1>0, <1>3, <2>4, OlderBounds DEF Observe
        <3>2. clean' \in -1..CleanWindow /\ clean' <= quiet'
            <4>1. clean' = CleanAge(s)
                BY <1>3, <2>4 DEF Observe
            <4> QED BY <1>0, <4>1, <2>2, CleanAgeBounds
        <3> QED BY <2>1, <2>2, <3>1, <3>2 DEF AbrInv, AbrTypeOK
    <2> QED BY <2>3, <2>4
<1> QED BY <1>1, <1>2, <1>3 DEF AbrNext

\* The bitrate rises only after a clean window: the sample of the step is clean, and
\* its clean stretch, which is as long as the window, has been quiet.
THEOREM IncreasesAreSafe == AbrSpec => IncreaseAfterCleanWindow
<1>1. AbrInv /\ [AbrNext]_abrVars =>
        [target' > target =>
            sample' = "clean" /\ Older(quiet, CleanWindow) >= CleanWindow]_abrVars
    <2> SUFFICES ASSUME AbrInv, AbrNext, target' > target
                 PROVE  sample' = "clean" /\ Older(quiet, CleanWindow) >= CleanWindow
        OBVIOUS
    <2>0. target \in Int /\ CleanWindow \in Nat /\ quiet \in 0..CleanWindow
        BY AbrAssumption DEF AbrInv, AbrTypeOK, Normalised
    <2>1. ~NoStats
        BY <2>0 DEF NoStats
    <2>2. PICK s \in Report : Observe(s)
        BY <2>1 DEF AbrNext
    <2>3. Due(s) /\ target' = Candidate(s)
        BY <2>0, <2>2 DEF Observe
    <2>4. s # "lossy"
        <3> SUFFICES ASSUME s = "lossy" PROVE FALSE
            OBVIOUS
        <3>1. target \in Nat /\ Factor \in Nat /\ Base \in Nat /\ 0 < Factor /\ Factor < Base
              /\ Lo \in Nat /\ Hi \in Nat /\ Lo <= target /\ target <= Hi
            BY AbrAssumption DEF AbrInv, AbrTypeOK, Normalised
        <3>2. (target * Factor) \div Base <= target
            <4>1. target * Factor <= target * Base
                BY <3>1
            <4> DEFINE n == target * Factor
            <4>2. n \in Nat /\ n <= target * Base
                BY <3>1, <4>1
            <4> HIDE DEF n
            <4>3. n \div Base <= target
                BY <3>1, <4>2
            <4> QED BY <4>3 DEF n
        <3>3. (target * Factor) \div Base \in Int
            BY <3>1
        <3>4. Candidate(s) <= target
            BY <3>1, <3>2, <3>3 DEF Candidate, Clamp
        <3>5. Candidate(s) \in Int
            BY <3>1, CandidateBounds DEF AbrInv
        <3> QED BY <2>0, <2>3, <3>4, <3>5
    <2>5. CleanAge(s) >= CleanWindow
        BY <2>3, <2>4 DEF Due
    <2>6. Older(quiet, CleanWindow) >= CleanWindow
        BY <2>0, <2>5, CleanAgeBounds, OlderBounds
    <2> QED BY <2>2, <2>4, <2>6 DEF Observe, Report
<1> QED BY <1>1, AbrStarts, AbrSteps, PTL DEF AbrSpec, IncreaseAfterCleanWindow
-----------------------------------------------------------------------------
(* SunshineAgent. *)

\* Failures so far pay for the calls and requests so far: a call that was refused took
\* one refusal, one whose requests all failed took HttpAttempts errors.
KickPaid ==
    agent = "kick" =>
        /\ try >= 1 /\ request >= 1
        /\ errors >= HttpAttempts * (try - 1 - refused) + (request - 1)

Ended == {e \in Event : e[1] = "ended"}

LEMMA EndsCounted ==
    ASSUME NEW q \in Seq(Event)
    PROVE  Ends(q) = Count(q, Ended) /\ Ends(q) \in Nat
<1>1. \A i \in 1..Len(q) : q[i] \in Event
  OBVIOUS
<1>2. {i \in DOMAIN q : q[i][1] = "ended"} = Places(q, Ended)
  BY <1>1 DEF Places, Ended
<1>3. Ends(q) = Count(q, Ended)
  BY <1>2 DEF Ends, Count
<1> QED
  BY <1>3, CountType

LEMMA EmitKeepsEnds ==
    ASSUME AgentTypeOK, NEW ev \in Event, Emit(ev)
    PROVE  /\ eventsOut' \in Seq(Event) /\ Len(eventsOut') <= EventBuffer
           /\ ~(Ends(eventsOut') < Ends(eventsOut))
<1>1. eventsOut \in Seq(Event) /\ Len(eventsOut) <= EventBuffer /\ EventBuffer \in Nat
  BY AgentAssumption DEF AgentTypeOK
<1>2. Ends(eventsOut) = Count(eventsOut, Ended) /\ Ends(eventsOut) \in Nat
  BY <1>1, EndsCounted
<1>3. CASE eventsOut' = eventsOut
  BY <1>1, <1>2, <1>3
<1>4. CASE Len(eventsOut) < EventBuffer /\ eventsOut' = Append(eventsOut, ev)
  <2>1. PICK q \in Seq(Event) : q = Append(eventsOut, ev) /\ Len(q) = Len(eventsOut) + 1
    <3>1. ASSUME NEW e \in Seq(Event)
          PROVE  Append(e, ev) \in Seq(Event) /\ Len(Append(e, ev)) = Len(e) + 1
      OBVIOUS
    <3> QED
      BY <1>1, <3>1
  <2>2. Ends(q) = Count(q, Ended)
    BY EndsCounted
  <2>3. Count(q, Ended) = Count(eventsOut, Ended) + 1 \/ Count(q, Ended) = Count(eventsOut, Ended)
    BY <1>1, <2>1, CountAppend
  <2>4. Len(eventsOut) \in Nat
    BY <1>1
  <2>5. Len(q) <= EventBuffer
    BY <1>1, <1>4, <2>1, <2>4
  <2>6. ~(Ends(q) < Ends(eventsOut))
    BY <1>2, <2>2, <2>3
  <2> QED
    BY <1>4, <2>1, <2>5, <2>6
<1> QED
  BY <1>3, <1>4 DEF Emit

\* What is received leaves the channel: an end for the loop around KickAll.
LEMMA RecvTakesOne ==
    ASSUME AgentTypeOK, RecvEvent
    PROVE  /\ eventsOut' \in Seq(Event) /\ Len(eventsOut') <= EventBuffer
           /\ Ends(eventsOut') < Ends(eventsOut) => agent' = "kick"
<1>1. /\ eventsOut \in Seq(Event) /\ Len(eventsOut) <= EventBuffer /\ EventBuffer \in Nat
      /\ eventsOut # <<>> /\ eventsOut' = Tail(eventsOut)
  BY AgentAssumption DEF AgentTypeOK, RecvEvent
<1>2. PICK q \in Seq(Event) : q = eventsOut /\ q # <<>>
  BY <1>1
<1>3. /\ Tail(q) \in Seq(Event) /\ Len(Tail(q)) = Len(q) - 1 /\ Len(q) \in Nat /\ Head(q) \in Event
  BY <1>2
<1>4. Ends(q) = Count(q, Ended) /\ Ends(Tail(q)) = Count(Tail(q), Ended) /\ Ends(q) \in Nat
  BY <1>3, EndsCounted
<1>5. ASSUME Head(q)[1] # "ended" PROVE Ends(Tail(q)) = Ends(q)
  <2>1. Head(q) \notin Ended
    BY <1>5 DEF Ended
  <2> QED
    BY <1>2, <1>4, <2>1, CountTail
<1>6. Ends(Tail(q)) < Ends(q) => Head(q)[1] = "ended"
  BY <1>4, <1>5
<1>7. Head(q)[1] = "ended" => agent' = "kick"
  BY <1>2 DEF RecvEvent
<1>8. Len(Tail(q)) <= EventBuffer
  BY <1>1, <1>2, <1>3
<1> QED
  BY <1>1, <1>2, <1>3, <1>6, <1>7, <1>8

\* A longer row of failed calls takes more errors.
LEMMA ProductGrows ==
    ASSUME NEW h \in Nat, NEW a \in Int, NEW b \in Int, a <= b
    PROVE  h * a \in Int /\ h * b \in Int /\ h * a <= h * b
<1>1. h * a \in Int /\ h * b \in Int
  OBVIOUS
<1>2. h * (b - a) >= 0
  OBVIOUS
<1>3. h * (b - a) = h * b - h * a
  OBVIOUS
<1> QED
  BY <1>1, <1>2, <1>3

LEMMA ProductNext ==
    ASSUME NEW h \in Nat, NEW a \in Int
    PROVE  h * a \in Int /\ h * (a + 1) \in Int /\ h * (a + 1) = h * a + h
  OBVIOUS
LEMMA AgentTypeStep == AgentTypeOK /\ [AgentNext]_agentVars => AgentTypeOK'
<1> SUFFICES ASSUME AgentTypeOK, [AgentNext]_agentVars PROVE AgentTypeOK'
  OBVIOUS
<1>1. /\ KickRetries \in Nat \ {0} /\ HttpAttempts \in Nat \ {0}
      /\ MaxRefused \in Nat /\ MaxErrors \in Nat
  BY AgentAssumption
<1>2. \A p \in Player : <<"granted", p>> \in Event /\ <<"ended", p>> \in Event
  BY DEF Event
<1>3. <<"tick", NoPlayer>> \in Event
  BY DEF Event
<1>4. CASE UNCHANGED agentVars
  BY <1>4 DEF AgentTypeOK, agentVars, httpVars, faultVars
<1>5. ASSUME NEW p \in Player, ClaimToken(p) PROVE AgentTypeOK'
  <2>1. eventsOut' \in Seq(Event) /\ Len(eventsOut') <= EventBuffer
    BY <1>2, <1>5, EmitKeepsEnds DEF ClaimToken, AgentTypeOK
  <2> QED
    BY <1>5, <2>1 DEF ClaimToken, AgentTypeOK, httpVars, faultVars
<1>6. ASSUME NEW p \in Player, Connect(p) PROVE AgentTypeOK'
  BY <1>6 DEF Connect, AgentTypeOK, httpVars, faultVars
<1>7. CASE SessionEnds
  <2>1. <<"ended", holder>> \in Event
    BY <1>2, <1>7 DEF SessionEnds, AgentTypeOK
  <2>2. eventsOut' \in Seq(Event) /\ Len(eventsOut') <= EventBuffer
    BY <1>7, <2>1, EmitKeepsEnds DEF SessionEnds
  <2> QED
    BY <1>7, <2>2 DEF SessionEnds, AgentTypeOK, httpVars, faultVars
<1>8. CASE SessionTick
  <2>1. eventsOut' \in Seq(Event) /\ Len(eventsOut') <= EventBuffer
    BY <1>3, <1>8, EmitKeepsEnds DEF SessionTick
  <2> QED
    BY <1>8, <2>1 DEF SessionTick, AgentTypeOK, httpVars, faultVars
<1>9. CASE RecvEvent
  <2>1. eventsOut' \in Seq(Event) /\ Len(eventsOut') <= EventBuffer
    BY <1>9, RecvTakesOne
  <2>2. agent' \in {"select", "kick", "pair"} /\ try' \in 0..KickRetries /\ request' \in 0..HttpAttempts
    BY <1>1, <1>9 DEF RecvEvent, AgentTypeOK, httpVars
  <2> QED
    BY <1>9, <2>1, <2>2 DEF RecvEvent, AgentTypeOK, faultVars
<1>10. ASSUME CallFails \/ CallOver
       PROVE  agent' \in {"select", "kick"} /\ try' \in 0..KickRetries /\ request' \in 0..HttpAttempts
  <2>1. try \in 0..KickRetries
    BY DEF AgentTypeOK
  <2> QED
    BY <1>1, <1>10, <2>1 DEF CallFails, CallOver
<1>11. CASE RequestSucceeds
  <2>1. streaming' \subseteq Player
    BY <1>11 DEF RequestSucceeds, TakesEffect, AgentTypeOK
  <2> QED
    BY <1>10, <1>11, <2>1 DEF RequestSucceeds, AgentTypeOK, faultVars
<1>12. CASE RequestRefused
  <2>1. refused' \in 0..MaxRefused
    BY <1>1, <1>12 DEF RequestRefused, AgentTypeOK
  <2> QED
    BY <1>10, <1>12, <2>1 DEF RequestRefused, AgentTypeOK
<1>13. CASE RequestFails
  <2>1. errors' \in 0..MaxErrors
    BY <1>1, <1>13 DEF RequestFails, AgentTypeOK
  <2>2. streaming' \subseteq Player
    BY <1>13 DEF RequestFails, TakesEffect, AgentTypeOK
  <2>3. /\ agent' \in {"select", "kick", "pair", "exited"} /\ try' \in 0..KickRetries
        /\ request' \in 0..HttpAttempts
    <3>1. CASE request < HttpAttempts
      BY <1>1, <1>13, <3>1 DEF RequestFails, AgentTypeOK
    <3>2. CASE ~(request < HttpAttempts)
      BY <1>10, <1>13, <3>2 DEF RequestFails
    <3> QED
      BY <3>1, <3>2
  <2> QED
    BY <1>13, <2>1, <2>2, <2>3 DEF RequestFails, AgentTypeOK
<1>14. CASE Exit
  BY <1>14 DEF Exit, AgentTypeOK, httpVars, faultVars
<1> QED
  BY <1>4, <1>5, <1>6, <1>7, <1>8, <1>9, <1>11, <1>12, <1>13, <1>14 DEF AgentNext, AgentStep

LEMMA KickPaidStep == AgentTypeOK /\ KickPaid /\ [AgentNext]_agentVars => KickPaid'
<1> SUFFICES ASSUME AgentTypeOK, KickPaid, [AgentNext]_agentVars, agent' = "kick"
             PROVE  /\ try' >= 1 /\ request' >= 1
                    /\ errors' >= HttpAttempts * (try' - 1 - refused') + (request' - 1)
  BY DEF KickPaid
<1>1. /\ HttpAttempts \in Nat \ {0} /\ try \in Nat /\ request \in 0..HttpAttempts
      /\ refused \in Nat /\ errors \in Nat
  BY AgentAssumption DEF AgentTypeOK
<1>2. CASE UNCHANGED <<agent, httpVars, faultVars>>
  BY <1>2 DEF KickPaid, httpVars, faultVars
<1>3. CASE RecvEvent /\ ~UNCHANGED <<agent, httpVars>>
  <2>1. try' = 1 /\ request' = 1 /\ refused' = refused /\ errors' = errors
    BY <1>3 DEF RecvEvent, faultVars
  <2>2. HttpAttempts * (1 - 1 - refused) <= HttpAttempts * 0 /\ HttpAttempts * 0 = 0
        /\ HttpAttempts * (1 - 1 - refused) \in Int
    <3>1. 1 - 1 - refused \in Int /\ 1 - 1 - refused <= 0 /\ HttpAttempts \in Nat
      BY <1>1
    <3> QED
      BY <3>1, ProductGrows
  <2> QED
    BY <1>1, <2>1, <2>2
<1>4. CASE RequestSucceeds
  BY <1>4 DEF RequestSucceeds, CallOver
<1>5. CASE RequestRefused
  <2>1. CallFails /\ refused' = refused + 1 /\ errors' = errors
    BY <1>5 DEF RequestRefused
  <2>2. agent = "kick" /\ try' = try + 1 /\ request' = 1
    BY <2>1 DEF CallFails, CallOver
  <2>3. request >= 1 /\ errors >= HttpAttempts * (try - 1 - refused) + (request - 1)
    BY <2>2 DEF KickPaid
  <2>4. try' - 1 - refused' = try - 1 - refused /\ try - 1 - refused \in Int
    BY <1>1, <2>1, <2>2
  <2>5. HttpAttempts * (try - 1 - refused) \in Int
    BY <1>1, <2>4
  <2>6. HttpAttempts * (try' - 1 - refused') = HttpAttempts * (try - 1 - refused)
    BY <2>4
  <2> QED
    BY <1>1, <2>1, <2>2, <2>3, <2>5, <2>6
<1>6. CASE RequestFails
  <2>1. errors' = errors + 1 /\ refused' = refused
    BY <1>6 DEF RequestFails
  <2>2. CASE request < HttpAttempts
    <3>1. request' = request + 1 /\ agent = "kick" /\ try' = try
      BY <1>6, <2>2 DEF RequestFails
    <3>2. try >= 1 /\ request >= 1 /\ errors >= HttpAttempts * (try - 1 - refused) + (request - 1)
      BY <3>1 DEF KickPaid
    <3>3. HttpAttempts * (try - 1 - refused) \in Int
      BY <1>1
    <3>4. HttpAttempts * (try' - 1 - refused') = HttpAttempts * (try - 1 - refused)
      BY <2>1, <3>1
    <3> QED
      BY <1>1, <2>1, <3>1, <3>2, <3>3, <3>4
  <2>3. CASE ~(request < HttpAttempts)
    <3>1. CallFails
      BY <1>6, <2>3 DEF RequestFails
    <3>2. agent = "kick" /\ try' = try + 1 /\ request' = 1
      BY <3>1 DEF CallFails, CallOver
    <3>3. errors >= HttpAttempts * (try - 1 - refused) + (request - 1) /\ request = HttpAttempts
      BY <1>1, <2>3, <3>2 DEF KickPaid
    <3>4. PICK a \in Int : a = try - 1 - refused
      BY <1>1
    <3>5. HttpAttempts * a \in Int /\ HttpAttempts * (a + 1) = HttpAttempts * a + HttpAttempts
      BY <1>1, ProductNext
    <3>6. try' - 1 - refused' = a + 1
      BY <1>1, <2>1, <3>2, <3>4
    <3>7. errors >= HttpAttempts * a + (HttpAttempts - 1)
      BY <3>3, <3>4
    <3>8. HttpAttempts * (try' - 1 - refused') = HttpAttempts * a + HttpAttempts
      BY <3>5, <3>6
    <3> QED
      BY <1>1, <2>1, <3>2, <3>5, <3>7, <3>8
  <2> QED
    BY <2>2, <2>3
<1>7. CASE Exit
  BY <1>7 DEF Exit
<1>8. CASE \/ \E p \in Player : ClaimToken(p) \/ Connect(p)
           \/ SessionEnds \/ SessionTick \/ UNCHANGED agentVars
  <2>1. UNCHANGED <<agent, httpVars, faultVars>>
    BY <1>8 DEF ClaimToken, Connect, SessionEnds, SessionTick, agentVars
  <2> QED
    BY <1>2, <2>1
<1>9. CASE RecvEvent /\ UNCHANGED <<agent, httpVars>>
  BY <1>2, <1>9 DEF RecvEvent
<1> QED
  BY <1>3, <1>4, <1>5, <1>6, <1>7, <1>8, <1>9 DEF AgentNext, AgentStep

\* An agent that has paid for nothing.
LEMMA AgentStarts == AgentInit => AgentTypeOK /\ KickPaid
<1> SUFFICES ASSUME AgentInit PROVE AgentTypeOK /\ KickPaid
  OBVIOUS
<1>1. eventsOut \in Seq(Event) /\ Len(eventsOut) <= EventBuffer
  BY AgentAssumption DEF AgentInit
<1>2. /\ try \in 0..KickRetries /\ request \in 0..HttpAttempts
      /\ refused \in 0..MaxRefused /\ errors \in 0..MaxErrors
  BY AgentAssumption DEF AgentInit
<1> QED
  BY <1>1, <1>2 DEF AgentInit, AgentTypeOK, KickPaid

\* The end of a session that the channel took is acted on: it leaves the channel for
\* KickAll only, and the loop around KickAll is over only when nobody streams, if
\* Sunshine fails less often than the retries of handleEvent and of doRetry allow for:
\* MaxRefused calls refused, and not HttpAttempts errors for each of the others.
THEOREM EndedKicked ==
    ASSUME MaxErrors < HttpAttempts * (KickRetries - MaxRefused)
    PROVE  AgentSpec => EndedIsKicked
<1>1. AgentInit => AgentTypeOK /\ KickPaid
  BY AgentStarts
<1>2. /\ KickRetries \in Nat /\ HttpAttempts \in Nat \ {0} /\ MaxRefused \in Nat /\ MaxErrors \in Nat
  BY AgentAssumption
<1>3. PICK limit \in Int : limit = HttpAttempts * (KickRetries - MaxRefused) /\ MaxErrors < limit
  BY <1>2
\* The last call of KickAll does not fail.
<1>4. ASSUME AgentTypeOK, KickPaid, agent = "kick", agent' = "select",
             RequestRefused \/ RequestFails
      PROVE  FALSE
  <2>1. /\ try \in 0..KickRetries /\ request \in 0..HttpAttempts /\ refused \in 0..MaxRefused
        /\ errors \in 0..MaxErrors
    BY <1>4 DEF AgentTypeOK
  <2>2. ~(try < KickRetries)
    BY <1>4 DEF RequestRefused, RequestFails, CallFails
  <2>3. try = KickRetries
    BY <1>2, <2>1, <2>2
  <2>4. request >= 1 /\ errors >= HttpAttempts * (KickRetries - 1 - refused) + (request - 1)
    BY <1>4, <2>3 DEF KickPaid
  <2>5. PICK a \in Int : a = KickRetries - 1 - refused
    BY <1>2, <2>1
  <2>6. HttpAttempts * a \in Int /\ HttpAttempts * (a + 1) \in Int
        /\ HttpAttempts * (a + 1) = HttpAttempts * a + HttpAttempts
    BY <1>2, ProductNext
  <2>7. errors >= HttpAttempts * a + (request - 1)
    BY <2>4, <2>5
  <2>8. CASE RequestRefused
    <3>1. KickRetries - MaxRefused \in Int /\ KickRetries - MaxRefused <= a
      BY <1>2, <1>4, <2>1, <2>5, <2>8 DEF RequestRefused
    <3>2. limit <= HttpAttempts * a
      BY <1>2, <1>3, <3>1, ProductGrows
    <3> QED
      BY <1>2, <1>3, <2>1, <2>4, <2>6, <2>7, <3>2
  <2>9. CASE RequestFails
    <3>1. errors < MaxErrors /\ request = HttpAttempts
      BY <1>2, <1>4, <2>1, <2>9 DEF RequestFails
    <3>2. KickRetries - MaxRefused \in Int /\ KickRetries - MaxRefused <= a + 1 /\ a + 1 \in Int
      BY <1>2, <2>1, <2>5
    <3>3. limit <= HttpAttempts * (a + 1)
      BY <1>2, <1>3, <3>2, ProductGrows
    <3> QED
      BY <1>2, <1>3, <2>1, <2>6, <2>7, <3>1, <3>3
  <2> QED
    BY <1>4, <2>8, <2>9
<1>5. AgentTypeOK /\ KickPaid /\ [AgentNext]_agentVars =>
        [/\ Ends(eventsOut') < Ends(eventsOut) => agent = "select" /\ agent' = "kick"
         /\ agent = "kick" /\ agent' = "select" => streaming' = {}]_agentVars
  <2> SUFFICES ASSUME AgentTypeOK, KickPaid, AgentNext
               PROVE  /\ Ends(eventsOut') < Ends(eventsOut) => agent = "select" /\ agent' = "kick"
                      /\ agent = "kick" /\ agent' = "select" => streaming' = {}
    OBVIOUS
  <2>1. ASSUME Ends(eventsOut') < Ends(eventsOut) PROVE agent = "select" /\ agent' = "kick"
    <3>1. Ends(eventsOut) \in Nat
      BY EndsCounted DEF AgentTypeOK
    <3>2. eventsOut' # eventsOut
      BY <2>1, <3>1
    <3>3. \A p \in Player : <<"granted", p>> \in Event /\ <<"ended", p>> \in Event
      BY DEF Event
    <3>4. <<"tick", NoPlayer>> \in Event
      BY DEF Event
    <3>5. \A p \in Player : ~ClaimToken(p)
      BY <2>1, <3>2, <3>3, EmitKeepsEnds DEF ClaimToken
    <3>6. ~SessionEnds
      <4>1. holder # NoPlayer => <<"ended", holder>> \in Event
        BY <3>3 DEF AgentTypeOK
      <4> QED
        BY <2>1, <4>1, EmitKeepsEnds DEF SessionEnds
    <3>7. ~SessionTick
      BY <2>1, <3>4, EmitKeepsEnds DEF SessionTick
    <3>8. RecvEvent
      BY <3>2, <3>5, <3>6, <3>7 DEF AgentNext, AgentStep, Connect, RequestSucceeds, RequestRefused,
          RequestFails, Exit
    <3> QED
      BY <2>1, <3>8, RecvTakesOne DEF RecvEvent
  <2>2. ASSUME agent = "kick", agent' = "select" PROVE streaming' = {}
    <3>1. RequestSucceeds
      BY <1>4, <2>2 DEF AgentNext, AgentStep, ClaimToken, Connect, SessionEnds, SessionTick, RecvEvent, Exit
    <3> QED
      BY <2>2, <3>1 DEF RequestSucceeds, TakesEffect
  <2> QED
    BY <2>1, <2>2
<1> QED
  BY <1>1, <1>5, AgentTypeStep, KickPaidStep, PTL DEF AgentSpec, EndedIsKicked

-----------------------------------------------------------------------------
(* The parts together, as one model. *)

\* A step of the host is, to each part, a step of its own or none.
LEMMA HostSteps ==
    ASSUME [HostNext]_hostVars
    PROVE  /\ [VideoNext]_videoVars /\ [PeerNext]_peerVars /\ [AgentNext]_agentVars
           /\ [AbrNext]_abrVars /\ [SplitNext]_splitVars /\ [OggNext]_oggVars
           /\ [DeviceNext]_deviceVars /\ [Next]_vars
BY Zenon DEF HostNext, hostVars

\* Seen alone, every part of the host, and the server, behaves as its own specification
\* says: what is proved of a part holds in the model that runs them all.
THEOREM HostImplementsParts ==
    HostSpec => /\ VideoSpec /\ PeerSpec /\ AgentSpec /\ AbrSpec /\ SplitSpec /\ OggSpec
                /\ DeviceSpec /\ Spec
<1>1. HostInit => /\ VideoInit /\ PeerInit /\ AgentInit /\ AbrInit /\ SplitInit /\ OggInit
                  /\ DeviceInit /\ Init
  BY DEF HostInit
<1> QED
  BY <1>1, HostSteps, PTL
     DEF HostSpec, VideoSpec, PeerSpec, AgentSpec, AbrSpec, SplitSpec, OggSpec, DeviceSpec, Spec

\* Every part keeps its variables within their types.
THEOREM HostTypes == HostSpec => []HostTypeOK
<1>1. AgentSpec => []AgentTypeOK
  BY AgentStarts, AgentTypeStep, PTL DEF AgentSpec
<1>2. AbrSpec => []AbrTypeOK
  <2>1. AbrInv => AbrTypeOK
    BY DEF AbrInv
  <2> QED
    BY <2>1, AbrStarts, AbrSteps, PTL DEF AbrSpec
<1>3. DeviceSpec => []DeviceTypeOK
  <2>1. DeviceInv => DeviceTypeOK
    BY DEF DeviceInv
  <2> QED
    BY <2>1, DeviceStarts, DeviceSteps, PTL DEF DeviceSpec
<1>4. (/\ VideoTypeOK /\ PeerTypeOK /\ AgentTypeOK /\ AbrTypeOK
       /\ SplitTypeOK /\ OggTypeOK /\ DeviceTypeOK) => HostTypeOK
  BY DEF HostTypeOK
<1> QED
  BY <1>1, <1>2, <1>3, <1>4, VideoTypes, PeerTypes, SplitTypes, OggTypes,
     HostImplementsParts, PTL

=============================================================================
